# A verification project for the TEF platform

The repository is a French exam preparation platform: a FastAPI application over SQLite
(`src/app`), a React client (`src/web`), authored content in YAML (`src/content`), and
language models, speech recognition and speech synthesis behind adapters. This directory holds
TLA+ models of its server and of the boot of its container, the TLC runs that check them on
small instances, and TLAPS proofs of theorems about them. Source lines below are relative to
`src/app` unless they begin with `scripts/`.

Contents: [the system](#1-the-system) · [how concurrency is
modelled](#2-how-concurrency-is-modelled) · [the modules](#3-the-modules) · [the
runs](#4-the-runs) · [the proofs](#5-the-proofs) · [what is not
modelled](#6-what-is-not-modelled) · [the plan](#7-the-plan)

## 1. The system

| component | state it keeps | operations that change it | what must hold |
|---|---|---|---|
| Learning path gating (`content/api.py`) | none: a function of the content and the completed lessons | `compute_unit_status`, `is_lesson_unlocked` | monotone in what is completed; read and write side agree |
| Progress, XP and streak (`progress/`) | `user_progress` (xp, streak, level, last_active), `lesson_completions`, `daily_xp`, `weak_spots` | `submit_result`, `waive_lesson`, `record_activity`, `answer_weak_spot`, `dismiss`, `sync_weak_spots` | every award paid exactly once; ledger and total agree; a waiver was earned; no result behind a closed gate; the streak counts the run of active days |
| Comprehension sets (`comprehension/`) | attempts, `comprehension_passes` | `submit` | the award of a set is paid once |
| Mock exams (`exam/`) | `exam_attempts` (status, sections JSON, report JSON) | `start`, `record_section`, `finish`, `readiness` (reads) | no section lost; a report is complete, final and true; one attempt in progress |
| Exam scoring (`exam/clb.py`) | none | `score`, `clb_report`, `delf_report` | monotone; a threshold counts for who meets it; rounded to the nearest half point, halves up; a goal is met by who earned it |
| Usage meter (`usage/`) | `daily_usage` | `tokens_used_today`, `add_usage` | nobody is overcharged; a day costs at most a known amount over its budget |
| Tutor drills, writing, speaking, lookups (`tutor/`, `assessment/`, `speech/`, `content/`) | submissions, speech sessions and turns, personal cards, the shared lookup table | `drill`, `grade`, `turn`, `opener`, `translate`, `_lookup`, `forms`, `examples` | each checks the meter, calls the router, bills the meter; what was paid for is kept |
| Spaced repetition (`srs/`) | review cards and logs | `seed_cards`, `review_card`, `add_card` | one card a word; a rating is applied once |
| AI router (`ai/`) | none of its own; the response cache | `run`, `BanditPolicy.order` | every target is tried before it fails; it serves only fresh answers of the right target |
| Response cache (`cache/memory.py`) | an ordered dictionary | `get`, `set` | bounded, least recently used out, nothing served past its time to live |
| Accounts and invites (`api/auth.py`, `users/`, `scripts/make_invite.py`) | users, invites | `signup`, `login`, minting, revoking | an invite is used at most `max_uses` times and none is burnt; one account an address; a revoked invite lets nobody in |
| Content sync and boot (`*/sync.py`, `scripts/docker-entrypoint.sh`, `scripts/check_content.py`) | the authored tables, the bucket of clips | one program after the other for each level, at every start | what serves is the release, whole; what the tests accept boots and can be finished |

How they interact. Everything a learner does that counts ends in one function,
`progress.service.record_activity`, called by five endpoints of five components in the
endpoint's own transaction: lesson submit, comprehension submit, exam finish, review and
drill. `submit_result` and `waive_lesson` first ask the gating functions of `content/api.py`,
the ones `get_path` shows the learner. Every endpoint that calls a model goes through the same
protocol with the usage meter (read the day's row, call, write the row), and every model call
goes through one `AIRouter`, which shares one `MemoryCache` among all worker threads.
`exam/api.finish` scores with `exam/clb.py` and pays through `record_activity`. The boot
writes the tables all the others read, and runs before any of them.

What is hard to test, in one place (`PROJECT.json` "hazards" lists each at its line, with the
properties that would catch it):

* Requests interleave at every `await`. Many handlers read a row, await something, and write
  what they read plus something. A double click, two browser tabs, or a retry after a timeout
  is enough.
* A request can die between any two awaits: its session is rolled back, its model call has
  been made all the same.
* Dates: handlers ask for today's date before they wait for the write lock, some of them
  twice. Midnight falls in between.
* Resources at their limit: the daily budget, the response cache, an invite's uses.
* Chains of fallbacks where each link may fail, be slow, or not be there.
* A boot of twenty-one programs in a row that may crash anywhere, over a database that earlier
  releases wrote.

## 2. How concurrency is modelled

The server is one process with one asyncio event loop. Each request has a database session of
its own (`db/session.py get_session`), closed without a commit when the handler raises. The
database is SQLite through the legacy transaction control of `sqlite3`:

* a SELECT outside a transaction is in autocommit: it sees what is committed at that moment,
  holds no lock and no snapshot;
* the first INSERT, UPDATE or DELETE that a session flushes (explicitly, or by autoflush
  before its next query) begins a transaction and takes the database's one write lock, waiting
  for it if need be; the lock is held until the session commits or dies.

So, for every request, the part from its first flushed write to its commit is one atomic step
with respect to all other writers, and everything before it is a sequence of steps between
which anything may happen. That is the grain of every module about requests: a *slot*
(`req[r]`) remembers how far its request is and what it has read, each handler is an action
for every autocommit read that matters and one for the rest, and a request may die at any
point between two of them. What the rest does is computed from the rows *as the session holds
them*: a row read earlier in autocommit is written back only in the columns that changed, an
SQL expression (`xp = xp + n`, `json_set`, `INSERT ... ON CONFLICT`) is evaluated on what is
committed.

The command line that mints and revokes invites is a second process over the same database;
its commands are one step each. The boot is a process of its own, alone: one transaction for
each of its programs, the uploads of clips one by one after the commit. It may crash between
any two of these steps and starts again from the beginning, over what the earlier attempts and
the earlier releases left; a deploy replaces the release at any time, also with an older one.
The router runs in worker threads; there the grain is one step per cache operation (each is
under the cache's lock) and one per provider call.

Most tables these modules describe are keyed by user, and no handler they model reads another
user's rows: one learner is enough, the concurrency is that learner's own. The exceptions are
modelled as shared: the lookup row of a word, the invites, the cache.

**Fairness.** The modules about requests have only safety properties: a request may stop
anywhere, and no fairness is assumed. Two liveness properties assume weak fairness, of each
router thread's `Advance` and of the boot's own step. The code justifies the first: the pool
runs every worker it started, the cache's lock is held for a bounded number of dictionary
operations, and a provider's client gives up after a time (`ai/adapters/ollama_adapter.py:25`
sets 120 seconds; the LiteLLM adapter, which also serves the Anthropic models, leaves it to
the library's default timeout). And the second: the script is sequential, each program loads a
finite directory and ends, and `restart: unless-stopped` starts the container again. No
fairness is assumed of callers starting calls, of the clock, of deploys, of crashes, or of a
provider *answering*.

**Deadlock.** The runs say `CHECK_DEADLOCK FALSE`, because each has a bounded clock or a
bounded number of attempts, presses, turns or deploys, and stops at its bound where the
program does not. `personal_vocab` has no such bound and checks for deadlock.

## 3. The modules

| module | models | lines |
|---|---|---|
| `Gating` | `compute_unit_status`, `_unlock_ok`, `is_lesson_unlocked` as operators over a set of completed lessons | `content/api.py:49-88` |
| `Activity` | the pure part of `record_activity`: row creation, streak, level promotion, the once-a-day claim | `progress/service.py:53-134`, `progress/models.py:86-95` |
| `Progress` | extends both; the five endpoints that pay, the waive hatch, midnight, death | `progress/api.py:48-208`, `comprehension/api.py:163-205`, `exam/api.py:228-286`, `srs/api.py:129-152`, `tutor/api.py:36-94` |
| `XpAwards` | the abstract promise `Progress` implements: each award is paid at most once, for what it is worth, and the total is nothing else | – |
| `UsageMeter` | `tokens_used_today` and `add_usage`, and the four shapes of the protocol around them | `usage/service.py`, callers |
| `Accounts` | signup, login, the session token; minting and revoking | `api/auth.py`, `users/`, `scripts/make_invite.py` |
| `ExamScoring` | bands, points, both reports, over integers | `exam/clb.py` |
| `MockScores` | instantiates it twice; a walk through the answers of a mock, scored as TEF and as DELF | `exam/clb.py` |
| `ExamAttempt` | extends it; start, record_section, finish, readiness | `exam/api.py:86-364` |
| `WeakSpots` | the missed questions of a comprehension set: submit, answer, dismiss, the queue, the re-sync of the set | `progress/service.py:137-174`, `progress/api.py:259-358`, `comprehension/api.py:110-146`, `comprehension/sync.py:28-40` |
| `StudyExtras` | the forms and the example sentences of one card | `content/vocab_extra.py`, `content/vocab_extra_api.py`, `content/forms.py` |
| `FormRules` | the rules that correct the forms a model gives, and one reply | `content/forms.py:64-232` |
| `PersonalVocab` | one word: the shared lookup row and its clip, a learner's card and its review | `content/lookup.py`, `content/personal.py:86-123`, `content/personal_api.py:73-324`, `srs/service.py:31-109` |
| `SpeechSession` | spoken turns and openers, the trimmed prompt, subtitles and audio made on demand | `speech/api.py:63-347`, `423-455`, `497-554`, `speech/examiner.py:186-228` |
| `VocabReview` | the debrief of a session: its words matched against the course and the deck, and one debrief | `speech/vocab_review.py` |
| `MemoryCache` | get, set, the clock | `cache/memory.py:15-47` |
| `AIRouter` | extends it; `run` with its policy and registry | `ai/router.py:71-137`, `ai/policy.py:21-44` |
| `ContentFiles` | a release on disk; what the loaders and what the checker demand of it | `content/loader.py`, `comprehension/loader.py`, `assessment/loader.py`, `speech/topics.py`, `exam/loader.py`, `scripts/check_content.py` |
| `ContentBoot` | extends it; the boot, its tables and its bucket, crashes and deploys | `scripts/docker-entrypoint.sh`, the five `sync` programs |
| `AuthoredReleases` | twelve releases, one edit apart | – |
| `MC*` | instances of the above for TLC | |
| `ProgressProofs`, `LearnerProofs` (`UsageMeter`, `Accounts`), `StudyProofs` (`WeakSpots`, `StudyExtras`, `FormRules`), `ExamProofs`, `VocabProofs`, `SpeechProofs`, `PlatformProofs` | theorems and proofs | |
| `FoldProofs` | lemmas they share: least numbers and smallest subsets, sums over finite sets, folds of sequences | |

Which modules are composed. `Progress` is the composition of five components around `Gating`
and `Activity`; `ExamAttempt` extends `ExamScoring`, `AIRouter` extends `MemoryCache`,
`ContentBoot` extends `ContentFiles` and instantiates `Gating` for the path of a release. Some
MC modules check two components that share no state in one run: each moves while the others
have not started (`MCAccounts`: `UsageMeter`, `Accounts`; `MCStudy`: `WeakSpots`,
`StudyExtras`, `FormRules`; `MCExams`: `ExamAttempt`, `MockScores`;
`MCSpeechSession`: `SpeechSession`, `VocabReview`), or a variable chooses the one that does
(`MCPlatform`: `ContentBoot`, `AIRouter`). The state space is then the sum of theirs and not
the product, and since the parts share no variable no behaviour of either is lost.

How state and actions correspond to the code:

**Gating.** A learner's progress enters as the set `done` of completed lessons, passed or
waived, as `completed_lesson_ids` returns it. A unit of unlock type `none` and one requiring
nothing are the same `Requires[u] = {}`. `ContentAssumption` states what `content/loader.py`
validates before anything is synced. Where a lesson belongs to several units the code takes
the first row of the table; `OwningUnit` takes any one, fixed.

**Progress.** `lesson[l]` is the `lesson_completions` row (absent is no attempts, not passed,
not waived), `setPasses` and `examDone` the rows whose insert or flip claims an award,
`ledger` the `daily_xp` rows, `prog` the `user_progress` row, level 0 for no row. Actions:
`SubmitLesson` (gate read) then `CommitPass` or `CommitFail`; `ReadForWaive` then
`CommitWaive`; `PassSet` with `ClaimsSet`, the unique insert; `StartFinish` then
`CommitFinish` with `FlipsStatus`, the guarded UPDATE; `StartReview`/`CommitReview` and
`StartDrill`/`CommitDrill`. A waive of a lesson already waived changes no column, so it
flushes nothing before `record_activity` reads the progress row: it is the one caller that
reads `user_progress` without the lock, and it has two steps of its own, `ReadForRewaive` and
`CommitRewaive`, the second writing back only the columns that differ from what the first
read. `Midnight` moves the date. History variables: `activeDays`, the days an activity was
recorded for, and `straddled`, whether one was recorded for a day already over.

**UsageMeter.** `usage[d]` is the day's total (input and output tokens are two columns always
written together, modelled as one number), `rows` the days with a row. `Start` checks the
budget; `Answer` is the model's reply; then, by kind of endpoint, the row is read and written
in one step or in two, with the date asked for once or again: `drill` (tutor, spoken turns),
`grade` (which may raise on an answer it cannot parse, after the model has been paid), `card`
(forms, examples, translations, debriefs), `lookup` (which may write before it bills and then
bills under the lock). Two first bills of a day race on the unique key: the second INSERT
fails and its request dies. An answer served from the response cache costs no money, but its
tokens are billed to the learner like any other's; the meter does not tell them apart and
neither does the model. History: `spent` (what calls cost), `billed` (what committed requests
should have added), `lost`, `overlapped`.

**Accounts.** `users[e]` is the user of an e-mail as stored, `invites[i]` the row of a token,
`sessions` the session tokens given out. An address is typed in two ways, and `signup` and
`login` store and look up what `Normalized` makes of them. `StartSignup` reads the invite in
autocommit and holds it while the password is hashed (`Redeemable`: not revoked, not expired,
uses below the cap; the static codes of the configuration have no row); `CommitSignup` inserts
the user and writes the count it read plus one, in one transaction, or fails on the unique
address (`Taken`). `Mint` and `Revoke` are `make_invite.py`. History: `crossed`, the invites
that two signups held at once.

**ExamScoring.** Fractions are pairs, points are counted in half points. `floor(2p + 0.5)` is
done in exact arithmetic; the code uses floats. The two differ for no total below 100; at and
above it for a few scores where the exact value is a tie that the float product just misses
(29/100, 57/100, 58/200 and 114/200 give half a point less in the code). No blueprint in
`src/content` has a section that long.

**MockScores.** `answers` are the correct answers of each section of a mock and the points of
its writing; a step is one more of them. Every state is scored by both formats: what a
candidate could not explain is that one more right answer gives a lower result
(`BetterNeverHurts`), or that a mark is not what the answers are worth (`MarksAreTrue`). The
second is stated of the raw answers and of no operator of `ExamScoring`: a level by the
percentage it takes, points by their distance to every half point there is, the TEF goal by
seven answers in ten, the DELF goal by the exact points, up to the quarter point a section
that rounding may add or take.

**ExamAttempt.** `attempt[a]` has a status, sections as a function from recorded skills to
marks, and a report. `start` is `StartRead` then insert; `record_section` is a read (status,
blueprint) then one `json_set` UPDATE; `finish` is a read of status and sections, then the
UPDATE guarded by `status = 'in_progress'`, whose loser answers the stored report. `readiness`
is the pair `Series`/`Best`. History: `last`, the last mark recorded for each skill;
`replies`, the reports that finishes answered; `late`, the attempts into which a section was
written after a finish had read them; `raced`, whether two starts were about to insert at
once.

**WeakSpots.** `spots[q]` is the `weak_spots` row of question `q` (whether there is one,
`times_missed`, whether `resolved_at` is set), `asked` the questions of the synced set, empty
when the set is gone. `ReadSet` grades the whole set, `SyncWeakSpots` is the submit's write:
its upserts and its UPDATE are SQL expressions evaluated under the write lock.
`LoadForAnswer`, `Judge` or `QuestionGone`, then `AnswerRight` or `AnswerWrong` are
`answer_weak_spot`; `LoadForDismiss` and `Dismiss` are `dismiss_weak_spot`. Both load the row
in autocommit and write back, as absolute values, only the columns they changed: a dismissal
of a row it loaded resolved writes nothing. `SyncSets` replaces the set under everybody at any
time. A submit's pass and its award are `Progress`; the choices and the text of a question are
data. History: `misses` and `latest`, the wrong answers and the last verdict committed for a
question; `crossed`, the questions of which an answer or a dismissal wrote a row that had been
written since it was loaded.

**StudyExtras.** `row` is the `vocab_extras` row of one card: its form table and its history
of sentences, newest first. `ReadForForms` answers what is stored or goes to the model;
`StoreForms` is the bill and the write behind it, under the lock. A word that does not inflect
is not billed, so its second look at the row is in autocommit and `InsertForms` may meet the
row of another: it dies on the unique key. `ReadForExamples` reads the history and
`StoreExamples` writes the merge of the model's sentences with *what was read*, cut to
`MAX_EXAMPLE_HISTORY`; sentences are compared without case. `inflects` says whether the word
is of a part of speech that has forms. History: `told`, every sentence stored, newest first;
`lost`, whether an answer was stored over one its request had not read; `twice`, whether two
requests generated the forms at once.

**FormRules.** A form is the sequence of its words, and an elided word is one of its own, so
that a rule adds, drops or replaces words. The rules are applied to a model's reply before it
is stored and again whenever the stored forms are read. The one step, `FormNext`, is a reply.

**PersonalVocab.** One word, that is one key: the spellings that share it are numbered by
their accents, since accents are all `cached_lookup` and `_headword` compare, and a meaning,
an IPA and a clip are named by the spelling they are of. `row` and `card` are records of four
columns, the last saying under which key a clip is remembered; `clip` is what the shared clip
in the object store pronounces, which no transaction covers; `review` counts the ratings of
the review card. A lookup is `Look` (with `CachedLookup`), then `HealIpa` and `HealGloss`, or
`Enrich`, `Voice`, `MergeRead`, `Store`: `session.merge` reads the row and the flush writes
only the columns that differ from what it read (`Merged`), so two merges that overlap can
leave a mixture. `AddClient` or `AddFound` reads the card and `CommitAdd` inserts or completes
it and seeds its review; two INSERTs race on a unique key and the loser `Die`s. `Play`,
`HealPlay`, `Synthesize` and `Remember` are `_serve_audio`, for the row and for the card.
History: `answered`; `crossed`, whether two ratings of the card were in flight at once;
`torn`, whether a row or clip was written while another request used one, or a request died
with a clip stored and its row not committed. Not in the model: the dictionary's coming to
know a word that was stored before it did, which `heal_gloss` is for, so it writes only after
a race; the over-budget branch (in `UsageMeter`); gender and part of speech, which travel with
the meaning; words of one key with equally many accents (*côte*, *coté*), which the code does
not tell apart either.

**SpeechSession.** `turns` is the `speech_turns` table in commit order; of a row it keeps the
conversation, whether the examiner's line is authored, the model's or blank, whether
`reply_audio_key` is set, and `reply_en`. `clips` is the object store, a clip named by its
turn, and 0 the clip of the authored line, which is found again by its text. `CountTurns` and
`ReadTurns` are the two statements of `_recent_history`, with the block arithmetic in `Cut`;
`Reply` appends the turn. An opener is `VoiceCanned` (the clip is put in the store) and
`OpenAuthored`, or `AskOpener` and `Reply`. `LoadLine` and `StoreSubtitle` are
`translate_turn`, with the ORM's rule that a value equal to the loaded one is not written;
`LoadAudio`, `PutClip`, `KeyClip` are `speech_audio`. Every refusal (budget, silence,
undecodable audio, a failed call) and every death is `GivesUp`, since the reasons are data
here and the budget is `UsageMeter`'s. A blank translation is stored as blank and asked for
again, and is not counted in `paid`. History: `paid`, the calls that gave a line its English;
`raced`, the lines two requests translated at once.

**VocabReview.** A word is its letters, its marks, how its parts are joined and whether
an article leads it: what the four normalisations of the file (`_norm`, `_deaccent`, the match
key and the personal key) keep or drop. `Debrief` is the endpoint: the words of the course,
and the rest offered as new unless the learner owns them. The one step, `DebriefNext`, is the
debrief of a session.

**MemoryCache, AIRouter.** The ordered dictionary is a sequence, least recently used first. A
provider answers or raises as it likes; one whose key is not configured is not registered and
always raises. The order of a call is the learned ranking, then the primary target and the
fallbacks that it does not list. An answer is known by the call it answers and the time it was
stored; the clock of an entry is read before the lock is taken, so it may lag (`set`, line
42). `used` is a history: the cache without bound and without expiry. The docstring of the
cache says that expired entries are "also evicted when encountered during insertion"; the code
evicts from the old end whatever is there, expired or not, and the model follows the code.

**ContentFiles.** A tree is a function from the directories of `src/content` to what their
files say, in the order the loaders sort them: path, lessons, vocabulary, sets, tasks, topics,
mocks, clips. One operator for each loader says what it accepts (`LoadsContent` ...
`LoadsExams`); one for each test of the checker, under its name, what that accepts
(`CheckLevel`, `CheckGlobal`). A text is the set of words it shows, a flag says that a field
is filled in.

**ContentBoot.** `db[t]` is the set of rows of a table, each with the id, the level that the
sync stamps on it and its object; `bucket` the clips; `step` the program to run next, 0 when
the application serves; `uploads` what is left to upload of the last one. `Sync` is one
program: load, delete the rows of the level, insert the files' objects, commit; `Fail` is a
refusal of the loader or an INSERT that meets the primary key of another level's row
(`Clashes`), after which the boot starts again. `Upload`, `Crash`, `Deploy` are one clip, the
container's death, and another image. `deployed` is the history of releases.

**AuthoredReleases.** A base of two levels and the TEF mock, and what an author may do to it:
a requirement on nothing, a lesson moved to the next level, a stale quote, a skill that no set
has, a file copied to another level, an id twice in a directory, a path labelled as another
level, a level without path and mock, a cycle of requirements, a lesson listed by two units, a
re-recorded clip. Some are
refused by the checker, some by a loader, some by neither.

## 4. The runs

All bounds are constants named in the modules and commented "bound".

| run | checks | distinct states | bounds, and why they are enough |
|---|---|---|---|
| `progress_awards` | `XpIsEarned`, `LedgerAddsUp`, `ImplementsAwards` | 202 000 | two requests of any of the five kinds in flight, two days, two lessons, one set, one exam. A double payment needs two requests for one award; a lost or stale date needs one midnight |
| `progress_path` | `WaiverIsEarned`, `ResultsOnlyBehindOpenGates`, `StreakIsTheRun`, `PathOnlyOpens` | 322 000 | three units in a chain, the last with no lessons; two lessons; three days, so that a streak can grow, break and start again; two failed attempts, what the waive hatch asks for; a set of a lower level |
| `accounts` | `ExactWhenSerial`, `OvershootBounded`, `NothingBurnt`, `CapHolds`, `OneAccountPerAddress`, `RevokedIsShut` | 940 000 | the meter: two requests of every kind, two days, budget 2, calls of 1 or 2 tokens, so that the budget can be met exactly and overshot by each slot. The accounts: two signups, two addresses, two passwords, an invite for one account that expires, one without a cap, a static code |
| `usage_unbilled` | `BudgetEnforced` (violated) | – | one request at a time, so that nothing in flight can be blamed |
| `exams` | `NoSectionLost`, `ReportMatchesSections`, `RepliesAgree`, `OneOpenUnlessRaced`, `ReadinessRises`, `MarksAreTrue`, `BetterNeverHurts` | 165 000 | two attempts, two requests, a required skill and one the blueprint does not list, two different scores. The walk: every score of twenty questions, so that every threshold of the table is met exactly and every odd score is half-way between two half points |
| `exam_duplicates` | `NoDuplicateAttempts` (violated) | – | as above |
| `exam_closed` | `SectionsClosed` (violated) | – | as above |
| `study` | `MissesAddUp`, `QueueIsLatestVerdict`, `PastStaysVisible`, `ReadsAsStored`, `FormsAreStable` | 460 000 | two questions, two requests, three misses of each: a lost miss needs two. Three sentences in two cases against a history of two, answers of up to two, stored three times: one is cut off and one repeated. Two form tables, or a word without |
| `personal_vocab` | `RowIsWhole`, `RatingsCount`, `CardIsKept` | 5 891 000 | two requests; two spellings, so that a re-lookup changes the row; two ratings, so that one can be lost and one follow; symmetric in the requests |
| `speech_session` | `PromptFits`, `LinePaidOnce`, `OffersCanBeTaken` | 4 623 000 | two requests, a conversation and turns without one, four turns against a cap and a block of two: one block is left out at three turns and still one at four; the first turn is played and translated. Debriefs of a course and a reply of two words each, which is what a duplicate takes |
| `platform` | `RecentKept`, `FailsOnlyAfterAll`, `HitsAreFresh`, `EveryCallEnds`, `ServesTheRelease`, `MocksResolve`, `CheckedReleaseBoots`, `CheckedReleaseTeaches`, `EveryBootEnds` | 294 000 | the router: two threads; a cached profile with four targets, two of them learned, one unregistered; an uncached one; a cache of two for the three entries that can be stored; a clock that outlives the time to live. The boot: twelve releases, two deploys after the first and one crash, so that a release can be interrupted, superseded and rolled back |
| `redeploy` | `RedeployIsSafe` (violated) | – | two releases, one of which moved a lesson to the next level; a rollback |

What the passing runs show:

* *Awards.* Whatever the five endpoints do to each other, and wherever requests die, the total
  is exactly what was earned: the once-only claims (the unique insert of a set, the guarded
  status flip of an exam, the first pass of a lesson read under the lock, the unique daily
  marker) each hold on their own and together, and the ledger behind the daily-goal ring adds
  up to the total. `ImplementsAwards` says it without mentioning any table: the rows implement
  `XpAwards`.
* *The path.* A waive and a submit decide on rows they read before they write. They stay right
  because completion only grows and the gating functions are monotone in it.
* *The streak.* Without a straddling activity it is exactly the run of active days. With one
  (begun before midnight, committed after one of the new day) `compute_streak` sees a date
  that moved backwards and restarts at 1; the property excludes this case by name and the
  hazard list records it.
* *The meter.* It can forget tokens and never invents them; it is exact unless two bills
  overlapped; and a day's cost is bounded by the budget and one call for each request in
  flight, as long as nothing was lost.
* *Accounts.* An invite may be used more often than it counts, never less: a lost update of
  the count burns nothing. Its cap holds unless two signups held it at once, and then it does
  not: the check and the increment are apart. However it is spelled, an address has one
  account and signs in to it, and who is let in after a revocation had read the invite before
  it.
* *Exams.* Sections of different skills never overwrite each other; the reports that racing
  finishes answer agree, and are the report of the sections on record, unless a section was
  written after a finish had read the attempt. A mark never falls with one more right answer,
  and is the one the answers are worth: at the answer that meets a threshold exactly, at the
  score half-way between two half points, and in the goals, which no section is left out of.
  Monotony alone would not notice a strict comparison or a tie rounded to the even number.
  Rounding can decide a DELF mock by a quarter point a section: 4.75 points reach the floor
  of 5. The best band of a skill is followed through mocks of one format; that readiness
  leaves DELF reports out (`exam/api.py:347`) is modelled by a constant and not put to a test.
* *The router.* A hit is an answer of the very target being tried, to the very request, stored
  less than its time to live ago; the cache forgets the entries used longest ago. A call fails
  only when every target, learned or static, has failed. It always ends.
* *A word.* One request after the other, with a TTS and an object store that fail as they
  like, the shared row is never a mixture: a better-accented lookup replaces meaning, IPA and
  clip together, and the spelling never gets worse. The exceptions the property names are
  real: `merge` writes by column, and the clip is stored before the row. A learner's card
  keeps its text and its sound and its reviews whatever is added again; of two ratings at once
  one is lost, and none counts twice.
* *Missed questions.* A question that is asked is in the queue exactly when its last verdict
  was a miss, and its count is the number of misses, whatever submits, answers, dismissals and
  re-syncs come in which order; also a set that goes and comes back finds its rows. The
  exception the properties name is real: a wrong answer that overlaps a submit's miss writes
  the loaded count plus one over it, and one that overlaps a right answer leaves the row
  resolved.
* *Extras of a card.* What a learner was shown stays in the history, newest first, until the
  cap pushes it out, unless two generations overlap: then the second writes what it read over
  the first's. A form table once stored is not replaced, except by a request that was
  generating one at the same time. And reading a stored form gives what was stored: the rules
  that correct it are idempotent, which the code relies on since it applies them on both
  sides.
* *Speaking.* Of the turns it counted, a prompt leaves out whole blocks and never keeps more
  than the cap, however many turns others append meanwhile; a committed audio key always has
  its clip; a line's English is paid for once. Two toggles of one line that overlap pay twice,
  and the comment at `speech/api.py:506` ("billed once however often it is toggled") does not
  hold for them; the property excludes them by name and the hazard list records it. A word
  that the debrief offers as new can be taken: it is in neither the course nor the deck. The
  property excepts a word that differs from one of the course by a hyphen, which is offered
  and then refused.
* *The boot.* A boot comes to an end, or fails over and over: `EveryBootEnds` says that it does
  not hang, not that it succeeds, which is for the two properties of checked releases and the
  run `redeploy`. What serves has exactly the rows of its release at every level, and its clips,
  whatever was deployed before and wherever earlier boots died; every section of every mock
  can be opened. A release the tests accept boots, with four provisos that are real: a
  directory without `path.yaml`, a path labelled as another level, keys the tests do not
  compare, an object come down from a level booted later. And its path can be finished, with
  one: the tests follow no chain of requirements. A chain can close without a unit requiring
  itself: nothing refuses a lesson that two units list, and it is opened by one of them only,
  so that the other, and what requires that one, waits for it. `Deadlocked` is therefore
  stated of the units that wait for one another (`Behind`, `Waits`), not of `requires` alone:
  with the narrower proviso the property is false.

What the four violated runs show (`PROJECT.json` "findings" quotes the documents):

* `usage_unbilled`: the plan promises an enforced daily budget, but a grade whose answer
  cannot be parsed raises between the model call and the bill. The meter stays at zero and the
  next call starts.
* `exam_duplicates`: `start` resumes "instead of spawning duplicates", by a SELECT and an
  INSERT with nothing unique between them. Two starts that both find nothing both insert;
  after that every start of this blueprint fails with an exception until one is finished.
* `exam_closed`: the tests say a finished attempt takes no section; the check is on the row as
  loaded and the UPDATE does not repeat it.
* `redeploy`: the script says the syncs upsert by id and are safe on every redeploy. They
  delete one level's rows and insert; ids are keys across levels. A rollback over a release
  that had moved a lesson up fails at the same program at every restart.

For every property of a passing run `PROJECT.json` names a mutant: a plausible slip in the
code (a dropped guard, a stale read, a missing reset, a key without its target) under which
TLC finds the property violated by that very run. The mutated operators stand beside the ones
they mutate.

## 5. The proofs

The theorems hold for every value of the constants that satisfies the modules' named
assumptions (`ContentAssumption`, `ProgressAssumption`, `UsageAssumption`,
`AccountsAssumption`, `ExamAssumption`, `CacheAssumption`, `RouterAssumption`,
`ContentBootAssumption`, `VocabAssumption`, `WeakSpotsAssumption`, `StudyExtrasAssumption`,
`FormRulesAssumption`, `MockAssumption`, `SpeechAssumption`, `ReviewAssumption`), which TLC
evaluates in the runs: any content, any number of releases, requests, days, addresses,
invites, attempts, threads, profiles, entries, spellings, ratings, questions, sentences and
turns, a mock of any length, a course, a deck and a reply of any, any cap and block.

What is assumed is what the code validates or the data is: that the lessons of a directory and
of a unit come in a sequence, that a table is not the empty one, that the words an elision is
made of begin with consonants.

| theorem | says | argument |
|---|---|---|
| `ProgressProofs!TypeCorrect` | `Spec => []TypeOK` | inductive as it stands; one lemma for `record_activity`, then one step per action |
| `ProgressProofs!XpEarned` | `Spec => []XpIsEarned` | inductive with `TypeOK`: each committing action adds one element to one of the counted sets, or none, and the total moves by the same; cardinality lemmas for the five sets |
| `ProgressProofs!AwardsImplemented` | `Spec => ImplementsAwards` | every step pays one award not yet paid or changes neither `paid` nor `xp`; uses the two above |
| `ProgressProofs!LedgerAgrees` | `Spec => []LedgerAddsUp` | every action that pays changes one entry of the ledger by what it adds to the total: `SumUpdate`, of a sum in which one entry changes |
| `ProgressProofs!PathOpens` | `Spec => PathOnlyOpens` | gating is monotone in `done` (`StatusMonotone`), and `done` only grows |
| `ProgressProofs!WaiversEarned`, `GatesHold` | `Spec => []...` | strengthened by `ReadsStillHold`: whatever a slot read and decided on is still true, because attempts and completed lessons only grow. Without it the invariants are not inductive: the writing step trusts the slot |
| `ProgressProofs!LevelRises` | `Spec => LevelNeverFalls` | the one unlocked read-and-write-back is covered by an invariant that bounds what its slot remembers by the current level |
| `ProgressProofs!StreakCounts` | `Spec => []StreakIsTheRun` | an invariant that relates the row's last day and streak, the active days and the dates that slots remember |
| `LearnerProofs!TypeCorrect`, `MeterNeverOvercharges`, `MeterExactWhenSerial` | `Spec => []...` | strengthened by what a slot has *seen*: it is never more than what was billed, and is the current row as long as nothing overlapped |
| `LearnerProofs!OvershootIsBounded` | `Spec => []OvershootBounded` | what is over the budget fits in a grid of slots by tokens: a slot answered after the budget was met is still there to be charged for it. Assumes a budget above zero |
| `LearnerProofs!AccountsTypeCorrect`, `InvitesNotBurnt`, `CapsHold`, `AddressesAreOne`, `RevokedStaysShut` | `AuthSpec => []...` | strengthened by what a slot holds: never more uses than there are accounts, and, as long as nothing crossed, the invite as it is |
| `ExamProofs!TypeCorrect` | `Spec => []TypeOK` | marks stay in range: lemmas on the tables and roundings, for both formats and any score |
| `ExamProofs!SectionsPersist`, `FinishedIsComplete`, `ReportsAreFinal` | `Spec => ...` | a slot that is about to finish saw a complete profile, and the guarded update flips a status once |
| `ExamProofs!ReportIsTrue`, `FinishesAgree`, `OneAttemptOpen` | `Spec => []...` | unless a section came late, a slot about to finish holds the sections as they are; unless two starts raced, one that found nothing still would |
| `ExamProofs!BestNeverFalls` | `Spec => ReadinessRises` | a report once stored stays, so the series of bands only gets longer, and so does the set its greatest element is taken of |
| `ExamProofs!MockTypeCorrect`, `BetterHurtsNever` | `MockSpec => ...` | every table and rounding is monotone, for any number of questions; the sum and the floor over the sections keep the order (`SumMonotone`) |
| `ExamProofs!MarksAreWorth` | `MockSpec => []MarksAreTrue` | the first row reached is at least a level exactly if the row of that level is reached (`LevelIffReached`, from `RowsOfLevel` and `BandsFall`); a floor of a quotient is within half a half point (`PointsAreClose`), so that every other half point is further off (`PartsApart`); three such bounds add up to the one on the total (`TotalIsClose`, `SumOfThree`) |
| `PlatformProofs!TypeCorrect`, `EveryTargetTried` | `Spec => []...` | a call has failed at every target before its position; `Order` is taken apart without `SelectSeq`'s recursion |
| `PlatformProofs!CacheServesFresh` | `Spec => HitsAreFresh` | inductive invariant `FreshInv`: every entry lies under the key of what it answers and expires no later than its answer's storing plus its profile's time to live; evicting and touching keep a sequence of such entries one |
| `PlatformProofs!CacheKeepsRecent` | `Spec => []RecentKept` | `UsedInv`: the cache follows `used` in its order, so what is evicted has been used before all that stay; that these are enough is the pigeonhole of `BoundedFollows` |
| `PlatformProofs!ReleaseIsServed`, `MocksAreWhole` | `BootSpec => []...` | `RowsInv`: the tables of the programs that have run are those of the release, level by level, since replacing one level leaves the others (`ReplacedRows`) |
| `PlatformProofs!CheckedBoots` | `BootSpec => []CheckedReleaseBoots` | `OriginInv`: every row comes from a release that was deployed. The row that an INSERT meets is of the release, where the checks keep ids apart, or of an earlier one, and then its level is booted later (`StepOrder`) |
| `PlatformProofs!CheckedTeaches` | `BootSpec => []CheckedReleaseTeaches` | the rounds of `Reachable` only add lessons of a finite path, so as many rounds as there are lessons reach one that adds none (`RoundsSuffice`); what that one has not reached is behind itself, which is `Deadlocked` |
| `VocabProofs!TypeCorrect`, `CardStays` | `Spec => ...` | `TypeInv`: a slot that counts on a row (to heal, to merge into, to complete) still finds one, because no row is ever deleted |
| `VocabProofs!RatingsAreCounted` | `Spec => []RatingsCount` | `RatingInv`: unless two crossed, a rating in flight is alone and read the card as it is |
| `VocabProofs!RowStaysWhole`, `AccentsStay` | `Spec => ...` | `WholeInv`: as long as nothing is torn, every slot holds the row as it is, and the row is whole except for a clip that one slot has stored ahead of it. `RowIsWhole` alone is not inductive: what `Store` writes is whole only because of what the slot was given by `Enrich` and `Voice` |
| `StudyProofs!TypeCorrect`, `MissesAreCounted`, `QueueFollows` | `Spec => []...` | strengthened by `LoadedInv` (a slot that is not stale holds the row as it is, and any slot holds a row whose count is behind or equal) and `VerdictInv` (an open row is one whose last verdict is a miss) |
| `StudyProofs!CardTypeCorrect`, `PastIsShown`, `FormsStayStored` | `CardSpec => ...` | unless the answer of another was stored, what a slot read is the history as it is; and what is cut off a history stays off it: a later merge never misses a sentence that is gone (`CutOffStaysOff`) |
| `StudyProofs!FormsReadAsStored` | `FormSpec => []ReadsAsStored` | `ElideSettles`: elision leaves nothing to elide, because what it leaves begins with a consonant; then each rule finds done what it would do: subject, complement (`RestoredStays`), clitic and auxiliary (`PasseComposeStays`) |
| `SpeechProofs!TypeCorrect` | `Spec => []TypeOK` | with `KeysInv`: a slot about to commit a key has stored the clip, and the turn it works on still exists, because turns are only appended |
| `SpeechProofs!PromptsFit` | `Spec => []PromptFits` | `CutWholeBlocks`, the arithmetic for every count, cap and block, and `CountGrows`: a conversation only gets longer between the counting and the reading |
| `SpeechProofs!LinesPaidOnce` | `Spec => []LinePaidOnce` | `PaidInv`: a line never raced has its English exactly if it was paid for; and, in `Fits`, a slot translating a line not yet raced holds the row as it is |

The type invariants, `LevelNeverFalls`, `NeverOvercharged`, `FinishedComplete`, `ReportFinal`
and `SpellingKeepsAccents` were checked by TLC before they were proved; the runs leave them to
the theorems and check what says more.

Every invariant and every action property of the runs that pass has a theorem. Induction over
data cannot be cited, since the library's principles take an operator as a parameter; where a
proof needs it, it is made of first-order steps. `FoldProofs` says that a nonempty set of
naturals has a least element and that of the subsets of a finite set that lack something there
is a smallest, and proves of each fold what these give: that it exists, how it unfolds, that
it stays in a set each of its steps stays in (`FoldStays`), what a sum becomes when one entry
changes (`SumUpdate`) or all grow (`SumMonotone`).

A proof that failed changed the model twice. `CheckedReleaseTeaches` held in the run and could
not be proved: the step from "not reached" to "a unit that requires itself" is wrong for a
lesson that two units list, and a twelfth release showed it to TLC. And `ReadsAsStored` holds
of what a model usually replies, not of everything: `Ordinary` now says when. An adjective
with two determiners loses one when it is stored and one when it is read
(`content/forms.py:72`); a headword such as *avoir le*, that ends in a word to elide, has its
complement put back once more (`content/forms.py:191`).

Only model-checked: `EveryCallEnds` and `EveryBootEnds`, as liveness under fairness is out of
the prover's reach, and what the four violated runs show. No module here declares a RECURSIVE
operator.

## 6. What is not modelled

* What models answer, prompts, parsing, and wording; an answer is usable or not, or a number
  of tokens, or a member of a small set.
* FSRS (a library), the French dictionaries and lexicon (string processing without state),
  speech recognition and synthesis, object storage (I/O), hashing and signing (libraries).
* The React client: requests come in any order and any number.
* Offline tools: evaluation, calibration, benchmarks, migrations, the import of decks.
* Content that changes under a running server, except the comprehension set of `WeakSpots`: a
  deploy replaces the container, so `ContentBoot` changes content only while nothing serves.
  `Progress` and `ExamAttempt` take it as fixed, and what a release that drops a lesson leaves
  of the completions of it is not modelled.
* Which of its authored openers a topic picks, and the lists of past conversations: the first
  is data, the others write nothing.
* `MemoryCache.delete` and `clear`, which nothing calls.
* Several server processes: the deployment runs one worker.

Met on the way, in the hazard list or above, and covered by no property or excluded by one:

* The tests compare the ids of words and exercises over all levels, not those of units,
  lessons, sets, tasks, topics and mocks; they pass over a directory without `path.yaml`,
  which the script boots all the same; they do not compare the level in a path with its
  directory.
* After a meaningless answer `fresh_lookup` stores nothing "so a retry can succeed"
  (`content/lookup.py:83-87`), but its profile has `cache: true`, so the router serves the
  retry the same answer until the time to live has passed.
* The shared clip of a key is overwritten by a lookup of another spelling, and a card that has
  no clip of its own plays it (`content/personal_api.py:204`).
* The aspirated h of a reflexive verb is not found, since its lemma begins with *se*
  (`content/forms.py:115`, `:188`): *se hâter* gives *je m'hâte*.
* The debrief compares a word without its hyphens and the deck with them
  (`speech/vocab_review.py`, `content/personal_api.py:228`).

Components with status "partly" or "not_modelled" in `PROJECT.json` say what is left and why.

## 7. The plan

Done, in this order, the most important behaviour first: the awards and the path (the one
function every component calls), the usage meter (the one protocol every model call follows),
the exams, the router and its cache, a word with its card and its reviews, the missed
questions, the speaking practice; then the accounts, the extras of a card and the rules of
forms, the debrief, and the content from its files to a booted application.

What could follow:

1. A second abstract specification and its refinement: what `finish` promises (one report,
   decided once, answered to everybody) implemented by `ExamAttempt`, or the shared word of
   `PersonalVocab` as a register that only improves.
2. `Progress` over a content that a deploy may change: which of its invariants are about rows
   alone, and which need the path.
3. The router together with a lookup, for the meaningless answers it keeps.

A new run should take the place of one that says less, or share it: twelve runs are what the
time of a check affords.
