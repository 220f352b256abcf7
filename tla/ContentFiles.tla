---------------------------- MODULE ContentFiles ----------------------------
(***************************************************************************)
(* The authored content of a release: one directory per level, and what    *)
(* two programs demand of it.  The loaders of app/ refuse a directory when *)
(* the container boots; scripts/check_content.py, which the tests run,     *)
(* refuses more of it before it is released.                               *)
(*                                                                         *)
(* A tree is a function from directory names to directories.  The files of *)
(* a directory are sequences in the order the loaders sort them.  A text   *)
(* is the set of the vocabulary ids it shows, a flag says that a field is  *)
(* filled in.                                                              *)
(***************************************************************************)
EXTENDS Integers, Sequences, FiniteSets

CONSTANTS
    GrammarCategories,  \* GRAMMAR_CATEGORIES of content/models.py
    UnitIcons,          \* the keys of UNIT_ICONS in Path.tsx
    KnownGaps,          \* KNOWN_GAPS: triples of level, lesson, word
    ConjugatedOnly,     \* KNOWN_CONJUGATED_ONLY: the same
    MinCoverage         \* MIN_COMPREHENSION_COVERAGE, in percent, of some levels

TEF_LEVEL == "tef"
\* A directory without path.yaml is not a level.
NoPath == [level |-> "", units |-> <<>>]

KNOWN_POS == {"noun", "verb", "adjective", "adverb", "numeral", "phrase", "interjection"}

Files(files) == {files[i] : i \in DOMAIN files}
Ids(files) == {f.id : f \in Files(files)}

\* load_keyed_yaml and the loops like it: a repeated id fails the load.
Keyed(files) == Cardinality(Ids(files)) = Len(files)

-----------------------------------------------------------------------------
\* What the models refuse

CountOf(t, toks) == Cardinality({i \in DOMAIN toks : toks[i] = t})

\* The answer of a multiple choice, one token, is an option; the answer of a word bank
\* is a multiset of its tiles.
DrawnFrom(answer, bank) == \A t \in Files(answer) : CountOf(t, answer) <= CountOf(t, bank)

ValidExercise(ex) ==
    /\ ex.type \in {"mcq", "word_bank", "listen_type", "match_pairs", "translate"}
    /\ ex.type \in {"mcq", "word_bank"} => DrawnFrom(ex.answer, ex.bank)
    /\ ex.type = "match_pairs" => \A p \in ex.pairs : Len(p) = 2

ValidLesson(lesson) ==
    /\ lesson.category \in GrammarCategories \cup {""}
    /\ \A ex \in Files(lesson.exercises) : ValidExercise(ex)

\* "fem" is the feminine spelling, which words of both genders have and no others.
ValidWord(w) ==
    /\ w.gender \in {"", "m", "f", "mf"}
    /\ w.fem <=> w.gender = "mf"
    /\ w.femIpa => w.fem

ValidSet(s) ==
    /\ s.questions # <<>>
    /\ \A q \in Files(s.questions) : q.keyed
    /\ s.skill \in {"reading", "listening"}
    /\ s.skill = "reading" => s.passage
    /\ s.skill = "listening" => s.audio

ValidSection(sec) ==
    CASE sec.skill \in {"reading", "listening"} -> sec.sets # {}
      [] sec.skill = "writing" -> sec.tasks # {}
      [] sec.skill = "speaking" -> sec.prompts # {}
      [] OTHER -> FALSE

ValidBlueprint(bp) ==
    /\ bp.format \in {"tef", "delf"}
    /\ bp.sections # <<>>
    /\ \A sec \in Files(bp.sections) : ValidSection(sec)

-----------------------------------------------------------------------------
\* What the loaders refuse

LoadsVocab(d) == Keyed(d.vocab) /\ \A w \in Files(d.vocab) : ValidWord(w)

ReferencesResolve_NotRequires(d) ==
    /\ \A u \in Files(d.path.units) : Files(u.lessons) \subseteq Ids(d.lessons)
    /\ \A lesson \in Files(d.lessons) : lesson.newVocab \subseteq Ids(d.vocab)

\* content/loader.py _check_references.
ReferencesResolve(d) ==
    /\ \A u \in Files(d.path.units) :
           /\ Files(u.lessons) \subseteq Ids(d.lessons)
           /\ u.requires \subseteq Ids(d.path.units) \cup Ids(d.lessons)
    /\ \A lesson \in Files(d.lessons) : lesson.newVocab \subseteq Ids(d.vocab)

LoadsContent(tree, lv) ==
    /\ lv \in DOMAIN tree
    /\ tree[lv].path # NoPath
    /\ Keyed(tree[lv].lessons)
    /\ \A lesson \in Files(tree[lv].lessons) : ValidLesson(lesson)
    /\ LoadsVocab(tree[lv])
    /\ ReferencesResolve(tree[lv])

LoadsSets(d) == Keyed(d.sets) /\ \A s \in Files(d.sets) : ValidSet(s)

\* The words a writing task asks for are words of its level.
LoadsTasks(d) ==
    /\ Keyed(d.tasks)
    /\ LoadsVocab(d)
    /\ \A t \in Files(d.tasks) : t.target \subseteq Ids(d.vocab)

LoadsTopics(d) == Keyed(d.topics) /\ \A t \in Files(d.topics) : t.section \in {"A", "B", "C"}

ContentLevels(tree) == {lv \in DOMAIN tree : tree[lv].path # NoPath}

\* The levels a mock may take its sections from.
SourceLevels(tree, lv) == IF lv = TEF_LEVEL THEN ContentLevels(tree) ELSE {lv}

SectionResolves_AnySkill(tree, lv, sec) ==
    \A sid \in sec.sets : \E src \in SourceLevels(tree, lv) : sid \in Ids(tree[src].sets)

\* exam/loader.py _check_references.  An id two levels share is taken for either: such a
\* tree does not boot anyway.
SectionResolves(tree, lv, sec) ==
    /\ \A sid \in sec.sets : \E src \in SourceLevels(tree, lv) :
           \E s \in Files(tree[src].sets) : s.id = sid /\ s.skill = sec.skill
    /\ \A tid \in sec.tasks : \E src \in SourceLevels(tree, lv) : tid \in Ids(tree[src].tasks)

LoadsExams(tree, lv) ==
    /\ Keyed(tree[lv].exams)
    /\ \A src \in SourceLevels(tree, lv) : LoadsSets(tree[src]) /\ LoadsTasks(tree[src])
    /\ \A bp \in Files(tree[lv].exams) :
           /\ ValidBlueprint(bp)
           /\ lv = TEF_LEVEL => bp.format = "tef"
           /\ \A sec \in Files(bp.sections) : SectionResolves(tree, lv, sec)

-----------------------------------------------------------------------------
\* What the checker refuses: one operator for each of its RULES

Shown(lesson) == UNION {ex.shows : ex \in Files(lesson.exercises)}

\* The new words of a lesson that its own exercises never show.
MissingWords(lv, lesson) ==
    {v \in lesson.newVocab \ Shown(lesson) : <<lv, lesson.id, v>> \notin ConjugatedOnly}

\* The clip of a word, and of its feminine.
ClipNames(w) == {<<w.id, "clip">>} \cup (IF w.gender = "mf" THEN {<<w.id, "fem">>} ELSE {})

\* A clip of any level's directory will do.  The shapes of the other types are the models'
\* own.
ExerciseShapes(tree, d) ==
    \A lesson \in Files(d.lessons) : \A ex \in Files(lesson.exercises) :
        ex.type = "listen_type" =>
            \E lv \in DOMAIN tree : \E c \in tree[lv].clips : ex.audio = <<lv, c.name>>

VocabFields(d) ==
    \A w \in Files(d.vocab) :
        /\ w.spelled /\ w.glossed
        /\ w.pos \in KNOWN_POS
        /\ w.tags # {}
        /\ w.ipa /\ (w.fem => w.femIpa)

AudioPresent(d) == \A w \in Files(d.vocab) : ClipNames(w) \subseteq {c.name : c \in d.clips}

EveryWordIsTaught(d) == Ids(d.vocab) \subseteq UNION {l.newVocab : l \in Files(d.lessons)}

\* Every gap is a known one; and every known gap is still one: the list can only shrink.
NewVocabIsPracticed(d, lv) ==
    \A l \in Files(d.lessons) : \A v \in MissingWords(lv, l) : <<lv, l.id, v>> \in KnownGaps

KnownGapsNotStale(d, lv) ==
    \A g \in KnownGaps : g[1] = lv =>
        \E l \in Files(d.lessons) : l.id = g[2] /\ g[3] \in MissingWords(lv, l)

SpeakingCoversBothSections(d) == {"A", "B"} \subseteq {t.section : t \in Files(d.topics)}

InPath(d) == UNION {Files(u.lessons) : u \in Files(d.path.units)}

PathCoversLessons(d) == Ids(d.lessons) \subseteq InPath(d)

UnitIconsExist(d) == \A u \in Files(d.path.units) : u.icon \in UnitIcons \cup {""}

\* The share of the bank the passages use is at least the floor of the level and less
\* than five points above it, so that the floor follows it up.
ComprehensionCoversVocab(d, lv) ==
    lv \in DOMAIN MinCoverage =>
        LET hit == Ids(d.vocab) \cap UNION {s.shows : s \in Files(d.sets)}
            pct == (100 * Cardinality(hit)) \div Len(d.vocab)
        IN /\ d.vocab # <<>>
           /\ MinCoverage[lv] <= pct
           /\ pct < MinCoverage[lv] + 5

ExplainQuotesAreReal(d) == \A s \in Files(d.sets) : \A q \in Files(s.questions) : q.quoted

CheckLevel(tree, lv) ==
    /\ LoadsContent(tree, lv)
    /\ LET d == tree[lv] IN
           /\ ExerciseShapes(tree, d)
           /\ VocabFields(d)
           /\ AudioPresent(d)
           /\ EveryWordIsTaught(d)
           /\ NewVocabIsPracticed(d, lv)
           /\ KnownGapsNotStale(d, lv)
           /\ LoadsTopics(d)
           /\ SpeakingCoversBothSections(d)
           /\ PathCoversLessons(d)
           /\ UnitIconsExist(d)
           /\ LoadsSets(d)
           /\ ComprehensionCoversVocab(d, lv)
           /\ ExplainQuotesAreReal(d)

ExerciseIds(d) == UNION {Ids(l.exercises) : l \in Files(d.lessons)}

CheckGlobal_ByLevel(tree) ==
    \A lv \in ContentLevels(tree) : \A l \in Files(tree[lv].lessons) : Keyed(l.exercises)

\* No word id in two levels, no exercise id twice anywhere.
CheckGlobal(tree) ==
    /\ \A a, b \in ContentLevels(tree) : a # b =>
           /\ Ids(tree[a].vocab) \cap Ids(tree[b].vocab) = {}
           /\ ExerciseIds(tree[a]) \cap ExerciseIds(tree[b]) = {}
    /\ \A lv \in ContentLevels(tree) :
           /\ \A l \in Files(tree[lv].lessons) : Keyed(l.exercises)
           /\ \A l, m \in Files(tree[lv].lessons) :
                  l # m => Ids(l.exercises) \cap Ids(m.exercises) = {}

\* The tests run the checker on every level and load what it does not look at.
Checked(tree) ==
    /\ CheckGlobal(tree)
    /\ \A lv \in ContentLevels(tree) : CheckLevel(tree, lv) /\ LoadsTasks(tree[lv])
    /\ \A lv \in ContentLevels(tree) \cup {TEF_LEVEL} : LoadsExams(tree, lv)

=============================================================================
