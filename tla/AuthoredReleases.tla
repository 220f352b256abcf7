-------------------------- MODULE AuthoredReleases ---------------------------
(***************************************************************************)
(* A base release of two levels and the TEF mock, and releases that differ *)
(* from it by one edit: what an author may do to the content between two   *)
(* deploys.                                                                *)
(***************************************************************************)
EXTENDS Integers, Sequences, TLC

\* ContentFiles: a directory without path.yaml.
MCNoPath == [level |-> "", units |-> <<>>]

MCLEVELS == <<"a1", "b1">>
MCGrammarCategories == {"Pronouns"}
MCUnitIcons == {"book"}
MCConjugatedOnly == {<<"a1", "l2", "w2">>}
MCMinCoverage == "a1" :> 100 @@ "b1" :> 100

Word(id) == [id |-> id, spelled |-> TRUE, glossed |-> TRUE, gender |-> "m", fem |-> FALSE,
             ipa |-> TRUE, femIpa |-> FALSE, pos |-> "noun", tags |-> {"deck"}]

Friend == [Word("w3") EXCEPT !.gender = "mf", !.fem = TRUE, !.femIpa = TRUE]

Exercise(id, words) == [id |-> id, type |-> "word_bank", answer |-> <<"le", "la", "le">>,
                        bank |-> <<"le", "la", "un", "le">>, pairs |-> {}, audio |-> "",
                        shows |-> words]

Listening(id) == [Exercise(id, {}) EXCEPT !.type = "listen_type",
                                          !.audio = <<"a1", <<"w1", "clip">>>>]

Lesson(id, words, exercises) == [id |-> id, category |-> "Pronouns", newVocab |-> words,
                                 exercises |-> exercises]

Unit(id, lessons, requires) ==
    [id |-> id, lessons |-> lessons, requires |-> requires, icon |-> "book"]

Set(id, skill, words) == [id |-> id, skill |-> skill, passage |-> skill = "reading",
                          audio |-> skill = "listening", shows |-> words,
                          questions |-> <<[id |-> id, keyed |-> TRUE, quoted |-> TRUE]>>]

Section(skill, sets, tasks) ==
    [skill |-> skill, sets |-> sets, tasks |-> tasks, prompts |-> {}]

Mock(id, format, sections) == [id |-> id, format |-> format, sections |-> sections]

Topics(a, b) == <<[id |-> a, section |-> "A"], [id |-> b, section |-> "B"]>>

Clip(name) == [name |-> name, take |-> 1]

A1 == [path |-> [level |-> "a1",
                 units |-> <<Unit("u1", <<"l1">>, {}), Unit("u2", <<"l2">>, {"u1"})>>],
       lessons |-> <<Lesson("l1", {"w1"}, <<Exercise("x1", {"w1"}), Listening("x2")>>),
                     Lesson("l2", {"w2"}, <<Exercise("x3", {})>>)>>,
       vocab |-> <<Word("w1"), Word("w2")>>,
       sets |-> <<Set("s1", "reading", {"w1", "w2"})>>,
       tasks |-> <<[id |-> "t1", target |-> {"w1"}]>>,
       topics |-> Topics("p1", "p2"),
       exams |-> <<Mock("e1", "delf", <<Section("reading", {"s1"}, {})>>)>>,
       clips |-> {Clip(<<"w1", "clip">>), Clip(<<"w2", "clip">>)}]

B1 == [path |-> [level |-> "b1", units |-> <<Unit("u3", <<"l3">>, {})>>],
       lessons |-> <<Lesson("l3", {"w3"}, <<Exercise("x4", {"w3"})>>)>>,
       vocab |-> <<Friend>>,
       sets |-> <<Set("s2", "listening", {"w3"})>>,
       tasks |-> <<>>,
       topics |-> Topics("p3", "p4"),
       exams |-> <<>>,
       clips |-> {Clip(<<"w3", "clip">>), Clip(<<"w3", "fem">>)}]

Tef == [path |-> MCNoPath, lessons |-> <<>>, vocab |-> <<>>, sets |-> <<>>, tasks |-> <<>>,
        topics |-> <<>>, clips |-> {},
        exams |-> <<Mock("e2", "tef", <<Section("listening", {"s2"}, {}),
                                        Section("writing", {}, {"t1"})>>)>>]

Base == "a1" :> A1 @@ "b1" :> B1 @@ "tef" :> Tef

MCTree ==
    [base |-> Base,
     \* The second unit waits for a lesson that is gone.
     ghost |-> [Base EXCEPT !.a1.path.units[2].requires = {"l9"}],
     \* The last lesson of a level becomes the first of the next.
     moved |-> [Base EXCEPT
         !.a1.path.units = <<@[1]>>, !.a1.lessons = <<@[1]>>, !.a1.vocab = <<@[1]>>,
         !.b1.path.units = <<Unit("u2", <<"l2">>, {})>> \o @,
         !.b1.lessons = <<Lesson("l2", {"w2"}, <<Exercise("x3", {"w2"})>>)>> \o @,
         !.b1.vocab = <<Word("w2")>> \o @,
         !.b1.sets[1].shows = {"w2", "w3"},
         !.b1.clips = @ \cup {Clip(<<"w2", "clip">>)}],
     \* A set is replaced and a mock still names the old one.
     stale |-> [Base EXCEPT !.a1.sets = <<Set("s3", "reading", {"w1", "w2"})>>],
     \* A set becomes one of the other skill.
     skill |-> [Base EXCEPT !.b1.sets = <<Set("s2", "reading", {"w3"})>>],
     \* A word of one level is copied into the other.
     copied |-> [Base EXCEPT !.b1.vocab = @ \o <<Word("w1")>>,
                             !.b1.lessons[1].newVocab = {"w3", "w1"},
                             !.b1.lessons[1].exercises[1].shows = {"w3", "w1"},
                             !.b1.sets[1].shows = {"w3", "w1"},
                             !.b1.clips = @ \cup {Clip(<<"w1", "clip">>)}],
     \* A writing task is copied into the other level.
     twice |-> [Base EXCEPT !.b1.tasks = <<[id |-> "t1", target |-> {"w3"}]>>],
     \* path.yaml is copied with its level.
     mislabelled |-> [Base EXCEPT !.b1.path.level = "a1"],
     \* A level without path.yaml, and no mock that asks for it.
     dropped |-> [Base EXCEPT !.b1.path = MCNoPath, !.tef.exams = <<>>],
     \* Two units wait for one another.
     cyclic |-> [Base EXCEPT !.a1.path.units[1].requires = {"l2"}],
     \* The first unit takes its lesson from the second, which it requires.
     shared |-> [Base EXCEPT
         !.a1.path.units = <<Unit("u1", <<"l2">>, {"u2"}), Unit("u2", <<"l1", "l2">>, {})>>],
     \* A clip is recorded again and a lesson renamed.
     recorded |-> [Base EXCEPT
         !.a1.clips = {[Clip(<<"w1", "clip">>) EXCEPT !.take = 2], Clip(<<"w2", "clip">>)},
         !.a1.lessons[2].id = "l4", !.a1.path.units[2].lessons = <<"l4">>,
         !.a1.lessons[2].exercises[1].shows = {"w2"}]]

MCReleases == DOMAIN MCTree

=============================================================================
