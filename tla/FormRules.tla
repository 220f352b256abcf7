------------------------------ MODULE FormRules ------------------------------
(***************************************************************************)
(* The rules of app/content/forms.py that correct the forms a model gives: *)
(* they are applied to a reply before it is stored and again whenever the  *)
(* stored forms are read.                                                  *)
(*                                                                         *)
(* A form is the sequence of its words; an elided word is one of its own   *)
(* ("j'", "l'"), joined to the next.  What the rules ask of a word is what *)
(* it begins with and, of an adjective, what it ends in.                   *)
(***************************************************************************)
EXTENDS Integers, Sequences

CONSTANTS
    Words,       \* the words of the forms
    Vowels,      \* the words that begin with a vowel
    Hs,          \* the words that begin with an h
    AspiratedH,  \* the lemmas of _H_ASPIRE_VERBS
    Impersonal,  \* the lemmas of _IMPERSONAL_VERBS
    Invariable,  \* the lemmas of _INVARIABLE_ADJECTIVES
    EndsIn,      \* what an adjective ends in: "s" (or x), "eau", "al" or "other"; the
                 \* words of _AL_PLURAL_S count as other
    FormReplies, \* what a model may reply about the forms of a word: to a verb or a noun
                 \* one form, to an adjective a form for some labels
    Unasked      \* no form has been generated

VARIABLE asking    \* a reply of the model about the forms of a word

DETERMINERS == {"le", "la", "les", "l'", "un", "une", "des", "ce", "cet", "cette", "ces"}

SUBJECTS == {"je", "j'", "tu", "il", "elle", "on", "nous", "vous", "ils", "elles"}
CLITICS == {"me", "m'", "te", "t'", "se", "s'", "nous", "vous"}
AVOIR == {"ai", "as", "a", "avons", "avez", "ont"}
ETRE == {"suis", "es", "est", "sommes", "etes", "sont"}

\* The words that an elision takes and leaves begin with consonants.
ASSUME FormRulesAssumption ==
    /\ DETERMINERS \cup SUBJECTS \cup CLITICS \cup AVOIR \cup ETRE \subseteq Words
    /\ {"je", "me", "te", "se", "le", "la", "j'", "m'", "t'", "s'", "l'"} \cap (Vowels \cup Hs) = {}
    /\ Unasked \notin FormReplies
    /\ \A r \in FormReplies :
           /\ r.pos \in {"verb", "noun", "adjective"}
           /\ r.lemma \in Seq(Words) \ {<<>>}
           /\ r.pos # "adjective" => r.form \in Seq(Words) \ {<<>>}
           /\ r.pos = "adjective" =>
                  \A label \in DOMAIN r.forms : r.forms[label] \in Seq(Words) \ {<<>>}

Starts(form, words) == form # <<>> /\ form[1] \in words

Without(form, words) == IF Starts(form, words) THEN Tail(form) ELSE form

-----------------------------------------------------------------------------
\* Elision

Elidable == {"je", "me", "te", "se", "le", "la"}

Elided(word) ==
    CASE word = "je" -> "j'" [] word = "me" -> "m'" [] word = "te" -> "t'"
      [] word = "se" -> "s'" [] word \in {"le", "la"} -> "l'"

Elides(word, next, beforeH) ==
    \/ word \in Elidable /\ next \in Vowels
    \/ word \in {"je", "me", "te", "se"} /\ beforeH /\ next \in Hs

\* "le arbre" -> "l'arbre"; an h only before a verb that has no aspirated one.
Elide(form, beforeH) ==
    [i \in DOMAIN form |-> IF i < Len(form) /\ Elides(form[i], form[i + 1], beforeH)
                           THEN Elided(form[i]) ELSE form[i]]

-----------------------------------------------------------------------------
\* Verbs

Reflexive(lemma) == Starts(lemma, {"se", "s'"})

CliticOf(subject) ==
    CASE subject \in {"je", "j'"} -> "me" [] subject = "tu" -> "te"
      [] subject \in {"nous", "vous"} -> subject [] OTHER -> "se"

EtreOf(subject) ==
    CASE subject \in {"je", "j'"} -> "suis" [] subject = "tu" -> "es"
      [] subject \in {"il", "elle", "on"} -> "est" [] subject = "nous" -> "sommes"
      [] subject = "vous" -> "etes" [] subject \in {"ils", "elles"} -> "sont"

\* Subject, clitic and auxiliary are taken off and put back as they must be.  The slip
\* leaves a clitic that is there already.
ReflexivePasseCompose_KeepsClitic(form) ==
    LET subject == IF Starts(form, SUBJECTS) THEN form[1] ELSE "je"
        participle == Without(Without(form, SUBJECTS), AVOIR \cup ETRE)
    IN Elide(<<IF subject = "j'" THEN "je" ELSE subject, CliticOf(subject), EtreOf(subject)>>
                 \o participle, FALSE)

ReflexivePasseCompose(form) ==
    LET subject == IF Starts(form, SUBJECTS) THEN form[1] ELSE "je"
        participle == Without(Without(Without(form, SUBJECTS), CLITICS), AVOIR \cup ETRE)
    IN Elide(<<IF subject = "j'" THEN "je" ELSE subject, CliticOf(subject), EtreOf(subject)>>
                 \o participle, FALSE)

Mentions(form, words) ==
    \E i \in 0..(Len(form) - Len(words)) : SubSeq(form, i + 1, i + Len(words)) = words

\* The complement of "avoir faim", "avoir besoin de" comes back if the form has none of
\* it; a form that ends with its first word keeps what it has.
RestoreComplement(form, lemma) ==
    IF /\ Starts(lemma, {"avoir"}) /\ Len(lemma) > 1
       /\ ~Mentions(form, Tail(lemma))
       /\ form = <<>> \/ form[Len(form)] # lemma[2]
    THEN form \o Tail(lemma) ELSE form

Corrected(form, lemma, label) ==
    IF lemma \in Impersonal THEN form
    ELSE IF Reflexive(lemma)
         THEN IF label = "passe compose" THEN ReflexivePasseCompose(form) ELSE form
    ELSE IF Len(form) > 1 /\ form[1] \in SUBJECTS THEN form ELSE <<"je">> \o form

VerbForm(form, lemma, label) ==
    Elide(RestoreComplement(Corrected(form, lemma, label), lemma), lemma \notin AspiratedH)

-----------------------------------------------------------------------------
\* Nouns and adjectives

Definite(word) ==
    CASE word = "un" -> "le" [] word = "une" -> "la" [] word = "des" -> "les" [] OTHER -> word

NounForm(form) ==
    Elide(IF Len(form) > 1 THEN <<Definite(form[1])>> \o Tail(form) ELSE form, FALSE)

Bare(form) == IF Len(form) > 1 THEN Without(form, DETERMINERS) ELSE form

\* What _adjective_plural adds; the plural is left as the pair of the word and its mark.
Plural(form, gender) ==
    LET end == EndsIn[form[Len(form)]] IN
    <<form, CASE end = "s" -> ""
              [] end = "eau" /\ gender = "m" -> "x"
              [] end = "al" /\ gender = "m" -> "aux"
              [] OTHER -> "s">>

Labels == {"masculine", "feminine"}

\* The headword is the masculine, unless it is what the model gives for the feminine.  A
\* reply is a function from some of the labels.
AdjectiveForms(reply, lemma) ==
    LET feminine == IF "feminine" \in DOMAIN reply THEN Bare(reply["feminine"]) ELSE lemma
        masculine == IF feminine = lemma /\ "masculine" \in DOMAIN reply
                     THEN Bare(reply["masculine"]) ELSE lemma
    IN IF lemma \in Invariable
       THEN [masculine |-> lemma, feminine |-> lemma, plurals |-> {<<lemma, "">>}]
       ELSE [masculine |-> masculine, feminine |-> feminine,
             plurals |-> {Plural(masculine, "m"), Plural(feminine, "f")}]

-----------------------------------------------------------------------------
\* tidy_forms, of one form of a verb or a noun.  Typographic apostrophes are spelt out and
\* a form in another script is dropped before.
Tidy(form, lemma, pos, label) ==
    IF pos = "verb" THEN VerbForm(form, lemma, label) ELSE NounForm(form)

FormInit == asking = Unasked

FormNext == asking = Unasked /\ asking' \in FormReplies

FormSpec == FormInit /\ [][FormNext]_asking

-----------------------------------------------------------------------------
\* Properties

\* The words after the first need no elision, whatever comes after them.
AsSaid(lemma) ==
    \A i \in 2..Len(lemma) :
        lemma[i] \in Elidable => i < Len(lemma) /\ ~Elides(lemma[i], lemma[i + 1], TRUE)

\* What the rules take for granted: of an adjective that neither the headword nor, once it
\* is bare, a form has a determiner; of "avoir" with a complement that this is written as
\* it is said.
Ordinary(reply) ==
    IF reply.pos = "adjective"
    THEN /\ Bare(reply.lemma) = reply.lemma
         /\ \A label \in DOMAIN reply.forms :
                Bare(Bare(reply.forms[label])) = Bare(reply.forms[label])
    ELSE Starts(reply.lemma, {"avoir"}) => AsSaid(reply.lemma)

\* A reply to a reflexive verb that says clitic and auxiliary at most once, and first.
SaidOnce(form) ==
    LET rest == Without(Without(Without(form, SUBJECTS), CLITICS), AVOIR \cup ETRE)
    IN \A i \in DOMAIN rest : rest[i] \notin CLITICS \cup AVOIR \cup ETRE

\* The second word is the one clitic, the third the one auxiliary, être as the subject has it.
Agreed(form) ==
    \A i \in 2..Len(form) :
        /\ form[i] \in CLITICS <=> i = 2
        /\ form[i] \in AVOIR \cup ETRE <=> i = 3
        /\ i = 3 => form[i] = EtreOf(form[1])

\* "Also applied on read" (forms.py:222): the forms are corrected before they are stored and
\* again whenever they are read.  The second time changes nothing: a learner is shown the
\* same forms on every visit.  And no verb or noun has a je, me, te, se, le or la left before
\* a vowel; and whatever of subject, clitic and auxiliary the model forgot or got wrong, the
\* passé composé of a reflexive verb has one clitic and one form of être, that of its subject.
ReadsAsStored ==
    asking # Unasked /\ Ordinary(asking) =>
        IF asking.pos = "adjective"
        THEN LET once == AdjectiveForms(asking.forms, asking.lemma)
                 stored == [masculine |-> once.masculine, feminine |-> once.feminine]
             IN AdjectiveForms(stored, asking.lemma) = once
        ELSE LET once == Tidy(asking.form, asking.lemma, asking.pos, asking.label)
             IN /\ Tidy(once, asking.lemma, asking.pos, asking.label) = once
                /\ \A i \in 1..(Len(once) - 1) : once[i + 1] \in Vowels => once[i] \notin Elidable
                /\ /\ asking.pos = "verb" /\ asking.label = "passe compose"
                   /\ Reflexive(asking.lemma) /\ asking.lemma \notin Impersonal
                   /\ SaidOnce(asking.form)
                   => Agreed(once)

=============================================================================
