------------------------------- MODULE MCStudy -------------------------------
(***************************************************************************)
(* What a learner's study pages keep, one part at a time: the practice     *)
(* queue of WeakSpots, the extras of a card of StudyExtras, and the rules  *)
(* that correct its forms.  The parts share no state; each moves while the *)
(* others have not started.                                                *)
(***************************************************************************)
EXTENDS WeakSpots, StudyExtras, FormRules, TLC

-----------------------------------------------------------------------------
\* Words and replies about their forms

MCVowels == {"ai", "as", "a", "avons", "avez", "ont", "es", "est", "etes", "aimé", "arbre"}
MCEndsIn == [w \in {"heureux", "heureuse", "beau", "belle", "royal", "marron"} |->
                CASE w = "heureux" -> "s" [] w = "beau" -> "eau" [] w = "royal" -> "al"
                  [] OTHER -> "other"]

MCWords      == DETERMINERS \cup SUBJECTS \cup CLITICS \cup AVOIR \cup ETRE
                \cup {"laver", "habiller", "hâter", "agir", "aimer", "haïr", "pleuvoir", "avoir",
                      "faim", "besoin", "de", "lavé", "habillé", "arbre", "homme", "lit"}
                \cup DOMAIN MCEndsIn
MCHs         == {"habillé", "haï", "hâté", "homme"}
MCAspiratedH == {<<"haïr">>}
MCImpersonal == {<<"pleuvoir">>, <<"s'", "agir">>}
MCInvariable == {<<"marron">>}

Maybe(words) == {<<>>} \cup {<<w>> : w \in words}

Verbs == {<<"se", "laver">>, <<"s'", "habiller">>, <<"se", "hâter">>, <<"s'", "agir">>,
          <<"aimer">>, <<"haïr">>, <<"pleuvoir">>, <<"avoir", "faim">>,
          <<"avoir", "besoin", "de">>}

\* The model gives or forgets the subject, the clitic and the auxiliary, or gets them wrong.
VerbReplies ==
    {[pos |-> "verb", lemma |-> lemma, label |-> label, form |-> s \o c \o a \o <<p>>] :
        lemma \in Verbs, label \in {"présent", "passe compose"},
        s \in Maybe({"je", "j'", "tu", "elle", "nous", "vous"}), c \in Maybe(CLITICS),
        a \in Maybe({"ai", "a", "suis", "sommes"}),
        p \in {"lavé", "habillé", "faim", "besoin"}}
    \cup
    {[pos |-> "verb", lemma |-> lemma, label |-> "passe compose", form |-> form] :
        lemma \in Verbs, form \in {<<"je", "suis", "me", "lavé">>, <<"me", "le", "a", "lavé">>}}

NounReplies ==
    {[pos |-> "noun", lemma |-> <<n>>, label |-> "singular", form |-> d \o <<n>>] :
        n \in {"arbre", "homme", "lit"}, d \in Maybe(DETERMINERS)}

Adjectives == {<<w>> : w \in DOMAIN MCEndsIn}

Masculine == {d \o w : d \in Maybe({"le", "un"}), w \in Adjectives}
Feminine  == {d \o w : d \in Maybe({"la", "une"}), w \in Adjectives}

AdjectiveReplies ==
    {[pos |-> "adjective", lemma |-> lemma, forms |-> forms] : lemma \in Adjectives,
        forms \in [{"masculine"} -> Masculine] \cup [{"feminine"} -> Feminine]
                  \cup [masculine : Masculine, feminine : Feminine]}

MCReplies == VerbReplies \cup NounReplies \cup AdjectiveReplies

-----------------------------------------------------------------------------

StudyInit == Init /\ CardInit /\ FormInit

StudyNext ==
    \/ FormInit /\ CardInit /\ Next /\ UNCHANGED <<cardVars, asking>>
    \/ FormInit /\ Init /\ CardNext /\ UNCHANGED <<vars, asking>>
    \/ Init /\ CardInit /\ FormNext /\ UNCHANGED <<vars, cardVars>>

StudySpec == StudyInit /\ [][StudyNext]_<<vars, cardVars, asking>>

Symmetry == Permutations(Reqs) \cup Permutations(Questions) \cup Permutations(Slots)
            \cup Permutations(Keys) \cup Permutations(Tables)

=============================================================================
