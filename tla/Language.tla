------------------------------ MODULE Language ------------------------------
(***************************************************************************)
(* src/lang.rs: whether the English model can read a state.                *)
(*                                                                         *)
(* A text is what the code counts in it: the scripts of its letters, one   *)
(* after the other ("none": a letter of no range), its words, how many of  *)
(* them are stop words of English and of each other language, and the      *)
(* lowercase characters and the diacritics among them.                     *)
(*                                                                         *)
(* A definition marked "Variant" is used by no other: it is a mistake the  *)
(* definition below it could be, kept to show which property notices.      *)
(***************************************************************************)
EXTENDS Helpers

CONSTANT Others      \* STOP but for its first row: the languages, in its order

ASSUME LanguageAssumption ==
    Others \in Seq(STRING) \ {<<>>} /\ IsInjective(Others) /\ {"en", "none"} \cap ToSet(Others) = {}

CountOf(letters, script) == Len(Keep(letters, {script}))

\* counts: the scripts seen in the order of their first letter, latin last.
Counted(letters) ==
    LET foreign == Keep(letters, ToSet(letters) \ {"latin", "none"})
    IN FoldLeft(LAMBDA seen, s : IF Contains(seen, s) THEN seen ELSE Append(seen, s), <<>>, foreign)
           \o <<"latin">>

\* Variant: the last maximum.
LastMost(of, candidates) ==
    FoldLeft(LAMBDA best, c : IF of[c] >= of[best] THEN c ELSE best, candidates[1], candidates)

\* The first maximum, in one pass.
FirstMost(of, candidates) ==
    FoldLeft(LAMBDA best, c : IF of[c] > of[best] THEN c ELSE best, candidates[1], candidates)

DetectScript(text) ==
    LET scripts == Counted(text.letters)
        of      == [s \in ToSet(scripts) |-> CountOf(text.letters, s)]
        best    == FirstMost(of, scripts)
    IN IF of[best] = 0 THEN "unknown" ELSE best

\* diac_rate >= percent / 100
Diacritics(text, percent) == 100 * text.diacritics >= percent * Larger(text.chars, 1)

\* "none" is None.
GuessLatinLanguage(text) ==
    LET lang       == FirstMost(text.stop, Others)
        best       == text.stop[lang]
        enOrNone   == IF text.en > 0 THEN "en" ELSE "none"
    IN CASE text.words < 4                         -> "none"
         [] text.words >= 4 /\ best = 0 /\ ~Diacritics(text, 2) -> enOrNone
         [] OTHER ->
              IF best >= Larger(2, text.en + 2) \/ (Diacritics(text, 4) /\ best >= text.en)
              THEN lang ELSE enOrNone

IsEnglish(text) ==
    LET script == DetectScript(text) IN
    \/ script = "unknown"
    \/ script = "latin" /\ GuessLatinLanguage(text) \in {"none", "en"}
=============================================================================
