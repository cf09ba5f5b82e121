---------------------------- MODULE MCFunctions ----------------------------
(***************************************************************************)
(* The pure functions on every input up to a bound, each against a         *)
(* definition that is not an algorithm.  A state is one input of one of    *)
(* them:                                                                   *)
(*   pick      a buffered item is its arrival number and its length;       *)
(*   assemble  a model, a head, the options so far and a state;            *)
(*   prefix    a model, a head and a text that a prefix is tokenized of;   *)
(*   language  a text as the counts that language detection goes by.       *)
(***************************************************************************)
EXTENDS Pick, Sequence, Language

CONSTANTS
    Lengths, MaxBuf, ItemCaps, TokenCaps,                   \* pick
    Metas, HeadLens, OptionLens, MaxOptions, StateLens,     \* assemble
    LongMetas, Widths, Chars, Blanks, TextLens,             \* prefix
    Scripts, MaxLetters, Words, Stops, Diacs                \* language

ASSUME PickAssumption == Lengths \subseteq Nat /\ ItemCaps \subseteq Nat /\ TokenCaps \subseteq Nat
ASSUME QuestionAssumption ==
    /\ Metas \cup LongMetas \subseteq [maxLen : Nat, headMax : Nat]
    /\ HeadLens \cup OptionLens \cup StateLens \cup TextLens \subseteq Nat
    /\ Widths \cup Chars \subseteq Nat \ {0} /\ Blanks \subseteq SUBSET Nat
ASSUME LetterAssumption == "unknown" \notin Scripts /\ Words \cup Stops \cup Diacs \subseteq Nat

VARIABLE input
vars == <<input>>

PickInputs ==
    {in \in [of : {"pick"}, first : {<<0, n>> : n \in Lengths}, buf : {<<>>},
             maxItems : ItemCaps, maxTokens : TokenCaps] :
        in.first[2] <= in.maxTokens}     \* startup requires max_batch_tokens >= max_len
SequenceInputs ==
    [of : {"assemble"}, meta : Metas, head : {Text("head", 0, n) : n \in HeadLens},
     opts : {<<>>}, state : {Text("state", 0, n) : n \in StateLens}]
PrefixInputs ==
    [of : {"prefix"}, meta : LongMetas, head : {Text("head", 0, n) : n \in HeadLens},
     text : [n : TextLens, width : Widths, char : Chars, blanks : Blanks]]
LanguageInputs ==
    [of : {"language"}, letters : {<<>>}, words : Words, en : Stops, stop : [ToSet(Others) -> Stops],
     chars : {50, 100}, diacritics : Diacs]

Init == input \in PickInputs \cup SequenceInputs \cup PrefixInputs \cup LanguageInputs

Buffer(n) ==
    /\ input.of = "pick" /\ Len(input.buf) < MaxBuf /\ n <= input.maxTokens
    /\ input' = [input EXCEPT !.buf = Append(@, <<Len(@) + 1, n>>)]

AddOption(n) ==
    /\ input.of = "assemble" /\ Len(input.opts) < MaxOptions
    /\ input' = [input EXCEPT !.opts = Append(@, Text("option", Len(@) + 1, n))]

AddLetter(s) ==
    /\ input.of = "language" /\ Len(input.letters) < MaxLetters
    /\ input' = [input EXCEPT !.letters = Append(@, s)]

Next ==
    \/ \E s \in Scripts : AddLetter(s)
    \/ \E n \in Lengths : Buffer(n)
    \/ \E n \in OptionLens : AddOption(n)
Spec == Init /\ [][Next]_vars

-----------------------------------------------------------------------------
\* What pick promises.  Nothing is lost, duplicated or reordered: batch and
\* rest are the buffer, each in arrival order, and the oldest item leads.  An
\* item is taken exactly when it is within a factor of two of the oldest, and
\* the batch of the items taken before it has room for it in items and in
\* padded tokens.
PickIsReference ==
    input.of = "pick" =>
        LET buf    == input.buf
            all    == {input.first} \cup ToSet(buf)
            result == PickBatch(input.first, buf, [i \in all |-> i[2]], input.maxItems, input.maxTokens)
            batch  == result.batch
            rest   == result.rest
            Takes(b) ==
                LET before == {c \in ToSet(batch) : c[1] < b[1]}
                    size   == Cardinality(before) + 1
                IN /\ b[2] <= 2 * input.first[2] /\ input.first[2] <= 2 * b[2]
                   /\ size <= input.maxItems
                   /\ \A c \in before \cup {b} : size * c[2] <= input.maxTokens
        IN /\ Head(batch) = input.first
           /\ ToSet(batch) \cup ToSet(rest) = all /\ Len(batch) + Len(rest) = Len(buf) + 1
           /\ \A s \in {batch, rest} : \A i, j \in DOMAIN s : i < j => s[i][1] < s[j][1]
           /\ \A b \in ToSet(buf) : b \in ToSet(batch) <=> Takes(b)

\* The options that prepare lets through.
Asked(in) == in.of = "assemble" /\ \E q \in {"choice", "score", "noul"} : Accepted(q, Len(in.opts))

\* What a model is run on fits its max_len, and each option of the question,
\* in the order of the labels, is scored at a mask of its own that the
\* option's text follows: no marker points past the end, at another option's
\* mask or at none, whatever was cut to make room.
SequenceSound ==
    Asked(input) =>
        LET opts == input.opts
            a    == Assemble(input.meta, input.head, opts, input.state)
        IN /\ Len(a.ids) <= input.meta.maxLen
           /\ Encodes(input.meta, input.head, opts, input.state) =>
                \A j \in DOMAIN opts :
                    LET at == a.markers[j] + 1 IN
                    /\ at \in DOMAIN a.ids /\ a.ids[at] = Mask
                    /\ \A i \in DOMAIN opts[j] :
                          i < OptionLeast /\ at + i \in DOMAIN a.ids => a.ids[at + i] = opts[j][i]

\* Nothing crowds out the rest: when head_max_len has room for the least share
\* of every option, the head keeps the 16 tokens reserved for it (or all it
\* has), and the state gets what head_max_len leaves of max_len.
RoomForAll ==
    /\ Asked(input)
    /\ OptionLeast * Len(input.opts) <= input.meta.headMax - HeadReserve
    /\ input.meta.maxLen >= input.meta.headMax + 4
    => LET ids == Assemble(input.meta, input.head, input.opts, input.state).ids
           Of(kind) == Cardinality({p \in DOMAIN ids : ids[p][1] = kind})
           AtLeast(n, s) == n >= Len(s) \/ n >= HeadReserve
       IN /\ AtLeast(Of("head"), input.head)
          /\ \/ Of("state") = Len(input.state)
             \/ Of("state") >= input.meta.maxLen - input.meta.headMax - 4

\* Tokenizing a prefix of a long state changes nothing: the sequence is the
\* one that its whole text would give, wherever the cut falls.
PrefixIsEnough ==
    input.of = "prefix" =>
        LET opts == <<Text("option", 1, 1), Text("option", 2, 2)>> IN
        Assemble(input.meta, input.head, opts, TokenizePrefix(input.text, input.meta.maxLen))
            = Assemble(input.meta, input.head, opts, Full(input.text))

\* A state goes to the English model unless it has letters and either most of
\* them are of another script (a tie with Latin is lost by Latin), or it has at
\* least four words, and another language has two stop words more than English
\* has, or no fewer and 4% of the characters have diacritics.
LanguageIsReference ==
    input.of = "language" =>
        LET n(s) == Cardinality({i \in DOMAIN input.letters : input.letters[i] = s})
            foreign == ToSet(input.letters) \ {"latin", "none"}
            beats(l) == \/ input.stop[l] >= 2 /\ input.stop[l] >= input.en + 2
                        \/ /\ input.stop[l] >= input.en
                           /\ 25 * input.diacritics >= input.chars /\ input.diacritics > 0
        IN IsEnglish(input) <=>
             /\ \A s \in foreign : n(s) < n("latin")
             /\ n("latin") > 0 /\ input.words >= 4 => \A l \in ToSet(Others) : ~beats(l)

TwoOthers   == <<"fr", "de">>
MCMetas     == [maxLen : {12, 24, 40, 64}, headMax : {12, 20, 24, 32, 36}]
MCLongMetas == [maxLen : {24, 40, 64}, headMax : {24}]
\* White space nowhere, at the start, half way to the cut, near it.
MCBlanks    == {{}, {2}, {2, 100}, {2, 100, 170, 310, 500}}
=============================================================================
