------------------------------ MODULE Sequence ------------------------------
(***************************************************************************)
(* src/model/sequence.rs, and tokenize_prefix of src/model/mod.rs: how a   *)
(* question and a state become the token sequence a model runs on.         *)
(*                                                                         *)
(* A token is known by what it stands for: <<"option", 2, 5>> is the fifth *)
(* token of the second option's text.  The tokenizer is external: it gives *)
(* the same tokens for a text and for a prefix of it, except near the cut. *)
(*                                                                         *)
(* A definition marked "Variant" is used by no other: it is a mistake the  *)
(* definition below it could be, kept to show which property notices.      *)
(***************************************************************************)
EXTENDS Helpers

CONSTANTS
    Reach       \* how many bytes before a cut the tokenizer still sees it

ASSUME ReachAssumption == Reach \in Nat

Clip(s, n)    == SubSeq(s, 1, Smaller(n, Len(s)))
TotalLen(ss)  == FoldLeft(LAMBDA n, s : n + Len(s), 0, ss)

Cls  == <<"cls", 0, 0>>
Sep  == <<"sep", 0, 0>>
Mask == <<"mask", 0, 0>>
Text(kind, i, n) == [j \in 1 .. n |-> <<kind, i, j>>]

-----------------------------------------------------------------------------
(* prepare                                                                 *)

\* The number of options a question may have.
Accepted(qtype, k) ==
    \/ qtype = "choice" /\ k \in 2 .. 255
    \/ qtype = "score" /\ k \in 2 .. 10
    \/ qtype = "noul" /\ k = 2

-----------------------------------------------------------------------------
(* assemble                                                                *)

OptionCap   == 48  \* tokens of an option's text
HeadReserve == 16  \* what the options leave of head_max_len
HeadLeast   == 8   \* what the head has in any case
OptionLeast == 4   \* what a shortened option has in any case

\* Each option is a mask and its text.
Marked(opts) == [j \in DOMAIN opts |-> <<Mask>> \o Clip(opts[j], OptionCap)]

PerOption(meta, k) == Larger(OptionLeast, (meta.headMax - HeadReserve) \div Larger(k, 1))

\* Options that leave the head too little are cut to equal shares.
Squeezed(meta, marked) ==
    IF meta.headMax - TotalLen(marked) >= HeadReserve THEN marked
    ELSE [j \in DOMAIN marked |-> Clip(marked[j], PerOption(meta, Len(marked)))]

\* Variant: the budget is what the options left before they were cut.
StaleHead(meta, head, marked) == Clip(head, Larger(HeadLeast, meta.headMax - TotalLen(marked)))

\* The head gets what the options, cut or not, leave of head_max_len.
FittedHead(meta, head, marked) ==
    Clip(head, Larger(HeadLeast, meta.headMax - TotalLen(Squeezed(meta, marked))))

\* Variant: a marker at max_len is kept.
InsideOrAt(meta, marker) == marker <= meta.maxLen

\* Markers count from 0.
Inside(meta, marker) == marker < meta.maxLen

Assemble(meta, head, opts, state) ==
    LET marked == Marked(opts)
        parts  == Squeezed(meta, marked)
        front  == <<Cls>> \o FittedHead(meta, head, marked) \o <<Sep>>
        asked  == front \o FlattenSeq(parts) \o <<Sep>>
        room   == Larger(0, meta.maxLen - Len(asked) - 1)
        marker == [j \in DOMAIN parts |-> Len(front) + TotalLen(SubSeq(parts, 1, j - 1))]
    IN [ids     |-> Clip(asked \o Clip(state, room) \o <<Sep>>, meta.maxLen),
        markers |-> Keep(marker, {p \in ToSet(marker) : Inside(meta, p)})]

\* encode fails when an option's marker did not fit.
Encodes(meta, head, opts, state) == Len(Assemble(meta, head, opts, state).markers) = Len(opts)

-----------------------------------------------------------------------------
(* tokenize_prefix.  A text has n tokens of width bytes each, characters of *)
(* char bytes, and white space at the offsets in blanks.                   *)

BytesPerToken == 8
Margin        == 64

Bytes(text) == text.n * text.width
Full(text)  == Text("state", 0, text.n)

\* Where the prefix ends: at the last white space before need times 8 bytes.
Cut(text, need) ==
    LET most   == need * BytesPerToken
        whole  == (most \div text.char) * text.char
        blanks == {b \in text.blanks : b < whole}
    IN IF blanks = {} THEN whole ELSE CHOOSE b \in blanks : \A c \in blanks : c <= b

\* External: the tokens of a prefix of cut bytes, with other tokens near the cut.
PrefixTokens(text, cut) ==
    [j \in 1 .. (cut \div text.width) |->
        IF j * text.width + Reach <= cut THEN <<"state", 0, j>> ELSE <<"other", 0, j>>]

\* Variant: every token of the prefix is kept.
KeptAll(text, cut) == cut \div text.width

\* The leading tokens of the prefix that end Margin bytes before the cut.
Kept(text, cut) ==
    LET clear == {j \in 0 .. (cut \div text.width) : j = 0 \/ j * text.width + Margin <= cut}
    IN CHOOSE j \in clear : \A i \in clear : i <= j

TokenizePrefix(text, need) ==
    LET cut == Cut(text, need) IN
    IF need * BytesPerToken >= Bytes(text) \/ Kept(text, cut) < need THEN Full(text)
    ELSE Clip(PrefixTokens(text, cut), Kept(text, cut))
=============================================================================
