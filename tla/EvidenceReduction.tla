------------------------- MODULE EvidenceReduction --------------------------
(***************************************************************************)
(* How packages/overall_summary/service.py cuts the evidence to the        *)
(* context of the model: sections are split, packed into batches and       *)
(* replaced by the partial summaries of the batches, round after round.    *)
(*                                                                         *)
(* A text is [len, of]: its length and the numbers of the evidence         *)
(* sections that went into it.  Lengths are those of the code.             *)
(***************************************************************************)
EXTENDS Naturals, Integers, SequencesExt, FiniteSetsExt

CONSTANTS
    Context,     \* context_window_tokens of the summary's model
    MaxOutput,   \* max_output_tokens
    MaxInput,    \* max_input_chars of the service
    MaxRounds    \* _MAX_REDUCTION_ROUNDS

InputReserve == 2048
PromptReserve == 2048
BytesPerChar == 4
Separator == 2
MarkerBudget == 48

\* summary_input_char_budget of ModelRequestOptions.
InputBudget == (Context - MaxOutput - InputReserve - PromptReserve)
                  \div BytesPerChar

\* The limit of OverallSummaryService, which is at least 1000.
Limit == Min({MaxInput, InputBudget})

ASSUME ReductionAssumption ==
    /\ Context \in Nat /\ MaxOutput \in Nat /\ MaxInput \in Nat
    /\ Limit >= 1000
    /\ MaxRounds \in Nat

\* Decimal digits, exact below ten million: that many pieces of a section are
\* nine thousand million characters.
Digits(n) == IF n < 10 THEN 1 ELSE IF n < 100 THEN 2 ELSE IF n < 1000 THEN 3
             ELSE IF n < 10000 THEN 4 ELSE IF n < 100000 THEN 5
             ELSE IF n < 1000000 THEN 6 ELSE 7

\* "[SECTION CONTINUATION i/n]" and "[REDUCTION ROUND r PART i]", each with
\* its newline, have the same length.
MarkerLength(i, j) == 25 + Digits(i) + Digits(j)

PieceLength == Limit - MarkerBudget

\* _split_section.
SplitSection(section) ==
    LET n == (section.len + PieceLength - 1) \div PieceLength
        Length(i) == IF i < n THEN PieceLength
                     ELSE section.len - (n - 1) * PieceLength
    IN  IF section.len <= Limit THEN <<section>>
        ELSE [i \in 1..n |-> [len |-> MarkerLength(i, n) + Length(i),
                              of |-> section.of]]

\* A text added to the last batch.
Joined(batch, piece) ==
    [len |-> batch.len + Separator + piece.len, of |-> batch.of \cup piece.of]

\* Mutant of Pack: the separator is not counted.
PackUnseparated(batches, piece) ==
    IF batches # <<>> /\ Last(batches).len + piece.len <= Limit
    THEN Append(Front(batches), Joined(Last(batches), piece))
    ELSE Append(batches, piece)

Pack(batches, piece) ==
    IF batches # <<>> /\ Joined(Last(batches), piece).len <= Limit
    THEN Append(Front(batches), Joined(Last(batches), piece))
    ELSE Append(batches, piece)

\* _partition: the pieces of one section, and of one section after another.
PackAll(batches, pieces) ==
    LET packed[n \in 0..Len(pieces)] ==
            IF n = 0 THEN batches ELSE Pack(packed[n - 1], pieces[n])
    IN  packed[Len(pieces)]

Partition(sections) ==
    LET packed[n \in 0..Len(sections)] ==
            IF n = 0 THEN <<>>
            ELSE PackAll(packed[n - 1], SplitSection(sections[n]))
    IN  packed[Len(sections)]

\* The sections of the next round: the partial summaries behind a header.
NextSections(batches, lengths, round) ==
    [i \in DOMAIN batches |->
        [len |-> MarkerLength(round, i) + lengths[i], of |-> batches[i].of]]
=============================================================================
