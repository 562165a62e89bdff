------------------------------ MODULE Citations ------------------------------
(* knowledge/application/citations.py: the filter a turn's answer passes    *)
(* through on its way to the client.  The model writes markers such as [2]; *)
(* those that name no source of the turn are taken out, also when a marker  *)
(* arrives in several pieces.  Texts are sequences of characters.           *)
EXTENDS Naturals, Sequences, SequencesExt

CONSTANT HoldBack \* an open bracket longer than this is text (16 in the code)

\* A marker of three digits is complete before it can be taken for text.
ASSUME HoldBackAssumption == HoldBack \in Nat /\ HoldBack > 3

Digits == <<"0", "1", "2", "3", "4", "5", "6", "7", "8", "9">>
Value(c) == (CHOOSE n \in DOMAIN Digits : Digits[n] = c) - 1

\* \[(\d{1,3})\], of ASCII digits.
IsMarker(s) ==
  /\ Len(s) \in 3..5
  /\ s[1] = "[" /\ s[Len(s)] = "]"
  /\ \A i \in 2 .. Len(s) - 1 : s[i] \in ToSet(Digits)

Number(s) == FoldLeft(LAMBDA n, c : 10 * n + Value(c), 0, SubSeq(s, 2, Len(s) - 1))

\* Mutant: the last source counts as unknown.
PassesBelow(s, available) == IsMarker(s) => Number(s) \in 1 .. available - 1

Passes(s, available) == IsMarker(s) => Number(s) \in 1..available

\* Mutant: one character too early.
TooLongAlready(s) == Len(s) >= HoldBack

\* Only the start of a long text is released: a bracket may follow.
TooLong(s) == Len(s) > HoldBack

Find(s, c) == SelectInSeq(s, LAMBDA d : d = c)

\* One pass of the loop of push.  A pass that would break changes nothing when it
\* is repeated.
LoopPass(state, available) ==
  LET start == Find(state.pending, "[")
      text  == SubSeq(state.pending, 1, start - 1)
      open  == SubSeq(state.pending, start, Len(state.pending))
      end   == Find(open, "]")
      candidate == SubSeq(open, 1, end)
  IN CASE start = 0 -> [out |-> state.out \o state.pending, pending |-> <<>>]
       [] start > 0 /\ end = 0 /\ ~TooLong(open) -> [out |-> state.out \o text, pending |-> open]
       [] start > 0 /\ end = 0 /\ TooLong(open) ->
            [out |-> state.out \o text \o <<"[">>, pending |-> Tail(open)]
       [] start > 0 /\ end > 0 ->
            [out |-> state.out \o text \o (IF Passes(candidate, available) THEN candidate ELSE <<>>),
             pending |-> SubSeq(open, end + 1, Len(open))]

\* The loop takes a character or more with every pass before the last one, so
\* that it has ended after as many passes as there are characters.
Push(state, content, available) ==
  LET buffer == state.pending \o content
      loop[n \in 0 .. Len(buffer)] ==
        IF n = 0 THEN [state EXCEPT !.pending = buffer] ELSE LoopPass(loop[n - 1], available)
  IN loop[Len(buffer)]

\* A whole answer: each piece is pushed with the number of sources the turn has
\* by then, and finish appends what is held back.
Answer(pieces, counts) ==
  LET done[i \in 0 .. Len(pieces)] ==
        IF i = 0 THEN [out |-> <<>>, pending |-> <<>>]
        ELSE Push(done[i - 1], pieces[i], counts[i])
  IN done[Len(pieces)].out \o done[Len(pieces)].pending
=============================================================================
