----------------------------- MODULE MCAlgorithms -----------------------------
(* Every input of bounded size.                                              *)
EXTENDS Algorithms

CONSTANTS
  MaxFragments,  \* fragments an answer is made of
  MaxPages,      \* pages a search has found
  MaxCandidates  \* claims select_mmr chooses among

\* Answers are made of fragments and arrive in up to three pieces; a source may
\* be registered between two pieces.
Fragments == {<<"[">>, <<"]">>, <<"1">>, <<"0", "2">>, <<"x", "x">>}
Texts == {FlattenSeq(s) : s \in BoundedSeq(Fragments, MaxFragments)}
Cuts(text) == {<<i, j>> \in (0 .. Len(text)) \X (0 .. Len(text)) : i <= j}
Pieces(text, cut) ==
  <<SubSeq(text, 1, cut[1]), SubSeq(text, cut[1] + 1, cut[2]), SubSeq(text, cut[2] + 1, Len(text))>>

MCAnswers == UNION {[kind : {"answer"}, pieces : {Pieces(t, cut) : cut \in Cuts(t)},
                     counts : {<<1, 1, 1>>, <<1, 1, 2>>}] : t \in Texts}

\* Two channels, as in WikiRetrievalService.search.
MCRankings == [kind : {"fusion"},
               channels : {<<s, t>> : s, t \in BoundedSeq({"p", "q", "r"}, 3)}]

Claims == [score : {Scale \div 4, Scale \div 2, Scale}, tokens : {{"t"}, {"u"}, {"v"}, {"t", "u"}}]
MCClaimed == [kind : {"mmr"}, claims : BoundedSeq(Claims, MaxCandidates)]

Limits == [pages : 1..2, claims : {1, 3, 4}, chars : {1, 3}]
MCSearches == [kind : {"select"}, pages : BoundedSeq(BoundedSeq(1..2, 3), MaxPages), limits : Limits]

MCParsed == [kind : {"chunk"}, sections : BoundedSeq(BoundedSeq({"x", "y", " "}, 3), 2)
                                        \cup BoundedSeq(BoundedSeq({"x", " "}, 5), 1)]
=============================================================================
