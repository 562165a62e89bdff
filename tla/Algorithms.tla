------------------------------ MODULE Algorithms ------------------------------
(* The pure functions of Citations, Ranking and Chunking, each applied to an  *)
(* input it may get, and what they are to compute.                            *)
EXTENDS Citations, Ranking, Chunking

CONSTANTS \* the inputs considered
  Answers,  \* of the citation filter: the pieces of an answer, and for each
            \* the number of sources the turn has when it arrives
  Rankings, \* of reciprocal_rank_fusion: channels of items
  Claimed,  \* of select_mmr: claims by descending relevance, or in any order
  Searches, \* of the loop of search: ordered pages and the limits
  Parsed    \* of the chunker: the sections of a document

Tokens == {tokens \in SUBSET STRING : IsFiniteSet(tokens)}
PositiveNat == Nat \ {0}

\* A claim has text (_parse_claim, wiki/generator.py), and limits are positive.
ASSUME InputAssumption ==
  /\ Answers \subseteq [kind : {"answer"}, pieces : Seq(Seq(STRING)), counts : Seq(Nat)]
  /\ \A answer \in Answers : Len(answer.counts) = Len(answer.pieces)
  /\ Rankings \subseteq [kind : {"fusion"}, channels : Seq(Seq(STRING))]
  /\ Claimed \subseteq [kind : {"mmr"}, claims : Seq([score : Int, tokens : Tokens])]
  /\ Searches \subseteq [kind : {"select"}, pages : Seq(Seq(PositiveNat)),
                         limits : [pages : PositiveNat, claims : PositiveNat, chars : PositiveNat]]
  /\ Parsed \subseteq [kind : {"chunk"}, sections : Seq(Seq(STRING))]

VARIABLES
  input,   \* what the function is applied to
  returned \* <<what it returned>>, or <<>> before the call

algorithmVars == <<input, returned>>

Inputs == Answers \cup Rankings \cup Claimed \cup Searches \cup Parsed

AlgorithmsInit == input \in Inputs /\ returned = <<>>

Apply(kind, value) ==
  /\ input.kind = kind /\ returned = <<>>
  /\ returned' = <<value>>
  /\ UNCHANGED input

FilterAnswer == Apply("answer", Answer(input.pieces, input.counts))
FuseChannels == Apply("fusion", Fuse(input.channels))
ChooseClaims == Apply("mmr", SelectMMR(input.claims))
FillBudget == Apply("select", Select(input.pages, input.limits))
ChunkDocument == Apply("chunk", Chunk(input.sections))

AlgorithmsNext == FilterAnswer \/ FuseChannels \/ ChooseClaims \/ FillBudget \/ ChunkDocument

AlgorithmsSpec == AlgorithmsInit /\ [][AlgorithmsNext]_algorithmVars
-------------------------------------------------------------------------------
output == returned[1]
Returned(kind) == input.kind = kind /\ returned # <<>>

\* Received(pieces)[n]: the text of the first n pieces.
Received(pieces) ==
  LET text[n \in 0 .. Len(pieces)] == IF n = 0 THEN <<>> ELSE text[n - 1] \o pieces[n]
  IN text

Text(pieces) == Received(pieces)[Len(pieces)]

\* Where the markers of a text begin and end.
Markers(text) ==
  {m \in (1 .. Len(text)) \X (1 .. Len(text)) :
     m[1] < m[2] /\ IsMarker(SubSeq(text, m[1], m[2]))}

\* A text without some of its markers.
Without(text, markers) ==
  LET kept[n \in 0 .. Len(text)] ==
        IF n = 0 THEN <<>>
        ELSE IF \E m \in markers : n \in m[1] .. m[2] THEN kept[n - 1]
        ELSE Append(kept[n - 1], text[n])
  IN kept[Len(text)]

\* The markers that name no source when their last character arrives.
Unknown(pieces, counts) ==
  LET received == Received(pieces)
      text == Text(pieces)
  IN {m \in Markers(text) :
        \E n \in DOMAIN pieces :
          /\ m[2] \in Len(received[n - 1]) + 1 .. Len(received[n])
          /\ Number(SubSeq(text, m[1], m[2])) \notin 1 .. counts[n]}

\* Whatever the text and however it is cut, the filter takes out markers of
\* unknown sources and nothing else: no text is lost, repeated or moved, and the
\* citations of registered sources stay (CitationStreamFilter.push, finish).
OnlyUnknownMarkersVanish ==
  Returned("answer") =>
    \E gone \in SUBSET Unknown(input.pieces, input.counts) :
      output = Without(Text(input.pieces), gone)

\* Every bracket is closed before the next one opens.
Flat(text) ==
  \A i, j \in 1 .. Len(text) :
    text[i] = "[" /\ text[j] = "[" /\ i < j => \E k \in i .. j : text[k] = "]"

\* In a text without nested brackets all markers of unknown sources are taken
\* out, wherever the stream is cut and however long a bracket stays open.
NoUnknownMarkerIsShown ==
  Returned("answer") /\ Flat(Text(input.pieces)) =>
    output = Without(Text(input.pieces), Unknown(input.pieces, input.counts))

\* Fusion compares ranks only: a page that is ahead of another one in every
\* channel that found the other one is ahead of it in the result, and repeated
\* hits of one page do not lift it (reciprocal_rank_fusion).
FusionIsMonotone ==
  Returned("fusion") =>
    LET items == UNION {ToSet(input.channels[i]) : i \in DOMAIN input.channels}
        Ahead(x, y, seq) == y \in ToSet(seq) =>
                              x \in ToSet(seq) /\ Position(x, seq) < Position(y, seq)
    IN /\ ToSet(output) = items /\ Len(output) = Cardinality(items)
       /\ \A x, y \in items :
            x # y /\ (\A i \in DOMAIN input.channels : Ahead(x, y, input.channels[i]))
              => Position(x, output) < Position(y, output)

\* A claim that repeats one already chosen gives way to a claim that shares
\* nothing with those chosen, unless it is more relevant by 3/7 or more, and no
\* claim is dropped (select_mmr).
DuplicatesYield ==
  Returned("mmr") =>
    /\ ToSet(output) = DOMAIN input.claims /\ Len(output) = Len(input.claims)
    /\ \A i, j \in DOMAIN output :
         LET repeated == input.claims[output[i]]
             fresh    == input.claims[output[j]]
             chosen   == {input.claims[output[k]].tokens : k \in 1 .. i - 1}
         IN /\ repeated.tokens \in chosen
            /\ fresh.tokens # {} /\ \A tokens \in chosen : fresh.tokens \cap tokens = {}
            /\ 7 * fresh.score > 7 * repeated.score - 3 * Scale
            => j < i

\* The three limits hold together, except that a single claim may be longer than
\* the budget of characters; and the best claim of the best page that has any is
\* shown whatever the limits (WikiRetrievalService.search).
SelectionHolds ==
  Returned("select") =>
    LET shown == FlattenSeq(output.taken)
    IN /\ Len(output.taken) <= input.limits.pages
       /\ Len(shown) <= input.limits.claims
       /\ Characters(shown) <= input.limits.chars \/ Len(shown) = 1
       /\ \A n \in DOMAIN input.pages :
            input.pages[n] # <<>> /\ (\A m \in 1 .. n - 1 : input.pages[m] = <<>>)
              => shown # <<>> /\ shown[1] = input.pages[n][1]

\* The parents are the texts of the sections that have one, in order.  The children
\* of a parent follow it, and are its text, cut into pieces in order, none empty or
\* too long; ordinals number the drafts (ParentChildChunker.chunk).
ChildrenTileTheirParent ==
  Returned("chunk") =>
    LET written == {s \in DOMAIN input.sections : Strip(input.sections[s]) # <<>>}
    IN /\ \E at \in [written -> DOMAIN output] :
            /\ \A s \in written : output[at[s]].content = Strip(input.sections[s])
            /\ \A s, t \in written : s < t => at[s] < at[t]
            /\ \A n \in DOMAIN output : output[n].kind = "parent" <=> \E s \in written : at[s] = n
       /\ \A n \in DOMAIN output :
            /\ output[n].ordinal = n - 1
            /\ output[n].kind = "parent" =>
                 \E last \in n + 1 .. Len(output) :
                   /\ \A i \in DOMAIN output : output[i].parent = n - 1 <=> i \in n + 1 .. last
                   /\ output[n + 1].start = 0 /\ output[last].end = Len(output[n].content)
                   /\ \A i \in n + 1 .. last :
                        /\ i > n + 1 => output[i].start = output[i - 1].end
                        /\ output[i].content
                             = SubSeq(output[n].content, output[i].start + 1, output[i].end)
                        /\ Len(output[i].content) \in 1 .. MaxChild
=============================================================================
