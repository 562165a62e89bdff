------------------------------- MODULE Ranking -------------------------------
(* What a wiki search decides without the database: fusion of the channels   *)
(* and choice among similar claims (knowledge/wiki/ranking.py), and which    *)
(* claims of the ordered pages fit the limits (WikiRetrievalService.search,  *)
(* knowledge/wiki/retrieval.py).  Scores are exact here, floats in the code. *)
EXTENDS Integers, Sequences, SequencesExt, FiniteSetsExt

CONSTANTS
  K,           \* the constant of reciprocal rank fusion (60 in the code)
  Scale,       \* a common multiple of all denominators that occur
  ClaimsEach   \* claims of one page when there are others (4 in the code)

ASSUME RankingAssumption == {K, Scale} \subseteq Nat /\ ClaimsEach \in Nat \ {0}

\* Where x is in a channel, 0 if it is not.
Position(x, seq) == SelectInSeq(seq, LAMBDA y : y = x)

\* The different items of a channel up to the first x.
Rank(x, channel) == Cardinality(ToSet(SubSeq(channel, 1, Position(x, channel))))

\* Mutant: every occurrence in a channel counts.
ShareOfAll(x, channel) ==
  MapThenSumSet(LAMBDA i : IF channel[i] = x THEN Scale \div (K + i) ELSE 0, DOMAIN channel)

\* 1 / (k + rank) times Scale, for an item of the channel.
Share(x, channel) ==
  IF Position(x, channel) = 0 THEN 0 ELSE Scale \div (K + Rank(x, channel))

\* scores: the shares of the channels, summed.
Fusion(x, channels) ==
  LET score[n \in 0 .. Len(channels)] ==
        IF n = 0 THEN 0 ELSE score[n - 1] + Share(x, channels[n])
  IN score[Len(channels)]

\* The channel that has x first.
FirstChannel(x, channels) == SelectInSeq(channels, LAMBDA channel : x \in ToSet(channel))

\* The order of first_seen.
SeenBefore(x, y, channels) ==
  LET n == FirstChannel(x, channels)
  IN \/ n < FirstChannel(y, channels)
     \/ /\ n = FirstChannel(y, channels)
        /\ Position(x, channels[n]) < Position(y, channels[n])

\* The order of the result: by descending score, ties in the order of appearance.
Before(x, y, channels) ==
  \/ Fusion(x, channels) > Fusion(y, channels)
  \/ Fusion(x, channels) = Fusion(y, channels) /\ SeenBefore(x, y, channels)

Items(channels) == UNION {ToSet(channels[n]) : n \in DOMAIN channels}

\* reciprocal_rank_fusion: the n-th item has n - 1 items before it.
Fuse(channels) ==
  LET items == Items(channels)
      Ahead(x) == Cardinality({y \in items : Before(y, x, channels)})
  IN [n \in 1 .. Cardinality(items) |-> CHOOSE x \in items : Ahead(x) = n - 1]

Jaccard(left, right) ==
  IF left \cup right = {} THEN Scale
  ELSE (Scale * Cardinality(left \cap right)) \div Cardinality(left \cup right)

\* Mutant: compares with the claim taken last only.
MarginalToLast(i, selected, candidates) ==
  7 * candidates[i].score - 3 * Jaccard(candidates[i].tokens, candidates[Last(selected)].tokens)

\* The value of candidate i when those of `selected` are taken (lambda = 0.7);
\* its relevance is given in units of 1 / Scale.
Marginal(i, selected, candidates) ==
  7 * candidates[i].score
    - 3 * Max({Jaccard(candidates[i].tokens, candidates[j].tokens) : j \in ToSet(selected)})

\* The candidates of the highest value; the first of them is taken.
Best(rest, selected, candidates) ==
  LET V(i) == IF selected = <<>> THEN candidates[i].score ELSE Marginal(i, selected, candidates)
  IN Min({i \in rest : \A j \in rest : V(j) <= V(i)})

\* One round of select_mmr.
SelectBest(selected, candidates) ==
  LET rest == DOMAIN candidates \ ToSet(selected)
  IN Append(selected, Best(rest, selected, candidates))

\* select_mmr with limit = len(candidates), as rank_page_claims calls it.
SelectMMR(candidates) ==
  LET chosen[n \in 0 .. Len(candidates)] ==
        IF n = 0 THEN <<>> ELSE SelectBest(chosen[n - 1], candidates)
  IN chosen[Len(candidates)]

(***************************************************************************)
(* The budgets.  A page is the sequence of the lengths of its claims, in   *)
(* the order of rank_page_claims; claims are taken from its front.  `left` *)
(* is what the pages before it have left.                                  *)
(***************************************************************************)
Positive(n) == IF n > 0 THEN n ELSE 0

Characters(claims) ==
  LET sum[n \in 0 .. Len(claims)] == IF n = 0 THEN 0 ELSE sum[n - 1] + claims[n]
  IN sum[Len(claims)]

\* Mutant: the first claim of every page is shown whatever its length.
FitsTextOfPage(page, n, left) ==
  \/ page[n] <= Positive(left.chars - Characters(SubSeq(page, 1, n - 1)))
  \/ n = 1

\* The first claim of all is shown whatever its length.
FitsText(page, n, left) ==
  \/ page[n] <= Positive(left.chars - Characters(SubSeq(page, 1, n - 1)))
  \/ n = 1 /\ left.taken = <<>>

Allowed(page, left, perPage) == Min({Len(page), perPage, left.claims})

\* How many claims of a page are taken.
Taken(page, left, perPage) ==
  Max({n \in 0 .. Allowed(page, left, perPage) : \A m \in 1..n : FitsText(page, m, left)})

Exhausted(left, limits) == Len(left.taken) >= limits.pages \/ left.claims = 0

Because(old, new) == IF old = "none" THEN new ELSE old

\* One iteration of the loop over the ordered pages.
TakePage(left, page, perPage, limits) ==
  LET n    == Taken(page, left, perPage)
      cut  == n < Allowed(page, left, perPage)
      chars == Positive(left.chars - Characters(SubSeq(page, 1, n)))
      out  == n > 0 /\ chars = 0
  IN IF left.stopped THEN left
     ELSE IF Exhausted(left, limits)
     THEN [left EXCEPT !.stopped = TRUE, !.reason = Because(@, "claim_limit")]
     ELSE [stopped |-> out,
           claims  |-> left.claims - n,
           chars   |-> chars,
           reason  |-> IF cut \/ out THEN "character_budget" ELSE left.reason,
           taken   |-> IF n = 0 THEN left.taken
                       ELSE Append(left.taken, SubSeq(page, 1, n))]

\* The claims shown of each page that has some, and truncation_reason.
Select(pages, limits) ==
  LET perPage == IF Len(pages) = 1 THEN limits.claims ELSE ClaimsEach
      left[n \in 0 .. Len(pages)] ==
        IF n = 0 THEN [stopped |-> FALSE, claims |-> limits.claims, chars |-> limits.chars,
                       reason |-> "none", taken |-> <<>>]
        ELSE TakePage(left[n - 1], pages[n], perPage, limits)
      end == left[Len(pages)]
  IN [taken  |-> end.taken,
      reason |-> IF Len(end.taken) < Len(pages)
                 THEN Because(end.reason,
                              IF Len(end.taken) >= limits.pages THEN "page_limit" ELSE "claim_limit")
                 ELSE end.reason]
=============================================================================
