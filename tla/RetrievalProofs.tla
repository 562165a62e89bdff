---------------------------- MODULE RetrievalProofs ----------------------------
(* What the tools of a turn cite and show, for any numbers of calls,         *)
(* documents, pages, claims and changes, and what the functions of           *)
(* Algorithms return, for any inputs.                                        *)
EXTENDS Retrieval, Algorithms, FiniteSetTheorems, SequenceTheorems, TLAPS

DatabaseTyped == current \in [Pages -> Versions] /\ verified \subseteq Claims
CallsTyped == call \in [Calls -> Locals] /\ DOMAIN answer = Calls

\* A call answers once, with its last step.
AnswersLast == \A c \in Calls : call[c].step # "returned" => answer[c] = {}

\* The claims kept by _hydrate_pages are those of the titles it has read.
RowsMatch ==
  \A c \in Calls : call[c].step = "register_claims" =>
    \A row \in call[c].claims : OfTitle(row, call[c].titles)

IInv == DatabaseTyped /\ CallsTyped /\ AnswersLast /\ RowsMatch /\ ClaimsMatchTheirPage

Kept(c) ==
  /\ call[c].step # "returned" => answer[c] = {}
  /\ call[c].step = "register_claims" =>
       \A row \in call[c].claims : OfTitle(row, call[c].titles)
  /\ \A entry \in answer[c] : \A claim \in entry.claim :
       <<claim.page, claim.version>> \in call[c].titles
-------------------------------------------------------------------------------
\* A set of natural numbers has a least one.
LEMMA LeastNumber ==
  ASSUME NEW S \in SUBSET Nat, S # {}
  PROVE  \E n \in S : \A m \in S : n <= m
<1>. DEFINE T == {0 .. n : n \in S}
<1>1. T \subseteq FiniteSubsetsOf(Nat)
  <2>1. ASSUME NEW n \in S PROVE 0 .. n \in FiniteSubsetsOf(Nat)
    <3>1. n \in Nat /\ 0 \in Int /\ n \in Int
      OBVIOUS
    <3>2. IsFiniteSet(0 .. n) /\ (0 .. n) \subseteq Nat
      BY <3>1, FS_Interval
    <3>. QED
      BY <3>2 DEF FiniteSubsetsOf
  <2>. QED
    BY <2>1
<1>2. T # {}
  OBVIOUS
<1>3. IsWellFoundedOn(StrictSubsetOrdering(Nat), FiniteSubsetsOf(Nat))
  BY FS_StrictSubsetOrderingWellFounded
<1>4. PICK x \in T : \A y \in T : ~(<<y, x>> \in StrictSubsetOrdering(Nat))
  <2>. HIDE DEF T
  <2>. QED
    BY <1>1, <1>2, <1>3, WFMin
<1>5. PICK n \in S : x = 0 .. n
  OBVIOUS
<1>6. ASSUME NEW m \in S PROVE n <= m
  <2>1. ~(<<0 .. m, 0 .. n>> \in StrictSubsetOrdering(Nat))
    BY <1>4, <1>5
  <2>2. (0 .. m) \subseteq Nat /\ (0 .. n) \subseteq Nat
    OBVIOUS
  <2>3. CASE m < n
    <3>1. (0 .. m) \subseteq (0 .. n) /\ (0 .. m) # (0 .. n)
      BY <2>3
    <3>. QED
      BY <2>1, <2>2, <3>1 DEF StrictSubsetOrdering
  <2>. QED
    BY <2>3
<1>. QED
  BY <1>6

\* S has 0, and with a number below N the next one.
Inductive(S, N) == 0 \in S /\ \A n \in 0 .. N - 1 : n \in S => n + 1 \in S

\* Induction up to N, for the set S of the numbers that have a property.
LEMMA InductionUpTo ==
  ASSUME NEW N \in Nat, NEW S, Inductive(S, N)
  PROVE  \A n \in 0 .. N : n \in S
<1>. DEFINE Bad == {n \in 0 .. N : n \notin S}
<1>1. SUFFICES ASSUME Bad # {} PROVE FALSE
  OBVIOUS
<1>2. PICK n \in Bad : \A m \in Bad : n <= m
  <2>1. Bad \in SUBSET Nat
    OBVIOUS
  <2>. HIDE DEF Bad
  <2>. QED
    BY <1>1, <2>1, LeastNumber
<1>3. n - 1 \in 0 .. N - 1 /\ n - 1 \notin Bad
  BY <1>2 DEF Inductive
<1>. QED
  BY <1>2, <1>3 DEF Inductive

LEMMA MinExists ==
  ASSUME NEW S \in SUBSET Nat, S # {}
  PROVE  Min(S) \in S /\ \A x \in S : Min(S) <= x
BY LeastNumber DEF Min

LEMMA MaxExists ==
  ASSUME NEW N \in Nat, NEW S \in SUBSET 0 .. N, S # {}
  PROVE  Max(S) \in S /\ \A x \in S : Max(S) >= x
<1>. DEFINE T == {N - n : n \in S}
<1>1. PICK d \in T : \A m \in T : d <= m
  <2>1. T \in SUBSET Nat /\ T # {}
    <3>1. ASSUME NEW n \in S PROVE N - n \in Nat
      <4>1. n \in 0 .. N
        OBVIOUS
      <4>. QED
        BY <4>1
    <3>. QED
      BY <3>1
  <2>. HIDE DEF T
  <2>. QED
    BY <2>1, LeastNumber
<1>2. PICK n \in S : d = N - n
  OBVIOUS
<1>3. n \in 0 .. N /\ N - d = n
  BY <1>2
<1>4. ASSUME NEW x \in S PROVE n >= x
  <2>1. x \in 0 .. N /\ d <= N - x
    BY <1>1
  <2>. QED
    BY <1>3, <2>1
<1>. QED
  BY <1>4 DEF Max

\* f is what n steps of G make of base.
Iterates(f, n, V, base, G) ==
  f \in [0 .. n -> V] /\ f[0] = base /\ \A i \in 1 .. n : f[i] = G[i][f[i - 1]]

\* A function defined by iteration over 1..N has the values it says it has.
LEMMA Iteration ==
  ASSUME NEW V, NEW N \in Nat, NEW base \in V, NEW G \in [1 .. N -> [V -> V]]
  PROVE  \E f : Iterates(f, N, V, base, G)
<1>. DEFINE Fits(f, n) == Iterates(f, n, V, base, G)
            S == {n \in 0 .. N : \E f : Fits(f, n)}
<1>1. 0 \in S
  <2>1. Fits([i \in 0 .. 0 |-> base], 0)
    BY DEF Iterates
  <2>. HIDE DEF Fits
  <2>. QED
    BY <2>1
<1>2. ASSUME NEW n \in 0 .. N - 1, n \in S PROVE n + 1 \in S
  <2>1. PICK f : Fits(f, n)
    BY <1>2
  <2>. DEFINE g == [i \in 0 .. n + 1 |-> IF i = n + 1 THEN G[n + 1][f[n]] ELSE f[i]]
  <2>2. f[n] \in V /\ n + 1 \in 1 .. N
    BY <2>1 DEF Iterates
  <2>3. G[n + 1][f[n]] \in V
    BY <2>2
  <2>4. g \in [0 .. n + 1 -> V] /\ g[0] = base
    BY <2>1, <2>3 DEF Iterates
  <2>5. ASSUME NEW i \in 1 .. n + 1 PROVE g[i] = G[i][g[i - 1]]
    <3>1. CASE i = n + 1
      <4>1. i - 1 = n /\ n \in 0 .. n + 1 /\ n # n + 1 /\ i \in 0 .. n + 1
        BY <3>1
      <4>2. g[i] = G[n + 1][f[n]] /\ g[i - 1] = f[n]
        BY <3>1, <4>1
      <4>. QED
        BY <3>1, <4>2
    <3>2. CASE i \in 1 .. n
      <4>1. i \in 0 .. n + 1 /\ i - 1 \in 0 .. n + 1 /\ i # n + 1 /\ i - 1 # n + 1
        BY <3>2
      <4>2. g[i] = f[i] /\ g[i - 1] = f[i - 1]
        BY <4>1
      <4>. QED
        BY <2>1, <3>2, <4>2 DEF Iterates
    <3>. QED
      BY <3>1, <3>2
  <2>6. Fits(g, n + 1)
    BY <2>4, <2>5 DEF Iterates
  <2>7. n + 1 \in 0 .. N
    OBVIOUS
  <2>. QED
    BY <2>6, <2>7
<1>3. N \in S
  <2>1. Inductive(S, N)
    BY <1>1, <1>2 DEF Inductive
  <2>. HIDE DEF S
  <2>2. \A n \in 0 .. N : n \in S
    BY <2>1, InductionUpTo
  <2>. QED
    BY <2>2
<1>. QED
  BY <1>3
-------------------------------------------------------------------------------
Room == {s \in Seq(Chunks) : Len(s) <= MaxSources}

LEMMA AddStays ==
  ASSUME NEW known \in Room, NEW chunk \in Chunks
  PROVE  Add(known, chunk) \in Room /\ IsPrefix(known, Add(known, chunk))
<1>1. CASE chunk \in ToSet(known) \/ Len(known) = MaxSources
  BY <1>1 DEF Add, Room, IsPrefix
<1>2. CASE ~(chunk \in ToSet(known) \/ Len(known) = MaxSources)
  <2>1. Add(known, chunk) = Append(known, chunk)
    BY <1>2 DEF Add
  <2>2. Len(known) \in Nat /\ Len(known) <= MaxSources /\ MaxSources \in Nat /\ known \in Seq(Chunks)
    BY BoundsAssumption DEF Room
  <2>3. Append(known, chunk) \in Seq(Chunks) /\ Len(Append(known, chunk)) = Len(known) + 1
    BY <2>2
  <2>4. Append(known, chunk) \in Room
    BY <1>2, <2>2, <2>3 DEF Room
  <2>5. SubSeq(known, 1, Len(known)) = SubSeq(Append(known, chunk), 1, Len(known))
    BY <2>2, <2>3
  <2>. QED
    BY <2>1, <2>2, <2>3, <2>4, <2>5 DEF IsPrefix
<1>. QED
  BY <1>1, <1>2

LEMMA PrefixElements ==
  ASSUME NEW S, NEW s \in Seq(S), NEW t \in Seq(S), IsPrefix(s, t)
  PROVE  /\ Len(s) \in Nat /\ Len(t) \in Nat /\ Len(s) <= Len(t)
         /\ DOMAIN s = 1 .. Len(s) /\ DOMAIN t = 1 .. Len(t)
         /\ \A i \in DOMAIN s : i \in DOMAIN t /\ t[i] = s[i]
<1>1. Len(s) \in Nat /\ Len(t) \in Nat /\ Len(s) <= Len(t)
  BY DEF IsPrefix
<1>2. DOMAIN s = 1 .. Len(s) /\ DOMAIN t = 1 .. Len(t)
  OBVIOUS
<1>3. ASSUME NEW i \in DOMAIN s PROVE i \in DOMAIN t /\ t[i] = s[i]
  <2>1. i \in 1 .. Len(s) /\ i \in 1 .. Len(t)
    BY <1>1, <1>2
  <2>2. SubSeq(s, 1, Len(s))[i] = s[i] /\ SubSeq(t, 1, Len(s))[i] = t[i]
    BY <1>1, <2>1
  <2>. QED
    BY <1>2, <2>1, <2>2 DEF IsPrefix
<1>. QED
  BY <1>1, <1>2, <1>3

LEMMA PrefixFromElements ==
  ASSUME NEW S, NEW s \in Seq(S), NEW t \in Seq(S), Len(s) <= Len(t),
         \A i \in 1 .. Len(s) : t[i] = s[i]
  PROVE  IsPrefix(s, t)
<1>1. Len(s) \in Nat /\ Len(t) \in Nat
  OBVIOUS
<1>2. SubSeq(s, 1, Len(s)) \in Seq(S) /\ SubSeq(t, 1, Len(s)) \in Seq(S)
  BY <1>1
<1>3. Len(SubSeq(s, 1, Len(s))) = Len(s) /\ Len(SubSeq(t, 1, Len(s))) = Len(s)
  BY <1>1
<1>4. ASSUME NEW i \in 1 .. Len(s) PROVE SubSeq(s, 1, Len(s))[i] = SubSeq(t, 1, Len(s))[i]
  BY <1>1
<1>5. SubSeq(s, 1, Len(s)) = SubSeq(t, 1, Len(s))
  BY <1>1, <1>2, <1>3, <1>4
<1>. QED
  BY <1>5 DEF IsPrefix

LEMMA PrefixOfPrefix ==
  ASSUME NEW S, NEW s \in Seq(S), NEW t \in Seq(S), NEW u \in Seq(S), IsPrefix(s, t), IsPrefix(t, u)
  PROVE  IsPrefix(s, u)
<1>1. Len(s) \in Nat /\ Len(t) \in Nat /\ Len(u) \in Nat /\ Len(s) <= Len(t) /\ Len(t) <= Len(u)
  BY DEF IsPrefix
<1>2. ASSUME NEW i \in 1 .. Len(s) PROVE u[i] = s[i]
  <2>1. t[i] = s[i] /\ i \in DOMAIN t
    BY PrefixElements
  <2>2. u[i] = t[i]
    BY <2>1, PrefixElements
  <2>. QED
    BY <2>1, <2>2
<1>. QED
  BY <1>1, <1>2, PrefixFromElements

\* What register leaves: the sources there were keep their numbers.
LEMMA ExtendStays ==
  ASSUME sources \in Room, NEW list \in Seq(Chunks)
  PROVE  Extend(list) \in Room /\ IsPrefix(sources, Extend(list))
<1>0. PICK N : N = Len(list)
  OBVIOUS
<1>. DEFINE step == [i \in 1 .. N |-> [known \in Room |-> Add(known, list[i])]]
            Defines(f) == f = [i \in 0 .. N |-> IF i = 0 THEN sources ELSE Add(f[i - 1], list[i])]
            known == CHOOSE f : Defines(f)
            S == {i \in 0 .. N : known[i] \in Room /\ IsPrefix(sources, known[i])}
<1>1. N \in Nat /\ \A i \in 1 .. N : list[i] \in Chunks
  BY <1>0
<1>2. step \in [1 .. N -> [Room -> Room]]
  BY <1>1, AddStays
<1>3. PICK f : Iterates(f, N, Room, sources, step)
  <2>. HIDE DEF step
  <2>. QED
    BY <1>1, <1>2, Iteration
<1>4. Defines(f)
  <2>1. ASSUME NEW i \in 1 .. N PROVE f[i] = Add(f[i - 1], list[i])
    BY <1>1, <1>3 DEF Iterates
  <2>. HIDE DEF step
  <2>2. ASSUME NEW i \in 0 .. N PROVE f[i] = (IF i = 0 THEN sources ELSE Add(f[i - 1], list[i]))
    <3>1. i = 0 \/ i \in 1 .. N
      BY <1>1
    <3>. QED
      BY <1>3, <2>1, <3>1 DEF Iterates
  <2>. QED
    BY <1>3, <2>2 DEF Iterates
<1>5. Defines(known)
  BY <1>4
<1>. HIDE DEF known
<1>6. 0 \in S
  BY <1>1, <1>5 DEF IsPrefix, Room
<1>7. ASSUME NEW n \in 0 .. N - 1, n \in S PROVE n + 1 \in S
  <2>1. n + 1 \in 0 .. N /\ n + 1 \in 1 .. N /\ n + 1 # 0 /\ (n + 1) - 1 = n
    BY <1>1
  <2>2. known[n + 1] = Add(known[n], list[n + 1])
    BY <1>5, <2>1
  <2>3. known[n] \in Room /\ IsPrefix(sources, known[n]) /\ list[n + 1] \in Chunks
    BY <1>1, <1>7, <2>1
  <2>4. known[n + 1] \in Room /\ IsPrefix(known[n], known[n + 1])
    BY <2>2, <2>3, AddStays
  <2>5. IsPrefix(sources, known[n + 1])
    BY <2>3, <2>4, PrefixOfPrefix DEF Room
  <2>. QED
    BY <2>1, <2>4, <2>5
<1>8. N \in S
  <2>. HIDE DEF S
  <2>1. Inductive(S, N)
    BY <1>6, <1>7 DEF Inductive
  <2>2. \A n \in 0 .. N : n \in S
    BY <1>1, <2>1, InductionUpTo
  <2>. QED
    BY <1>1, <2>2
<1>9. Extend(list) = known[N]
  BY <1>0 DEF Extend, known
<1>. QED
  BY <1>8, <1>9

\* What a step keeps inside V stays inside V.
LEMMA StaysInside ==
  ASSUME NEW V, NEW N \in Nat, NEW f, f[0] \in V, \A i \in 1 .. N : f[i - 1] \in V => f[i] \in V
  PROVE  \A i \in 0 .. N : f[i] \in V
<1>. DEFINE S == {n \in 0 .. N : f[n] \in V}
<1>1. 0 \in S
  OBVIOUS
<1>2. ASSUME NEW n \in 0 .. N - 1, n \in S PROVE n + 1 \in S
  <2>1. n + 1 \in 0 .. N /\ n + 1 \in 1 .. N /\ (n + 1) - 1 = n
    OBVIOUS
  <2>. QED
    BY <1>2, <2>1
<1>. HIDE DEF S
<1>3. \A n \in 0 .. N : n \in S
  BY <1>1, <1>2, InductionUpTo DEF Inductive
<1>. QED
  BY <1>3 DEF S

\* Induction from m to N.
LEMMA InductionFrom ==
  ASSUME NEW m \in Nat, NEW N \in Nat, NEW S, m \in S,
         \A i \in m + 1 .. N : i - 1 \in S => i \in S
  PROVE  \A i \in m .. N : i \in S
<1>. DEFINE T == {n \in 0 .. N : n >= m => n \in S}
<1>1. 0 \in T
  OBVIOUS
<1>2. ASSUME NEW n \in 0 .. N - 1, n \in T PROVE n + 1 \in T
  <2>1. n + 1 \in 0 .. N /\ (n + 1) - 1 = n
    OBVIOUS
  <2>2. CASE n >= m
    <3>1. n + 1 \in m + 1 .. N
      BY <2>2
    <3>. QED
      BY <1>2, <2>1, <2>2, <3>1
  <2>3. CASE n < m
    BY <2>1, <2>3
  <2>. QED
    BY <2>1, <2>2, <2>3
<1>. HIDE DEF T
<1>3. \A n \in 0 .. N : n \in T
  BY <1>1, <1>2, InductionUpTo DEF Inductive
<1>4. ASSUME NEW i \in m .. N PROVE i \in S
  <2>1. i \in 0 .. N /\ i >= m
    OBVIOUS
  <2>. QED
    BY <1>3, <2>1 DEF T
<1>. QED
  BY <1>4

\* What FlattenSeq has put together after each sequence.
Joined(seqs) ==
  CHOOSE f : f = [i \in 1 .. Len(seqs) |-> IF i = 1 THEN seqs[i] ELSE f[i - 1] \o seqs[i]]

LEMMA JoinedDefined ==
  ASSUME NEW T, NEW seqs \in Seq(Seq(T)), Len(seqs) # 0
  PROVE  /\ Joined(seqs) \in [1 .. Len(seqs) -> Seq(T)] /\ Joined(seqs)[1] = seqs[1]
         /\ \A i \in 2 .. Len(seqs) : Joined(seqs)[i] = Joined(seqs)[i - 1] \o seqs[i]
         /\ FlattenSeq(seqs) = Joined(seqs)[Len(seqs)]
<1>0. PICK N : N = Len(seqs)
  OBVIOUS
<1>. DEFINE Defines(f) == f = [i \in 1 .. N |-> IF i = 1 THEN seqs[i] ELSE f[i - 1] \o seqs[i]]
            step == [i \in 1 .. N - 1 |-> [s \in Seq(T) |-> s \o seqs[i + 1]]]
<1>1. N \in Nat /\ N - 1 \in Nat /\ \A i \in 1 .. N : seqs[i] \in Seq(T)
  BY <1>0
<1>2. step \in [1 .. N - 1 -> [Seq(T) -> Seq(T)]]
  <2>1. ASSUME NEW i \in 1 .. N - 1, NEW s \in Seq(T) PROVE s \o seqs[i + 1] \in Seq(T)
    <3>1. i + 1 \in 1 .. N
      BY <1>1
    <3>. QED
      BY <1>1, <3>1
  <2>. QED
    BY <2>1
<1>3. PICK g : Iterates(g, N - 1, Seq(T), seqs[1], step)
  <2>1. seqs[1] \in Seq(T)
    BY <1>1
  <2>. HIDE DEF step
  <2>. QED
    BY <1>1, <1>2, <2>1, Iteration
<1>. DEFINE f == [i \in 1 .. N |-> g[i - 1]]
<1>4. ASSUME NEW i \in 2 .. N PROVE f[i] = f[i - 1] \o seqs[i]
  <2>1. i - 1 \in 1 .. N - 1 /\ i - 1 \in 1 .. N /\ i \in 1 .. N /\ (i - 1) + 1 = i
        /\ (i - 1) - 1 \in 0 .. N - 1
    BY <1>1
  <2>2. g[i - 1] = step[i - 1][g[(i - 1) - 1]] /\ g[(i - 1) - 1] \in Seq(T)
    <3>. HIDE DEF step
    <3>. QED
      BY <1>3, <2>1 DEF Iterates
  <2>3. g[i - 1] = g[(i - 1) - 1] \o seqs[i]
    BY <2>1, <2>2
  <2>. QED
    BY <2>1, <2>3
<1>5. Defines(f)
  <2>1. f[1] = seqs[1]
    BY <1>1, <1>3 DEF Iterates
  <2>2. ASSUME NEW i \in 1 .. N PROVE f[i] = (IF i = 1 THEN seqs[i] ELSE f[i - 1] \o seqs[i])
    <3>1. i = 1 \/ i \in 2 .. N
      BY <1>1
    <3>. HIDE DEF f
    <3>. QED
      BY <1>4, <2>1, <3>1
  <2>. QED
    BY <2>2
<1>6. PICK joined : joined = Joined(seqs)
  OBVIOUS
<1>7. Defines(joined)
  <2>. HIDE DEF f
  <2>. QED
    BY <1>0, <1>5, <1>6 DEF Joined
<1>8. joined[1] = seqs[1] /\ \A i \in 2 .. N : joined[i] = joined[i - 1] \o seqs[i]
  <2>1. 1 \in 1 .. N /\ \A i \in 2 .. N : i \in 1 .. N /\ i # 1
    BY <1>1
  <2>. QED
    BY <1>7, <2>1
<1>9. joined \in [1 .. N -> Seq(T)]
  <2>. DEFINE S == {n \in 1 .. N : joined[n] \in Seq(T)}
  <2>1. 1 \in S
    BY <1>1, <1>8
  <2>2. ASSUME NEW n \in 1 + 1 .. N, n - 1 \in S PROVE n \in S
    <3>1. n \in 2 .. N /\ n \in 1 .. N
      OBVIOUS
    <3>2. joined[n] = joined[n - 1] \o seqs[n] /\ seqs[n] \in Seq(T) /\ joined[n - 1] \in Seq(T)
      BY <1>1, <1>8, <2>2, <3>1
    <3>3. joined[n - 1] \o seqs[n] \in Seq(T)
      BY <3>2
    <3>. QED
      BY <3>1, <3>2, <3>3
  <2>3. \A n \in 1 .. N : n \in S
    <3>. HIDE DEF S
    <3>. QED
      BY <1>1, <2>1, <2>2, InductionFrom
  <2>. QED
    BY <1>7, <2>3
<1>10. FlattenSeq(seqs) = joined[N]
  BY <1>0, <1>6 DEF FlattenSeq, Joined
<1>. QED
  BY <1>0, <1>6, <1>8, <1>9, <1>10

LEMMA FlattenOfNone == FlattenSeq(<<>>) = <<>>
BY DEF FlattenSeq

\* Sequences put one after the other.
LEMMA FlattenStays ==
  ASSUME NEW T, NEW seqs \in Seq(Seq(T))
  PROVE  FlattenSeq(seqs) \in Seq(T)
<1>1. CASE Len(seqs) = 0
  <2>1. seqs = <<>> /\ <<>> \in Seq(T)
    BY <1>1
  <2>. QED
    BY <2>1, FlattenOfNone
<1>2. CASE Len(seqs) # 0
  <2>1. PICK joined, N : joined = Joined(seqs) /\ N = Len(seqs)
    OBVIOUS
  <2>2. joined \in [1 .. N -> Seq(T)] /\ FlattenSeq(seqs) = joined[N]
    BY <1>2, <2>1, JoinedDefined
  <2>3. N \in 1 .. N
    BY <1>2, <2>1
  <2>. QED
    BY <2>2, <2>3
<1>. QED
  BY <1>1, <1>2

\* The numbers a list gets are those of its members.
LEMMA NumbersName ==
  ASSUME NEW list \in Seq(Chunks), NEW known \in Seq(Chunks), NEW n \in Numbers(list, known)
  PROVE  n \in DOMAIN known /\ known[n] \in ToSet(list)
<1>. DEFINE fits == {m \in 0 .. Len(list) : \A i \in 1 .. m : list[i] \in ToSet(known)}
            kept == Max(fits)
<1>1. Len(list) \in Nat /\ 0 \in fits /\ fits \in SUBSET (0 .. Len(list))
  OBVIOUS
<1>2. kept \in fits
  <2>. HIDE DEF fits
  <2>. QED
    BY <1>1, MaxExists
<1>. HIDE DEF kept
<1>3. PICK i \in 1 .. kept : n = SelectInSeq(known, LAMBDA chunk : chunk = list[i])
  BY DEF Numbers, kept
<1>4. i \in 1 .. Len(list) /\ list[i] \in ToSet(known)
  BY <1>1, <1>2
<1>. DEFINE I == {j \in 1 .. Len(known) : known[j] = list[i]}
<1>5. n = IF I # {} THEN Min(I) ELSE 0
  BY <1>3 DEF SelectInSeq
<1>6. I # {} /\ I \in SUBSET Nat
  BY <1>4 DEF ToSet
<1>7. n \in I
  <2>. HIDE DEF I
  <2>. QED
    BY <1>5, <1>6, MinExists
<1>. QED
  BY <1>4, <1>7 DEF ToSet
-------------------------------------------------------------------------------
LEMMA ChunksFinite == IsFiniteSet(Chunks)
<1>. DEFINE pairs == Versions \X {"parent", "child"}
            chunk == [p \in Documents \X pairs |-> [doc |-> p[1], version |-> p[2][1], kind |-> p[2][2]]]
<1>1. IsFiniteSet(Versions) /\ IsFiniteSet({"parent", "child"})
  <2>1. IsFiniteSet(Versions)
    BY BoundsAssumption, FS_Interval DEF Versions
  <2>2. IsFiniteSet({"parent"} \cup {"child"})
    BY FS_Singleton, FS_Union
  <2>3. {"parent", "child"} = {"parent"} \cup {"child"}
    OBVIOUS
  <2>. QED
    BY <2>1, <2>2, <2>3
<1>2. IsFiniteSet(Documents \X pairs)
  <2>1. IsFiniteSet(pairs)
    BY <1>1, FS_Product
  <2>. HIDE DEF pairs
  <2>. QED
    BY <2>1, FiniteAssumption, FS_Product
<1>3. chunk \in [Documents \X pairs -> Chunks]
  BY DEF Chunks
<1>4. ASSUME NEW c \in Chunks PROVE \E p \in Documents \X pairs : chunk[p] = c
  <2>1. <<c.doc, <<c.version, c.kind>>>> \in Documents \X pairs
    BY DEF Chunks
  <2>2. chunk[<<c.doc, <<c.version, c.kind>>>>] = c
    BY <2>1 DEF Chunks
  <2>. QED
    BY <2>1, <2>2
<1>5. chunk \in Surjection(Documents \X pairs, Chunks)
  <2>. HIDE DEF chunk
  <2>. QED
    BY <1>3, <1>4 DEF Surjection
<1>. QED
  BY <1>2, <1>5, FS_Surjection

Rows == [claim : Claims, chunks : SUBSET Chunks]

LEMMA RowsFinite == IsFiniteSet(Rows)
<1>. DEFINE pairs == Claims \X SUBSET Chunks
            row == [p \in pairs |-> [claim |-> p[1], chunks |-> p[2]]]
<1>1. IsFiniteSet(pairs)
  <2>1. IsFiniteSet(SUBSET Chunks)
    BY ChunksFinite, FS_SUBSET
  <2>. QED
    BY <2>1, FiniteAssumption, FS_Product
<1>2. row \in [pairs -> Rows]
  BY DEF Rows
<1>3. ASSUME NEW r \in Rows PROVE \E p \in pairs : row[p] = r
  <2>1. <<r.claim, r.chunks>> \in pairs
    BY DEF Rows
  <2>2. row[<<r.claim, r.chunks>>] = r
    BY <2>1 DEF Rows
  <2>. QED
    BY <2>1, <2>2
<1>4. row \in Surjection(pairs, Rows)
  <2>. HIDE DEF row, pairs
  <2>. QED
    BY <1>2, <1>3 DEF Surjection
<1>. QED
  BY <1>1, <1>4, FS_Surjection

\* A choice of members of a finite set, in some order, is a sequence of them.
LEMMA ChosenInOrder ==
  ASSUME NEW S, IsFiniteSet(S), NEW list \in SetToAllKPermutations(S)
  PROVE  list \in Seq(S)
<1>1. PICK subset \in SUBSET S : list \in SetToSeqs(subset)
  BY DEF SetToAllKPermutations
<1>2. Cardinality(subset) \in Nat
  BY FS_Subset, FS_CardinalityType
<1>3. list \in [1 .. Cardinality(subset) -> subset]
  BY <1>1 DEF SetToSeqs
<1>4. list \in Seq(subset)
  BY <1>2, <1>3
<1>. QED
  BY <1>4

LEMMA ListsOfRows ==
  ASSUME NEW rows \in Seq(Rows), NEW lists \in Lists(rows)
  PROVE  lists \in Seq(Seq(Chunks)) /\ \A i \in DOMAIN rows : i \in DOMAIN lists /\ ToSet(lists[i]) = rows[i].chunks
<1>1. ASSUME NEW i \in DOMAIN rows PROVE SetToSeqs(rows[i].chunks) \subseteq Seq(Chunks)
  <2>0. rows[i] \in Rows
    OBVIOUS
  <2>1. rows[i].chunks \in SUBSET Chunks
    BY <2>0 DEF Rows
  <2>2. Cardinality(rows[i].chunks) \in Nat
    BY <2>1, ChunksFinite, FS_Subset, FS_CardinalityType
  <2>3. ASSUME NEW s \in SetToSeqs(rows[i].chunks) PROVE s \in Seq(Chunks)
    <3>1. s \in [1 .. Cardinality(rows[i].chunks) -> rows[i].chunks]
      BY DEF SetToSeqs
    <3>2. s \in [1 .. Cardinality(rows[i].chunks) -> Chunks]
      BY <2>1, <3>1
    <3>. QED
      BY <2>2, <3>2
  <2>. QED
    BY <2>3
<1>2. lists \in [DOMAIN rows -> UNION {SetToSeqs(rows[i].chunks) : i \in DOMAIN rows}]
  BY DEF Lists
<1>3. lists \in [1 .. Len(rows) -> Seq(Chunks)]
  BY <1>1, <1>2
<1>4. lists \in Seq(Seq(Chunks))
  BY <1>3
<1>. QED
  BY <1>2, <1>4 DEF Lists
-------------------------------------------------------------------------------
LEMMA ChosenFromSet ==
  ASSUME NEW S, NEW list \in SetToAllKPermutations(S), NEW i \in DOMAIN list
  PROVE  list[i] \in S
<1>1. PICK subset \in SUBSET S : list \in SetToSeqs(subset)
  BY DEF SetToAllKPermutations
<1>2. list \in [DOMAIN list -> subset]
  BY <1>1 DEF SetToSeqs
<1>. QED
  BY <1>1, <1>2

\* A step of the call that is not its answer.
LEMMA StepOfCall ==
  ASSUME IInv, NEW c \in Calls, NEW local \in Locals, call' = [call EXCEPT ![c] = local],
         answer' = answer, UNCHANGED <<current, verified>>, call[c].step # "returned",
         local.step = "register_claims" => \A row \in local.claims : OfTitle(row, local.titles)
  PROVE  IInv'
<1>1. DatabaseTyped' /\ CallsTyped'
  BY DEF IInv, DatabaseTyped, CallsTyped
<1>2. ASSUME NEW x \in Calls PROVE Kept(x)'
  <2>1. CASE x = c
    <3>1. call'[x] = local /\ answer'[x] = {}
      BY <2>1 DEF IInv, CallsTyped, AnswersLast
    <3>. QED
      BY <3>1 DEF Kept, OfTitle
  <2>2. CASE x # c
    <3>1. call'[x] = call[x] /\ answer'[x] = answer[x]
      BY <2>2 DEF IInv, CallsTyped
    <3>. QED
      BY <3>1 DEF Kept, IInv, AnswersLast, RowsMatch, ClaimsMatchTheirPage, OfTitle
  <2>. QED
    BY <2>1, <2>2
<1>. QED
  BY <1>1, <1>2 DEF IInv, AnswersLast, RowsMatch, ClaimsMatchTheirPage, Kept

\* The answer of the call.
LEMMA AnswerOfCall ==
  ASSUME IInv, NEW c \in Calls, NEW result, Return(c), answer' = [answer EXCEPT ![c] = result],
         UNCHANGED <<current, verified>>,
         \A entry \in result : \A claim \in entry.claim :
           <<claim.page, claim.version>> \in call[c].titles
  PROVE  IInv'
<1>. DEFINE local == [[Idle EXCEPT !.titles = call[c].titles] EXCEPT !.step = "returned"]
<1>1. call' = [call EXCEPT ![c] = local]
  BY DEF Return, Goto
<1>2. local \in Locals /\ local.titles = call[c].titles /\ local.step = "returned"
  BY DEF IInv, CallsTyped, Locals, Idle
<1>3. DatabaseTyped' /\ CallsTyped'
  BY <1>1, <1>2 DEF IInv, DatabaseTyped, CallsTyped
<1>. HIDE DEF local
<1>4. ASSUME NEW x \in Calls PROVE Kept(x)'
  <2>1. CASE x = c
    <3>1. call'[x] = local /\ answer'[x] = result
      BY <1>1, <2>1 DEF IInv, CallsTyped
    <3>. QED
      BY <1>2, <2>1, <3>1 DEF Kept
  <2>2. CASE x # c
    <3>1. call'[x] = call[x] /\ answer'[x] = answer[x]
      BY <1>1, <2>2 DEF IInv, CallsTyped
    <3>. QED
      BY <3>1 DEF Kept, IInv, AnswersLast, RowsMatch, ClaimsMatchTheirPage, OfTitle
  <2>. QED
    BY <2>1, <2>2
<1>. QED
  BY <1>3, <1>4 DEF IInv, AnswersLast, RowsMatch, ClaimsMatchTheirPage, Kept
-------------------------------------------------------------------------------
LEMMA ToolStep ==
  ASSUME IInv, NEW c \in Calls, Tool(c)
  PROVE  IInv'
<1>. DEFINE old == call[c]
<1>. old \in Locals
  BY DEF IInv, CallsTyped
<1>. USE DEF Quiet, databaseVars, turnVars, historyVars, Goto
<1>1. CASE Begin(c)
  <2>1. ASSUME NEW step \in Steps \ {"register_claims"}, NEW scope \in SUBSET Scope,
               NEW among \in SUBSET Chunks, NEW ids \in SUBSET Pages, Start(c, step, scope, among, ids)
        PROVE  IInv'
    <3>. DEFINE local == [Idle EXCEPT !.step = step, !.scope = scope, !.among = among, !.ids = ids]
    <3>1. local \in Locals /\ local.step # "register_claims"
      BY DEF Idle, Locals
    <3>2. call' = [call EXCEPT ![c] = local]
      BY <2>1 DEF Start
    <3>3. answer' = answer /\ UNCHANGED <<current, verified>> /\ old.step # "returned"
      BY <1>1 DEF Begin
    <3>. HIDE DEF local
    <3>. QED
      BY <3>1, <3>2, <3>3, StepOfCall
  <2>2. {"fetch", "match", "context", "metadata", "pages"} \subseteq Steps \ {"register_claims"}
    BY DEF Steps
  <2>3. ASSUME NEW step \in {"fetch", "metadata"}, NEW scope \in (SUBSET Scope) \ {{}},
               Start(c, step, scope, {}, {})
        PROVE  IInv'
    BY <2>1, <2>2, <2>3
  <2>4. ASSUME NEW chunk \in Chunks, Start(c, "match", Scope, {chunk}, {}) PROVE IInv'
    BY <2>1, <2>2, <2>4
  <2>5. ASSUME NEW d \in Documents, Start(c, "context", Scope, {chunk \in Chunks : chunk.doc = d}, {})
        PROVE  IInv'
    BY <2>1, <2>2, <2>5
  <2>6. ASSUME NEW base \in Scope, NEW page \in Pages, Start(c, "pages", {base}, {}, {page}) PROVE IInv'
    BY <2>1, <2>2, <2>6
  <2>. QED
    BY <1>1, <2>3, <2>4, <2>5, <2>6 DEF Begin
<1>2. CASE Unavailable(c)
  <2>1. [[Idle EXCEPT !.titles = old.titles] EXCEPT !.step = "returned"] \in Locals
    BY DEF Locals, Idle
  <2>. QED
    BY <1>2, <2>1, StepOfCall DEF Unavailable, Return, Running, Steps, Idle
<1>3. CASE Fetch(c)
  <2>1. PICK hits \in SUBSET {chunk \in Chunks : chunk.kind = "child"} :
          call' = [call EXCEPT ![c] = [[old EXCEPT !.found = hits \cap Fetchable(old.scope)]
                                         EXCEPT !.step = "register"]]
    BY <1>3, ZenonT(60) DEF Fetch
  <2>2. [[old EXCEPT !.found = hits \cap Fetchable(old.scope)] EXCEPT !.step = "register"] \in Locals
    BY ZenonT(60) DEF Locals, Steps, Fetchable
  <2>. QED
    BY <1>3, <2>1, <2>2, StepOfCall DEF Fetch, Locals
<1>0. ASSUME Return(c), Quiet, old.step # "returned" PROVE IInv'
  <2>1. [[Idle EXCEPT !.titles = old.titles] EXCEPT !.step = "returned"] \in Locals
    BY DEF Locals, Idle
  <2>. QED
    BY <1>0, <2>1, StepOfCall DEF Return, Idle
<1>4. CASE Match(c)
  <2>. DEFINE matched == old.among \cap Fetchable(old.scope)
              version == {chunk \in Chunks : \E m \in matched : chunk.doc = m.doc /\ chunk.version = m.version}
              local == [[old EXCEPT !.among = version] EXCEPT !.step = "context"]
  <2>1. local \in Locals /\ local.step = "context"
    BY ZenonT(60) DEF Locals, Steps
  <2>2. Return(c) \/ call' = [call EXCEPT ![c] = local]
    BY <1>4 DEF Match
  <2>3. Quiet /\ old.step = "match"
    BY <1>4 DEF Match
  <2>. HIDE DEF local, Quiet
  <2>4. CASE call' = [call EXCEPT ![c] = local]
    BY <2>1, <2>3, <2>4, StepOfCall DEF Quiet
  <2>. QED
    BY <1>0, <2>2, <2>3, <2>4
<1>5. CASE Context(c)
  <2>. DEFINE local == [[old EXCEPT !.found = {chunk \in old.among \cap Fetchable(old.scope) :
                                                 chunk.kind = "parent"}] EXCEPT !.step = "register"]
  <2>1. local \in Locals /\ local.step = "register"
    BY ZenonT(60) DEF Locals, Steps
  <2>. QED
    BY <1>5, <2>1, StepOfCall, ZenonT(60) DEF Context
<1>6. CASE Metadata(c)
  <2>1. PICK ids \in SUBSET {page \in Pages : Visible(page, old.scope)} :
          call' = [call EXCEPT ![c] = [[old EXCEPT !.ids = ids] EXCEPT !.step = "candidates"]]
    BY <1>6, ZenonT(60) DEF Metadata
  <2>2. [[old EXCEPT !.ids = ids] EXCEPT !.step = "candidates"] \in Locals
    BY DEF Locals, Steps
  <2>. QED
    BY <1>6, <2>1, <2>2, StepOfCall DEF Metadata, Locals
<1>7. CASE Candidates(c)
  <2>1. PICK hits \in SUBSET {chunk \in Chunks : chunk.kind = "child"} :
          call' = [call EXCEPT ![c] = [[old EXCEPT !.found = hits \cap Fetchable(old.scope)]
                                         EXCEPT !.step = "source_pages"]]
    BY <1>7, ZenonT(60) DEF Candidates
  <2>2. [[old EXCEPT !.found = hits \cap Fetchable(old.scope)] EXCEPT !.step = "source_pages"] \in Locals
    BY ZenonT(60) DEF Locals, Steps, Fetchable
  <2>. QED
    BY <1>7, <2>1, <2>2, StepOfCall DEF Candidates, Locals
<1>8. CASE SourcePages(c)
  <2>. DEFINE pages == {page \in Pages : /\ Visible(page, old.scope)
                                         /\ \E row \in ClaimRows({page}) : row.chunks \cap old.found # {}}
              local == [[old EXCEPT !.ids = @ \cup pages] EXCEPT !.step = "pages"]
  <2>1. local \in Locals /\ local.step = "pages"
    BY ZenonT(60) DEF Locals, Steps
  <2>2. Return(c) \/ call' = [call EXCEPT ![c] = local]
    BY <1>8 DEF SourcePages
  <2>3. Quiet /\ old.step = "source_pages"
    BY <1>8 DEF SourcePages
  <2>. HIDE DEF local, Quiet
  <2>4. CASE call' = [call EXCEPT ![c] = local]
    BY <2>1, <2>3, <2>4, StepOfCall DEF Quiet
  <2>. QED
    BY <1>0, <2>2, <2>3, <2>4
<1>9. CASE HydratePages(c)
  <2>. DEFINE titles == {<<page, current[page]>> : page \in {p \in old.ids : Visible(p, old.scope)}}
              local == [[old EXCEPT !.titles = titles] EXCEPT !.step = "claims"]
  <2>1. titles \subseteq Pages \X Versions
    BY DEF IInv, DatabaseTyped, Locals
  <2>. HIDE DEF titles
  <2>2. local \in Locals /\ local.step = "claims"
    BY <2>1 DEF Locals, Steps
  <2>3. call' = [call EXCEPT ![c] = local] /\ Quiet /\ old.step = "pages"
    BY <1>9 DEF HydratePages, titles
  <2>. QED
    BY <2>2, <2>3, StepOfCall
<1>10. CASE HydrateClaims(c)
  <2>. DEFINE claims == {row \in ClaimRows(old.ids) : OfTitle(row, old.titles)}
              local == [[old EXCEPT !.claims = claims] EXCEPT !.step = "register_claims"]
  <2>1. claims \subseteq [claim : Claims, chunks : SUBSET Chunks]
    BY DEF IInv, DatabaseTyped, ClaimRows
  <2>2. \A row \in claims : OfTitle(row, old.titles)
    OBVIOUS
  <2>3. call' = [call EXCEPT ![c] = local] /\ Quiet /\ old.step = "claims"
    BY <1>10 DEF HydrateClaims
  <2>. HIDE DEF claims
  <2>4. local \in Locals /\ local.titles = old.titles /\ local.claims = claims
    BY <2>1, ZenonT(60) DEF Locals, Steps
  <2>. HIDE DEF local
  <2>. QED
    BY <2>2, <2>3, <2>4, StepOfCall
<1>11. CASE Register(c)
  <2>1. PICK list : answer' = [answer EXCEPT ![c] = {[claim |-> {}, cites |-> Numbers(list, sources')]}]
    BY <1>11 DEF Register
  <2>2. \A entry \in {[claim |-> {}, cites |-> Numbers(list, sources')]} : entry.claim = {}
    OBVIOUS
  <2>. QED
    BY <1>11, <2>1, <2>2, AnswerOfCall, ZenonT(60) DEF Register
<1>12. CASE RegisterClaims(c)
  <2>0. PICK rows \in SetToAllKPermutations(old.claims) : \E lists \in Lists(rows) :
          answer' = [answer EXCEPT ![c] =
            {[claim |-> {rows[i].claim}, cites |-> Numbers(lists[i], sources')] :
               i \in {j \in DOMAIN rows : Numbers(lists[j], sources') # {}}}]
    BY <1>12 DEF RegisterClaims
  <2>1. PICK lists \in Lists(rows) :
          answer' = [answer EXCEPT ![c] =
            {[claim |-> {rows[i].claim}, cites |-> Numbers(lists[i], sources')] :
               i \in {j \in DOMAIN rows : Numbers(lists[j], sources') # {}}}]
    BY <2>0
  <2>. DEFINE result == {[claim |-> {rows[i].claim}, cites |-> Numbers(lists[i], sources')] :
                           i \in {j \in DOMAIN rows : Numbers(lists[j], sources') # {}}}
  <2>2. ASSUME NEW entry \in result, NEW claim \in entry.claim
        PROVE  <<claim.page, claim.version>> \in old.titles
    <3>1. PICK i \in DOMAIN rows : claim = rows[i].claim
      OBVIOUS
    <3>2. rows[i] \in old.claims
      BY ChosenFromSet
    <3>. QED
      BY <1>12, <3>1, <3>2 DEF RegisterClaims, IInv, RowsMatch, OfTitle
  <2>3. Return(c) /\ UNCHANGED <<current, verified>>
    BY <1>12 DEF RegisterClaims
  <2>. HIDE DEF result
  <2>. QED
    BY <2>1, <2>2, <2>3, AnswerOfCall DEF result
<1>. QED
  BY <1>1, <1>2, <1>3, <1>4, <1>5, <1>6, <1>7, <1>8, <1>9, <1>10, <1>11, <1>12 DEF Tool

\* The agent and the changes of others leave calls and answers alone.
LEMMA OtherStep ==
  ASSUME IInv, DatabaseTyped', UNCHANGED <<call, answer>>
  PROVE  IInv'
  BY DEF IInv, CallsTyped, AnswersLast, RowsMatch, ClaimsMatchTheirPage, OfTitle

LEMMA EnvironmentTyped ==
  ASSUME DatabaseTyped, Environment
  PROVE  DatabaseTyped'
<1>1. CASE \E d \in Documents : Switch(d) \/ Unready(d) \/ Delete(d)
  BY <1>1 DEF DatabaseTyped, Switch, Unready, Delete
<1>2. CASE \E base \in Bases : SetEnabled(base) \/ SetWiki(base)
  BY <1>2 DEF DatabaseTyped, SetEnabled, SetWiki
<1>3. ASSUME NEW page \in Pages, Replace(page) PROVE DatabaseTyped'
  <2>1. current[page] + 1 \in Versions
    BY <1>3, BoundsAssumption DEF DatabaseTyped, Replace, Versions
  <2>. QED
    BY <1>3, <2>1 DEF DatabaseTyped, Replace
<1>. QED
  BY <1>1, <1>2, <1>3 DEF Environment

LEMMA IInvStarts == Init => IInv
<1>1. Init => CallsTyped
  BY DEF Init, CallsTyped, Locals, Idle
<1>2. Init => DatabaseTyped
  BY BoundsAssumption DEF Init, DatabaseTyped, Versions
<1>3. Init => AnswersLast /\ RowsMatch /\ ClaimsMatchTheirPage
  BY DEF Init, AnswersLast, RowsMatch, ClaimsMatchTheirPage, Idle
<1>. QED
  BY <1>1, <1>2, <1>3 DEF IInv

LEMMA IInvStep ==
  ASSUME IInv, [Next]_vars
  PROVE  IInv'
<1>1. ASSUME Agent PROVE IInv'
  BY <1>1, OtherStep DEF Agent, Write, Publish, Show, databaseVars, IInv, DatabaseTyped
<1>2. ASSUME Environment PROVE IInv'
  BY <1>2, EnvironmentTyped, OtherStep DEF Environment, Change, turnVars, IInv
<1>3. ASSUME UNCHANGED vars PROVE IInv'
  BY <1>3, OtherStep DEF vars, databaseVars, turnVars, IInv, DatabaseTyped
<1>. QED
  BY <1>1, <1>2, <1>3, ToolStep DEF Next

\* The claims a tool shows under the title of a wiki page belong to the version the
\* title is of (wiki/retrieval.py, _hydrate_pages), whatever pages are replaced
\* while the call runs.
THEOREM TitlesMatch == Spec => []ClaimsMatchTheirPage
<1>1. IInv => ClaimsMatchTheirPage
  BY DEF IInv
<1>. QED
  BY <1>1, IInvStarts, IInvStep, PTL DEF Spec
-------------------------------------------------------------------------------
(* Citations: what the sources of a turn were when they were read.           *)

\* Chunks one answer may cite together.
Citable(c, chunks) ==
  \A a \in chunks :
    /\ a \in served[c] /\ BaseOf[a.doc] \in open[c] \cap Scope
    /\ \A b \in chunks : a.doc = b.doc => a.version = b.version

\* What a call knows was so at some moment of it: of the present, of what it has
\* found, of the titles it has read and of the claims it has read under them.
Known(c, local) ==
  /\ local.step \in Steps => {chunk \in Chunks : Live(chunk)} \subseteq served[c] /\ enabled \subseteq open[c]
  /\ local.step = "register" => Citable(c, local.found)
  /\ local.step \in {"claims", "register_claims"} =>
       \A title \in local.titles : PageBaseOf[title[1]] \in open[c] \cap Scope
  /\ local.step = "register_claims" => Citable(c, UNION {row.chunks : row \in local.claims})

Cites(c) == Cited(c) \subseteq DOMAIN sources /\ Citable(c, {sources[n] : n \in Cited(c)})

TurnTyped == sources \in Room /\ client \in Seq(Chunks)
HistoryTyped == DOMAIN served = Calls /\ DOMAIN open = Calls
Evidence == \A c \in Calls : Known(c, call[c]) /\ Cites(c)

TurnInv == IInv /\ TurnTyped /\ MarkersResolve
CitationInv == TurnInv /\ HistoryTyped /\ Evidence
-------------------------------------------------------------------------------
\* The sources that Register may add to the turn.
LEMMA RegisterKeeps ==
  ASSUME IInv, TurnTyped, NEW c \in Calls, NEW list \in SetToAllKPermutations(call[c].found)
  PROVE  /\ list \in Seq(call[c].found) /\ list \in Seq(Chunks)
         /\ Extend(list) \in Room /\ IsPrefix(sources, Extend(list))
<1>1. call[c].found \in SUBSET Chunks
  BY DEF IInv, CallsTyped, Locals
<1>2. IsFiniteSet(call[c].found)
  BY <1>1, ChunksFinite, FS_Subset
<1>3. list \in Seq(call[c].found)
  BY <1>2, ChosenInOrder
<1>4. list \in Seq(Chunks)
  BY <1>1, <1>3
<1>. QED
  BY <1>3, <1>4, ExtendStays DEF TurnTyped

\* And RegisterClaims.
LEMMA RegisterClaimsKeeps ==
  ASSUME IInv, TurnTyped, NEW c \in Calls, NEW rows \in SetToAllKPermutations(call[c].claims),
         NEW lists \in Lists(rows)
  PROVE  /\ rows \in Seq(call[c].claims)
         /\ lists \in Seq(Seq(Chunks))
         /\ \A i \in DOMAIN rows : i \in DOMAIN lists /\ ToSet(lists[i]) = rows[i].chunks
         /\ Extend(FlattenSeq(lists)) \in Room /\ IsPrefix(sources, Extend(FlattenSeq(lists)))
<1>1. call[c].claims \in SUBSET Rows
  BY DEF IInv, CallsTyped, Locals, Rows
<1>2. IsFiniteSet(call[c].claims)
  BY <1>1, RowsFinite, FS_Subset
<1>3. rows \in Seq(call[c].claims)
  BY <1>2, ChosenInOrder
<1>4. rows \in Seq(Rows)
  BY <1>1, <1>3
<1>5. /\ lists \in Seq(Seq(Chunks))
      /\ \A i \in DOMAIN rows : i \in DOMAIN lists /\ ToSet(lists[i]) = rows[i].chunks
  BY <1>4, ListsOfRows
<1>6. FlattenSeq(lists) \in Seq(Chunks)
  BY <1>5, FlattenStays
<1>. QED
  BY <1>3, <1>5, <1>6, ExtendStays DEF TurnTyped

LEMMA PrefixOfItself ==
  ASSUME NEW S, NEW s \in Seq(S)
  PROVE  IsPrefix(s, s)
BY DEF IsPrefix

\* A tool never touches a source the turn has; the agent and others add none.
LEMMA SourcesStand ==
  ASSUME IInv, TurnTyped, [Next]_vars
  PROVE  sources' \in Room /\ IsPrefix(sources, sources')
<1>0. ASSUME sources' = sources PROVE sources' \in Room /\ IsPrefix(sources, sources')
  BY <1>0, PrefixOfItself DEF TurnTyped, Room
<1>1. CASE UNCHANGED vars
  BY <1>0, <1>1 DEF vars, turnVars
<1>2. CASE Agent
  BY <1>0, <1>2 DEF Agent, Write, Publish, Show
<1>3. CASE Environment
  BY <1>0, <1>3 DEF Environment, Change, turnVars
<1>4. ASSUME NEW c \in Calls, Tool(c) PROVE sources' \in Room /\ IsPrefix(sources, sources')
  <2>1. CASE Register(c)
    BY <2>1, RegisterKeeps DEF Register
  <2>2. CASE RegisterClaims(c)
    BY <2>2, RegisterClaimsKeeps DEF RegisterClaims
  <2>3. CASE ~Register(c) /\ ~RegisterClaims(c)
    BY <1>0, <1>4, <2>3
       DEF Tool, Begin, Unavailable, Fetch, Match, Context, Metadata, Candidates, SourcePages,
           HydratePages, HydrateClaims, Quiet, turnVars
  <2>. QED
    BY <2>1, <2>2, <2>3
<1>. QED
  BY <1>1, <1>2, <1>3, <1>4 DEF Next

LEMMA ClientStands ==
  ASSUME IInv, TurnTyped, MarkersResolve, [Next]_vars
  PROVE  TurnTyped' /\ MarkersResolve'
<1>1. sources \in Seq(Chunks) /\ sources' \in Seq(Chunks) /\ IsPrefix(sources, sources') /\ sources' \in Room
  BY SourcesStand DEF TurnTyped, Room
<1>2. client \in Seq(Chunks) /\ IsPrefix(client, sources) /\ shown \subseteq DOMAIN client
  BY DEF TurnTyped, MarkersResolve
<1>3. CASE UNCHANGED <<client, shown>>
  <2>1. IsPrefix(client, sources')
    BY <1>1, <1>2, PrefixOfPrefix
  <2>. QED
    BY <1>1, <1>2, <1>3, <2>1 DEF TurnTyped, MarkersResolve
<1>4. CASE Publish
  <2>1. client' = sources /\ sources' = sources /\ shown' = shown
    BY <1>4 DEF Publish
  <2>2. shown \subseteq DOMAIN sources
    BY <1>1, <1>2, PrefixElements
  <2>3. IsPrefix(sources, sources)
    BY <1>1, PrefixOfItself
  <2>. QED
    BY <1>1, <2>1, <2>2, <2>3 DEF TurnTyped, MarkersResolve
<1>5. CASE Show
  <2>1. client' = client /\ sources' = sources /\ shown' \subseteq shown \cup (1 .. Len(sources))
    BY <1>5 DEF Show
  <2>2. Len(sources) <= Len(client) /\ Len(client) \in Nat /\ Len(sources) \in Nat /\ DOMAIN client = 1 .. Len(client)
    BY <1>1, <1>2, <1>5 DEF Show, Published
  <2>. QED
    BY <1>1, <1>2, <2>1, <2>2 DEF TurnTyped, MarkersResolve
<1>6. ASSUME NEW c \in Calls, Tool(c) PROVE UNCHANGED <<client, shown>>
  BY <1>6
     DEF Tool, Begin, Unavailable, Fetch, Match, Context, Metadata, Candidates, SourcePages,
         HydratePages, HydrateClaims, Register, RegisterClaims, Quiet, turnVars
<1>7. UNCHANGED <<client, shown>> \/ Publish \/ Show
  BY <1>6 DEF Next, Agent, Write, Environment, Change, vars, turnVars
<1>. QED
  BY <1>3, <1>4, <1>5, <1>7

LEMMA TurnStarts == Init => CitationInv
<1>1. Init => IInv
  BY IInvStarts
<1>2. Init => TurnTyped /\ MarkersResolve
  <2>1. <<>> \in Room /\ <<>> \in Seq(Chunks)
    BY BoundsAssumption DEF Room
  <2>2. IsPrefix(<<>>, <<>>)
    BY <2>1, PrefixOfItself
  <2>. QED
    BY <2>1, <2>2 DEF Init, TurnTyped, MarkersResolve
<1>3. ASSUME Init, NEW c \in Calls PROVE Known(c, call[c]) /\ Cites(c)
  <2>1. call[c].step = "idle" /\ answer[c] = {}
    BY <1>3 DEF Init, Idle
  <2>. QED
    BY <2>1 DEF Known, Steps, Cites, Cited, Citable
<1>. QED
  BY <1>1, <1>2, <1>3 DEF Init, CitationInv, TurnInv, HistoryTyped, Evidence

\* Every marker the client has seen names a source it has been sent, and the
\* number means the same source in the whole turn (TurnKnowledgeState.register and
\* LangChainAgentStream.stream_events), however many calls register at once.
THEOREM EveryMarkerResolves == Spec => []MarkersResolve
<1>1. Init => TurnInv
  BY TurnStarts DEF CitationInv
<1>2. TurnInv /\ [Next]_vars => TurnInv'
  BY IInvStep, ClientStands DEF TurnInv
<1>3. TurnInv => MarkersResolve
  BY DEF TurnInv
<1>. QED
  BY <1>1, <1>2, <1>3, PTL DEF Spec
-------------------------------------------------------------------------------
\* What passes the join of one statement may be cited together.
LEMMA FetchedCitable ==
  ASSUME NEW c \in Calls, IInv, Known(c, call[c]), Running(c), NEW chunks,
         chunks \subseteq Fetchable(call[c].scope)
  PROVE  Citable(c, chunks)
<1>1. call[c].scope \subseteq Scope
  BY DEF IInv, CallsTyped, Locals
<1>2. {chunk \in Chunks : Live(chunk)} \subseteq served[c] /\ enabled \subseteq open[c]
  BY DEF Known, Running
<1>3. \A a \in chunks : a \in Chunks /\ Live(a) /\ BaseOf[a.doc] \in call[c].scope \cap enabled
  BY DEF Fetchable, InScope
<1>. QED
  BY <1>1, <1>2, <1>3 DEF Citable, Live

\* So may the chunks that support the claims of one statement, under titles of
\* pages that were open.
LEMMA ClaimsCitable ==
  ASSUME NEW c \in Calls, IInv, Known(c, call[c]), call[c].step = "claims", NEW rows,
         rows \subseteq {row \in ClaimRows(call[c].ids) : OfTitle(row, call[c].titles)}
  PROVE  Citable(c, UNION {row.chunks : row \in rows})
<1>1. {chunk \in Chunks : Live(chunk)} \subseteq served[c]
  BY DEF Known, Steps
<1>2. \A title \in call[c].titles : PageBaseOf[title[1]] \in open[c] \cap Scope
  BY DEF Known
<1>3. ASSUME NEW row \in rows, NEW a \in row.chunks
      PROVE  a \in Chunks /\ Live(a) /\ BaseOf[a.doc] \in open[c] \cap Scope
  <2>1. row \in ClaimRows(call[c].ids) /\ <<row.claim.page, row.claim.version>> \in call[c].titles
    BY DEF OfTitle
  <2>2. a \in Support(row.claim) /\ row.chunks \in SUBSET Chunks
    BY <2>1 DEF ClaimRows
  <2>3. PageBaseOf[row.claim.page] \in open[c] \cap Scope
    BY <1>2, <2>1
  <2>. QED
    BY <2>2, <2>3 DEF Support
<1>. QED
  BY <1>1, <1>3 DEF Citable, Live

\* A call that stays where it is.
LEMMA OtherCall ==
  ASSUME TurnTyped, NEW x \in Calls, Known(x, call[x]), Cites(x),
         sources' \in Room, IsPrefix(sources, sources'),
         call'[x] = call[x], answer'[x] = answer[x],
         served[x] \subseteq served'[x], open[x] \subseteq open'[x],
         call[x].step \in Steps =>
           {chunk \in Chunks : Live(chunk)'} \subseteq served'[x] /\ enabled' \subseteq open'[x]
  PROVE  Known(x, call[x])' /\ Cites(x)'
<1>1. ASSUME NEW chunks, Citable(x, chunks)
      PROVE  \A a \in chunks : /\ a \in served'[x] /\ BaseOf[a.doc] \in open'[x] \cap Scope
                               /\ \A b \in chunks : a.doc = b.doc => a.version = b.version
  BY <1>1 DEF Citable
<1>2. Known(x, call[x])'
  BY <1>1 DEF Known, Citable
<1>3. Cited(x)' = Cited(x)
  BY DEF Cited
<1>4. Cited(x) \subseteq DOMAIN sources /\ \A n \in DOMAIN sources : n \in DOMAIN sources' /\ sources'[n] = sources[n]
  BY PrefixElements DEF Cites, TurnTyped, Room
<1>5. {sources'[n] : n \in Cited(x)} = {sources[n] : n \in Cited(x)}
  BY <1>4
<1>6. Cites(x)'
  BY <1>1, <1>3, <1>4, <1>5 DEF Cites, Citable
<1>. QED
  BY <1>2, <1>6

\* A step of a call that is not its answer.
LEMMA CallKnows ==
  ASSUME CitationInv, NEW c \in Calls, NEW local, call' = [call EXCEPT ![c] = local],
         answer' = answer, UNCHANGED <<sources, databaseVars, historyVars>>,
         call[c].step # "returned", Known(c, local)
  PROVE  Evidence'
<1>. USE DEF databaseVars, historyVars
<1>1. TurnTyped /\ IInv /\ sources' \in Room /\ IsPrefix(sources, sources')
  BY PrefixOfItself DEF CitationInv, TurnInv, TurnTyped, Room
<1>2. ASSUME NEW x \in Calls PROVE Known(x, call[x])' /\ Cites(x)'
  <2>1. CASE x = c
    <3>1. call'[x] = local /\ answer'[x] = {}
      BY <1>1, <2>1 DEF IInv, CallsTyped, AnswersLast
    <3>. QED
      BY <2>1, <3>1 DEF Known, Cites, Cited, Citable, Live
  <2>2. CASE x # c
    <3>1. call'[x] = call[x] /\ answer'[x] = answer[x]
      BY <1>1, <2>2 DEF IInv, CallsTyped
    <3>2. Known(x, call[x]) /\ Cites(x)
      BY DEF CitationInv, Evidence
    <3>. QED
      BY <1>1, <3>1, <3>2, OtherCall DEF Known, Live
  <2>. QED
    BY <2>1, <2>2
<1>. QED
  BY <1>2 DEF Evidence

\* The answer of the call.
LEMMA AnswerCites ==
  ASSUME CitationInv, NEW c \in Calls, NEW result, Return(c),
         answer' = [answer EXCEPT ![c] = result], UNCHANGED <<databaseVars, historyVars>>,
         sources' \in Room, IsPrefix(sources, sources'), NEW chunks, Citable(c, chunks),
         \A entry \in result : \A n \in entry.cites : n \in DOMAIN sources' /\ sources'[n] \in chunks
  PROVE  Evidence'
<1>. USE DEF databaseVars, historyVars
<1>1. TurnTyped /\ IInv
  BY DEF CitationInv, TurnInv
<1>. DEFINE local == [[Idle EXCEPT !.titles = call[c].titles] EXCEPT !.step = "returned"]
<1>2. call' = [call EXCEPT ![c] = local] /\ local.step = "returned"
  BY DEF Return, Goto, Idle
<1>. HIDE DEF local
<1>3. ASSUME NEW x \in Calls PROVE Known(x, call[x])' /\ Cites(x)'
  <2>1. CASE x = c
    <3>1. call'[x].step = "returned" /\ answer'[x] = result
      BY <1>1, <1>2, <2>1 DEF IInv, CallsTyped
    <3>2. Known(x, call[x])'
      BY <3>1 DEF Known, Steps
    <3>3. \A n \in Cited(x)' : n \in DOMAIN sources' /\ sources'[n] \in chunks
      BY <3>1 DEF Cited
    <3>4. Citable(x, chunks)'
      BY <2>1 DEF Citable
    <3>. QED
      BY <3>2, <3>3, <3>4 DEF Cites, Citable
  <2>2. CASE x # c
    <3>1. call'[x] = call[x] /\ answer'[x] = answer[x]
      BY <1>1, <1>2, <2>2 DEF IInv, CallsTyped
    <3>2. Known(x, call[x]) /\ Cites(x)
      BY DEF CitationInv, Evidence
    <3>. QED
      BY <1>1, <3>1, <3>2, OtherCall DEF Known, Live
  <2>. QED
    BY <2>1, <2>2
<1>. QED
  BY <1>3 DEF Evidence

LEMMA ToolKnows ==
  ASSUME CitationInv, NEW c \in Calls, Tool(c)
  PROVE  Evidence'
<1>. DEFINE old == call[c]
<1>0. IInv /\ TurnTyped /\ Known(c, old) /\ old \in Locals
  BY DEF CitationInv, TurnInv, Evidence, IInv, CallsTyped
\* A step after which the call has nothing to cite yet.
<1>a. ASSUME NEW local, call' = [call EXCEPT ![c] = local], Quiet, Running(c),
             local.step \notin {"register", "claims", "register_claims"}
      PROVE  Evidence'
  <2>1. Known(c, local)
    BY <1>0, <1>a DEF Known, Running
  <2>. QED
    BY <1>a, <2>1, CallKnows DEF Quiet, turnVars, Running, Steps
<1>b. ASSUME Return(c), Quiet, Running(c) PROVE Evidence'
  <2>1. [[Idle EXCEPT !.titles = old.titles] EXCEPT !.step = "returned"].step = "returned"
    BY DEF Idle
  <2>. QED
    BY <1>a, <1>b, <2>1 DEF Return, Goto
<1>1. CASE Begin(c)
  <2>. USE DEF databaseVars, turnVars
  <2>0. PICK step, scope, among, ids :
          /\ step \notin {"register", "claims", "register_claims"}
          /\ Start(c, step, scope, among, ids)
    BY <1>1 DEF Begin
  <2>. DEFINE local == [Idle EXCEPT !.step = step, !.scope = scope, !.among = among, !.ids = ids]
  <2>1. /\ call' = [call EXCEPT ![c] = local]
        /\ local.step \notin {"register", "claims", "register_claims"}
    BY <2>0 DEF Start, Idle
  <2>. HIDE DEF local
  <2>2. /\ served' = [served EXCEPT ![c] = {chunk \in Chunks : Live(chunk)}]
        /\ open' = [open EXCEPT ![c] = enabled]
        /\ old.step = "idle" /\ answer' = answer /\ sources' = sources
        /\ UNCHANGED <<active, deleted, enabled>>
    BY <1>1 DEF Begin
  <2>3. sources' \in Room /\ IsPrefix(sources, sources')
    BY <1>0, <2>2, PrefixOfItself DEF TurnTyped, Room
  <2>4. ASSUME NEW x \in Calls PROVE Known(x, call[x])' /\ Cites(x)'
    <3>1. CASE x = c
      <4>1. call'[x] = local /\ answer'[x] = {}
        BY <1>0, <2>1, <2>2, <3>1 DEF IInv, CallsTyped, AnswersLast
      <4>2. served'[x] = {chunk \in Chunks : Live(chunk)} /\ open'[x] = enabled
        BY <2>2, <3>1 DEF CitationInv, HistoryTyped
      <4>. QED
        BY <2>1, <2>2, <4>1, <4>2 DEF Known, Cites, Cited, Citable, Live
    <3>2. CASE x # c
      <4>1. call'[x] = call[x] /\ answer'[x] = answer[x] /\ served'[x] = served[x] /\ open'[x] = open[x]
        BY <1>0, <2>1, <2>2, <3>2 DEF IInv, CallsTyped, CitationInv, HistoryTyped
      <4>2. Known(x, call[x]) /\ Cites(x)
        BY DEF CitationInv, Evidence
      <4>. QED
        BY <1>0, <2>2, <2>3, <4>1, <4>2, OtherCall DEF Known, Live
    <3>. QED
      BY <3>1, <3>2
  <2>. QED
    BY <2>4 DEF Evidence
<1>2. CASE Unavailable(c)
  BY <1>b, <1>2 DEF Unavailable
<1>3. CASE Fetch(c)
  <2>1. PICK hits : call' = [call EXCEPT ![c] = [[old EXCEPT !.found = hits \cap Fetchable(old.scope)]
                                                   EXCEPT !.step = "register"]]
    BY <1>3, ZenonT(60) DEF Fetch, Goto
  <2>2. Citable(c, hits \cap Fetchable(old.scope))
    BY <1>0, <1>3, FetchedCitable DEF Fetch, Running, Steps
  <2>. DEFINE local == [[old EXCEPT !.found = hits \cap Fetchable(old.scope)] EXCEPT !.step = "register"]
  <2>3. local.step = "register" /\ local.found = hits \cap Fetchable(old.scope)
    BY <1>0 DEF Locals
  <2>. HIDE DEF local
  <2>4. Known(c, local)
    BY <1>0, <1>3, <2>2, <2>3 DEF Known, Steps, Fetch
  <2>. QED
    BY <1>3, <2>1, <2>4, CallKnows DEF Fetch, Quiet, turnVars, local
<1>4. CASE Match(c)
  <2>. DEFINE matched == old.among \cap Fetchable(old.scope)
              version == {chunk \in Chunks : \E m \in matched : chunk.doc = m.doc /\ chunk.version = m.version}
              local == [[old EXCEPT !.among = version] EXCEPT !.step = "context"]
  <2>1. local.step = "context"
    BY <1>0 DEF Locals
  <2>2. Return(c) \/ call' = [call EXCEPT ![c] = local]
    BY <1>4 DEF Match, Goto
  <2>3. Quiet /\ Running(c)
    BY <1>4 DEF Match, Running, Steps
  <2>. HIDE DEF local
  <2>. QED
    BY <1>a, <1>b, <2>1, <2>2, <2>3
<1>5. CASE Context(c)
  <2>. DEFINE found == {chunk \in old.among \cap Fetchable(old.scope) : chunk.kind = "parent"}
              local == [[old EXCEPT !.found = found] EXCEPT !.step = "register"]
  <2>1. Citable(c, found)
    BY <1>0, <1>5, FetchedCitable DEF Context, Running, Steps
  <2>2. call' = [call EXCEPT ![c] = local]
    BY <1>5 DEF Context, Goto
  <2>. HIDE DEF found
  <2>3. local.step = "register" /\ local.found = found
    BY <1>0 DEF Locals
  <2>. HIDE DEF local
  <2>4. Known(c, local)
    BY <1>0, <1>5, <2>1, <2>3 DEF Known, Steps, Context
  <2>. QED
    BY <1>5, <2>2, <2>4, CallKnows DEF Context, Quiet, turnVars
<1>6. CASE Metadata(c)
  <2>1. PICK ids : call' = [call EXCEPT ![c] = [[old EXCEPT !.ids = ids] EXCEPT !.step = "candidates"]]
    BY <1>6, ZenonT(60) DEF Metadata, Goto
  <2>2. [[old EXCEPT !.ids = ids] EXCEPT !.step = "candidates"].step = "candidates"
    BY <1>0 DEF Locals
  <2>. QED
    BY <1>6, <1>a, <2>1, <2>2 DEF Metadata, Running, Steps
<1>7. CASE Candidates(c)
  <2>1. PICK found : call' = [call EXCEPT ![c] = [[old EXCEPT !.found = found] EXCEPT !.step = "source_pages"]]
    BY <1>7, ZenonT(60) DEF Candidates, Goto
  <2>2. [[old EXCEPT !.found = found] EXCEPT !.step = "source_pages"].step = "source_pages"
    BY <1>0 DEF Locals
  <2>. QED
    BY <1>7, <1>a, <2>1, <2>2 DEF Candidates, Running, Steps
<1>8. CASE SourcePages(c)
  <2>. DEFINE pages == {page \in Pages : /\ Visible(page, old.scope)
                                         /\ \E row \in ClaimRows({page}) : row.chunks \cap old.found # {}}
              local == [[old EXCEPT !.ids = @ \cup pages] EXCEPT !.step = "pages"]
  <2>1. local.step = "pages"
    BY <1>0 DEF Locals
  <2>2. Return(c) \/ call' = [call EXCEPT ![c] = local]
    BY <1>8 DEF SourcePages, Goto
  <2>3. Quiet /\ Running(c)
    BY <1>8 DEF SourcePages, Running, Steps
  <2>. HIDE DEF local
  <2>. QED
    BY <1>a, <1>b, <2>1, <2>2, <2>3
<1>9. CASE HydratePages(c)
  <2>. DEFINE titles == {<<page, current[page]>> : page \in {p \in old.ids : Visible(p, old.scope)}}
              local == [[old EXCEPT !.titles = titles] EXCEPT !.step = "claims"]
  <2>1. \A title \in titles : PageBaseOf[title[1]] \in open[c] \cap Scope
    BY <1>0, <1>9 DEF Known, Steps, HydratePages, Visible, Locals
  <2>2. call' = [call EXCEPT ![c] = local] /\ Quiet /\ old.step = "pages"
    BY <1>9 DEF HydratePages, Goto
  <2>. HIDE DEF titles
  <2>3. local.step = "claims" /\ local.titles = titles
    BY <1>0 DEF Locals
  <2>. HIDE DEF local
  <2>4. Known(c, local)
    BY <1>0, <2>1, <2>2, <2>3 DEF Known, Steps
  <2>. QED
    BY <2>2, <2>4, CallKnows DEF Quiet, turnVars
<1>10. CASE HydrateClaims(c)
  <2>. DEFINE claims == {row \in ClaimRows(old.ids) : OfTitle(row, old.titles)}
              local == [[old EXCEPT !.claims = claims] EXCEPT !.step = "register_claims"]
  <2>1. call' = [call EXCEPT ![c] = local] /\ Quiet /\ old.step = "claims"
    BY <1>10 DEF HydrateClaims, Goto
  <2>2. Citable(c, UNION {row.chunks : row \in claims})
    BY <1>0, <2>1, ClaimsCitable
  <2>. HIDE DEF claims
  <2>3. local.step = "register_claims" /\ local.titles = old.titles /\ local.claims = claims
    BY <1>0 DEF Locals
  <2>. HIDE DEF local
  <2>4. Known(c, local)
    BY <1>0, <2>1, <2>2, <2>3 DEF Known, Steps
  <2>. QED
    BY <2>1, <2>4, CallKnows DEF Quiet, turnVars
<1>11. CASE Register(c)
  <2>1. PICK list \in SetToAllKPermutations(old.found) :
          /\ sources' = Extend(list)
          /\ answer' = [answer EXCEPT ![c] = {[claim |-> {}, cites |-> Numbers(list, sources')]}]
    BY <1>11 DEF Register
  <2>2. /\ list \in Seq(old.found) /\ list \in Seq(Chunks)
        /\ sources' \in Room /\ IsPrefix(sources, sources')
    BY <1>0, <2>1, RegisterKeeps
  <2>3. ASSUME NEW n \in Numbers(list, sources') PROVE n \in DOMAIN sources' /\ sources'[n] \in old.found
    <3>1. n \in DOMAIN sources' /\ sources'[n] \in ToSet(list)
      BY <2>2, NumbersName DEF Room
    <3>. QED
      BY <2>2, <3>1 DEF ToSet
  <2>4. Citable(c, old.found)
    BY <1>0, <1>11 DEF Known, Register
  <2>5. Return(c) /\ UNCHANGED <<databaseVars, historyVars>>
    BY <1>11 DEF Register
  <2>. DEFINE result == {[claim |-> {}, cites |-> Numbers(list, sources')]}
  <2>6. \A entry \in result : \A n \in entry.cites : n \in DOMAIN sources' /\ sources'[n] \in old.found
    BY <2>3
  <2>7. answer' = [answer EXCEPT ![c] = result]
    BY <2>1
  <2>. HIDE DEF result
  <2>. QED
    BY <2>2, <2>4, <2>5, <2>6, <2>7, AnswerCites
<1>12. CASE RegisterClaims(c)
  <2>0. PICK rows \in SetToAllKPermutations(old.claims) : \E lists \in Lists(rows) :
          /\ sources' = Extend(FlattenSeq(lists))
          /\ answer' = [answer EXCEPT ![c] =
               {[claim |-> {rows[i].claim}, cites |-> Numbers(lists[i], sources')] :
                  i \in {j \in DOMAIN rows : Numbers(lists[j], sources') # {}}}]
    BY <1>12 DEF RegisterClaims
  <2>1. PICK lists \in Lists(rows) :
          /\ sources' = Extend(FlattenSeq(lists))
          /\ answer' = [answer EXCEPT ![c] =
               {[claim |-> {rows[i].claim}, cites |-> Numbers(lists[i], sources')] :
                  i \in {j \in DOMAIN rows : Numbers(lists[j], sources') # {}}}]
    BY <2>0
  <2>2. /\ rows \in Seq(old.claims) /\ lists \in Seq(Seq(Chunks))
        /\ \A i \in DOMAIN rows : i \in DOMAIN lists /\ ToSet(lists[i]) = rows[i].chunks
        /\ sources' \in Room /\ IsPrefix(sources, sources')
    BY <1>0, <2>1, RegisterClaimsKeeps
  <2>. DEFINE chunks == UNION {row.chunks : row \in old.claims}
              result == {[claim |-> {rows[i].claim}, cites |-> Numbers(lists[i], sources')] :
                           i \in {j \in DOMAIN rows : Numbers(lists[j], sources') # {}}}
  <2>3. ASSUME NEW i \in DOMAIN rows, NEW n \in Numbers(lists[i], sources')
        PROVE  n \in DOMAIN sources' /\ sources'[n] \in chunks
    <3>1. lists[i] \in Seq(Chunks) /\ ToSet(lists[i]) = rows[i].chunks /\ rows[i] \in old.claims
      BY <2>2
    <3>2. n \in DOMAIN sources' /\ sources'[n] \in ToSet(lists[i])
      BY <2>2, <3>1, NumbersName DEF Room
    <3>. QED
      BY <3>1, <3>2
  <2>4. Citable(c, chunks)
    BY <1>0, <1>12 DEF Known, RegisterClaims
  <2>5. Return(c) /\ UNCHANGED <<databaseVars, historyVars>>
    BY <1>12 DEF RegisterClaims
  <2>. HIDE DEF chunks
  <2>6. \A entry \in result : \A n \in entry.cites : n \in DOMAIN sources' /\ sources'[n] \in chunks
    BY <2>3
  <2>7. answer' = [answer EXCEPT ![c] = result]
    BY <2>1
  <2>. HIDE DEF result
  <2>. QED
    BY <2>2, <2>4, <2>5, <2>6, <2>7, AnswerCites
<1>. QED
  BY <1>1, <1>2, <1>3, <1>4, <1>5, <1>6, <1>7, <1>8, <1>9, <1>10, <1>11, <1>12 DEF Tool

LEMMA EvidenceStep ==
  ASSUME CitationInv, [Next]_vars
  PROVE  Evidence'
<1>0. TurnTyped /\ HistoryTyped /\ sources' \in Room /\ IsPrefix(sources, sources')
  BY SourcesStand DEF CitationInv, TurnInv
<1>1. CASE UNCHANGED <<call, answer, historyVars, active, deleted, enabled>>
  <2>1. ASSUME NEW x \in Calls PROVE Known(x, call[x])' /\ Cites(x)'
    <3>1. Known(x, call[x]) /\ Cites(x)
      BY DEF CitationInv, Evidence
    <3>. QED
      BY <1>0, <1>1, <3>1, OtherCall DEF Known, Live, historyVars
  <2>. QED
    BY <2>1 DEF Evidence
<1>2. CASE Environment
  <2>1. UNCHANGED <<call, answer>>
    BY <1>2 DEF Environment, Change, turnVars
  <2>2. ASSUME NEW x \in Calls PROVE Known(x, call[x])' /\ Cites(x)'
    <3>1. Known(x, call[x]) /\ Cites(x)
      BY DEF CitationInv, Evidence
    <3>2. /\ served'[x] = IF Running(x) THEN served[x] \cup {chunk \in Chunks : Live(chunk)'} ELSE served[x]
          /\ open'[x] = IF Running(x) THEN open[x] \cup enabled' ELSE open[x]
      BY <1>2 DEF Environment, Change
    <3>. QED
      BY <1>0, <2>1, <3>1, <3>2, OtherCall DEF Running
  <2>. QED
    BY <2>2 DEF Evidence
<1>3. CASE Agent \/ UNCHANGED vars
  BY <1>1, <1>3 DEF Agent, Write, Publish, Show, vars, turnVars, databaseVars
<1>. QED
  BY <1>2, <1>3, ToolKnows DEF Next

LEMMA HistoryStep ==
  ASSUME HistoryTyped, [Next]_vars
  PROVE  HistoryTyped'
<1>1. ASSUME NEW c \in Calls, Tool(c) PROVE HistoryTyped'
  BY <1>1
     DEF Tool, Begin, Unavailable, Fetch, Match, Context, Metadata, Candidates, SourcePages,
         HydratePages, HydrateClaims, Register, RegisterClaims, Quiet, historyVars, HistoryTyped
<1>2. CASE Agent \/ UNCHANGED vars
  BY <1>2 DEF Agent, Write, Publish, Show, vars, historyVars, HistoryTyped
<1>3. CASE Environment
  BY <1>3 DEF Environment, Change, HistoryTyped
<1>. QED
  BY <1>1, <1>2, <1>3 DEF Next

LEMMA CitationsStand == Spec => []CitationInv
<1>1. Init => CitationInv
  BY TurnStarts
<1>2. CitationInv /\ [Next]_vars => CitationInv'
  BY IInvStep, ClientStands, HistoryStep, EvidenceStep DEF CitationInv, TurnInv
<1>. QED
  BY <1>1, <1>2, PTL DEF Spec

\* What a tool cites was being served at some moment of its call: the version active,
\* the document not deleted, the knowledge base enabled and in the turn's scope
\* (_fetch_sources, read, _hydrate_pages), whatever is switched between its statements.
THEOREM SourcesServed == Spec => []SourcesWereServed
<1>1. CitationInv => SourcesWereServed
  BY DEF CitationInv, Evidence, Cites, Citable, SourcesWereServed
<1>. QED
  BY <1>1, CitationsStand, PTL

\* One answer never mixes two versions of a document.
THEOREM AnswersHaveOneVersion == Spec => []OneVersionPerAnswer
<1>1. CitationInv => OneVersionPerAnswer
  BY DEF CitationInv, Evidence, Cites, Citable, OneVersionPerAnswer
<1>. QED
  BY <1>1, CitationsStand, PTL
-------------------------------------------------------------------------------
(* The type invariant.                                                       *)

RowsTyped ==
  /\ active \in [Documents -> 0..MaxVersions]
  /\ deleted \subseteq Documents /\ ready \subseteq Documents
  /\ enabled \subseteq Bases /\ wiki \subseteq Bases
  /\ changes \in 0..MaxChanges

PastTyped == served \in [Calls -> SUBSET Chunks] /\ open \in [Calls -> SUBSET Bases]
ShownTyped == pieces \subseteq Nat /\ shown \subseteq Nat
AnswersTyped == answer \in [Calls -> SUBSET Entries]

Typed == RowsTyped /\ PastTyped /\ ShownTyped /\ AnswersTyped

LEMMA RowsTypedStep ==
  ASSUME RowsTyped, [Next]_vars
  PROVE  RowsTyped'
<1>1. ASSUME UNCHANGED <<databaseVars, changes>> PROVE RowsTyped'
  BY <1>1 DEF RowsTyped, databaseVars
<1>2. ASSUME NEW c \in Calls, Tool(c) PROVE UNCHANGED <<databaseVars, changes>>
  BY <1>2
     DEF Tool, Begin, Unavailable, Fetch, Match, Context, Metadata, Candidates, SourcePages,
         HydratePages, HydrateClaims, Register, RegisterClaims, Quiet
<1>3. ASSUME Agent PROVE UNCHANGED <<databaseVars, changes>>
  BY <1>3 DEF Agent, Write, Publish, Show
<1>4. ASSUME Environment PROVE RowsTyped'
  <2>1. changes' \in 0..MaxChanges
    BY <1>4, BoundsAssumption DEF Environment, Change, RowsTyped
  <2>2. CASE \E d \in Documents : Switch(d) \/ Unready(d) \/ Delete(d)
    <3>1. PICK d \in Documents : Switch(d) \/ Unready(d) \/ Delete(d)
      BY <2>2
    <3>2. CASE Switch(d)
      <4>1. active[d] + 1 \in 0..MaxVersions
        BY <3>2, BoundsAssumption DEF RowsTyped, Switch
      <4> QED
        BY <2>1, <3>2, <4>1 DEF RowsTyped, Switch
    <3> QED
      BY <2>1, <3>1, <3>2 DEF RowsTyped, Unready, Delete
  <2>3. CASE \E base \in Bases : SetEnabled(base) \/ SetWiki(base)
    BY <2>1, <2>3 DEF RowsTyped, SetEnabled, SetWiki
  <2>4. CASE \E page \in Pages : Replace(page)
    BY <2>1, <2>4 DEF RowsTyped, Replace
  <2> QED
    BY <1>4, <2>2, <2>3, <2>4 DEF Environment
<1> QED
  BY <1>1, <1>2, <1>3, <1>4 DEF Next, vars

LEMMA PastTypedStep ==
  ASSUME RowsTyped, PastTyped, [Next]_vars
  PROVE  PastTyped'
<1>1. ASSUME UNCHANGED historyVars PROVE PastTyped'
  BY <1>1 DEF PastTyped, historyVars
<1>2. ASSUME NEW c \in Calls, Tool(c), ~Begin(c) PROVE UNCHANGED historyVars
  BY <1>2
     DEF Tool, Unavailable, Fetch, Match, Context, Metadata, Candidates, SourcePages,
         HydratePages, HydrateClaims, Register, RegisterClaims, Quiet
<1>3. ASSUME NEW c \in Calls, Begin(c) PROVE PastTyped'
  <2>1. /\ served' = [served EXCEPT ![c] = {chunk \in Chunks : Live(chunk)}]
        /\ open' = [open EXCEPT ![c] = enabled]
    BY <1>3 DEF Begin
  <2> QED
    BY <2>1 DEF PastTyped, RowsTyped
<1>4. ASSUME Agent PROVE UNCHANGED historyVars
  BY <1>4 DEF Agent, Write, Publish, Show
<1>5. ASSUME Environment PROVE PastTyped'
  <2>1. enabled' \subseteq Bases
    BY RowsTypedStep DEF RowsTyped
  <2>2. Change
    BY <1>5 DEF Environment
  <2>3. served' \in [Calls -> SUBSET Chunks]
    BY <2>2 DEF Change, PastTyped
  <2>4. open' \in [Calls -> SUBSET Bases]
    BY <2>1, <2>2 DEF Change, PastTyped
  <2> QED
    BY <2>3, <2>4 DEF PastTyped
<1> QED
  BY <1>1, <1>2, <1>3, <1>4, <1>5 DEF Next, vars

LEMMA ShownTypedStep ==
  ASSUME ShownTyped, [Next]_vars
  PROVE  ShownTyped'
<1>1. ASSUME NEW c \in Calls, Tool(c) PROVE UNCHANGED <<pieces, shown>>
  BY <1>1
     DEF Tool, Begin, Unavailable, Fetch, Match, Context, Metadata, Candidates, SourcePages,
         HydratePages, HydrateClaims, Register, RegisterClaims, Quiet, turnVars
<1>2. ASSUME Environment PROVE UNCHANGED <<pieces, shown>>
  BY <1>2 DEF Environment, Change, turnVars
<1>3. ASSUME Agent PROVE ShownTyped'
  <2>1. CASE Write
    <3>1. pieces' \subseteq 1 .. MaxSources + 1 /\ shown' = shown
      BY <2>1 DEF Write
    <3>2. 1 .. MaxSources + 1 \subseteq Nat
      BY BoundsAssumption
    <3> QED
      BY <3>1, <3>2 DEF ShownTyped
  <2>2. CASE Publish
    BY <2>2 DEF Publish, ShownTyped
  <2>3. CASE Show
    BY <2>3 DEF Show, ShownTyped
  <2> QED
    BY <1>3, <2>1, <2>2, <2>3 DEF Agent
<1> QED
  BY <1>1, <1>2, <1>3 DEF Next, vars, turnVars, ShownTyped

\* The entries a call returns cite numbers there is room for.
LEMMA AnswersTypedStep ==
  ASSUME IInv, TurnTyped, AnswersTyped, [Next]_vars
  PROVE  AnswersTyped'
<1>1. ASSUME UNCHANGED answer PROVE AnswersTyped'
  BY <1>1 DEF AnswersTyped
<1>2. sources' \in Room
  BY SourcesStand
<1>3. sources' \in Seq(Chunks) /\ DOMAIN sources' \subseteq 1..MaxSources
  BY <1>2, BoundsAssumption DEF Room
<1>4. ASSUME NEW list \in Seq(Chunks) PROVE Numbers(list, sources') \subseteq 1..MaxSources
  BY <1>3, NumbersName
<1>5. ASSUME NEW c \in Calls, Register(c) PROVE AnswersTyped'
  <2>1. PICK list \in SetToAllKPermutations(call[c].found) :
          answer' = [answer EXCEPT ![c] = {[claim |-> {}, cites |-> Numbers(list, sources')]}]
    BY <1>5 DEF Register
  <2>2. Numbers(list, sources') \subseteq 1..MaxSources
    BY <1>4, RegisterKeeps
  <2>3. [claim |-> {}, cites |-> Numbers(list, sources')] \in Entries
    BY <2>2 DEF Entries
  <2> QED
    BY <2>1, <2>3 DEF AnswersTyped
<1>6. ASSUME NEW c \in Calls, RegisterClaims(c) PROVE AnswersTyped'
  <2>1. PICK rows \in SetToAllKPermutations(call[c].claims) : \E lists \in Lists(rows) :
          answer' = [answer EXCEPT ![c] =
            {[claim |-> {rows[i].claim}, cites |-> Numbers(lists[i], sources')] :
               i \in {j \in DOMAIN rows : Numbers(lists[j], sources') # {}}}]
    BY <1>6 DEF RegisterClaims
  <2>2. PICK lists \in Lists(rows) :
          answer' = [answer EXCEPT ![c] =
            {[claim |-> {rows[i].claim}, cites |-> Numbers(lists[i], sources')] :
               i \in {j \in DOMAIN rows : Numbers(lists[j], sources') # {}}}]
    BY <2>1
  <2>3. rows \in Seq(call[c].claims) /\ lists \in Seq(Seq(Chunks))
        /\ \A i \in DOMAIN rows : i \in DOMAIN lists
    BY RegisterClaimsKeeps
  <2>4. call[c].claims \subseteq Rows
    BY DEF IInv, CallsTyped, Locals, Rows
  <2>5. ASSUME NEW i \in DOMAIN rows
        PROVE  [claim |-> {rows[i].claim}, cites |-> Numbers(lists[i], sources')] \in Entries
    <3>1. rows[i] \in call[c].claims
      BY <2>3
    <3>2. rows[i].claim \in Claims
      BY <2>4, <3>1 DEF Rows
    <3>3. lists[i] \in Seq(Chunks)
      BY <2>3
    <3>4. Numbers(lists[i], sources') \subseteq 1..MaxSources
      BY <1>4, <3>3
    <3> QED
      BY <3>2, <3>4 DEF Entries
  <2> DEFINE result == {[claim |-> {rows[i].claim}, cites |-> Numbers(lists[i], sources')] :
                          i \in {j \in DOMAIN rows : Numbers(lists[j], sources') # {}}}
  <2>6. result \subseteq Entries
    BY <2>5
  <2>7. answer' = [answer EXCEPT ![c] = result]
    BY <2>2
  <2> HIDE DEF result
  <2> QED
    BY <2>6, <2>7 DEF AnswersTyped
<1>7. ASSUME NEW c \in Calls, Tool(c), ~Register(c), ~RegisterClaims(c) PROVE UNCHANGED answer
  BY <1>7
     DEF Tool, Begin, Unavailable, Fetch, Match, Context, Metadata, Candidates, SourcePages,
         HydratePages, HydrateClaims, Quiet, turnVars
<1>8. ASSUME Agent \/ Environment PROVE UNCHANGED answer
  BY <1>8 DEF Agent, Write, Publish, Show, Environment, Change, turnVars
<1> QED
  BY <1>1, <1>5, <1>6, <1>7, <1>8 DEF Next, vars, turnVars

LEMMA TypedStarts == Init => Typed
  BY BoundsAssumption
     DEF Init, Typed, RowsTyped, PastTyped, ShownTyped, AnswersTyped

\* Every statement, change and event keeps the state well-typed: no list of sources is
\* longer than there is room for, no answer cites a number beyond it.
THEOREM Typing == Spec => []TypeOK
<1>1. Init => CitationInv /\ Typed
  BY TurnStarts, TypedStarts
<1>2. CitationInv /\ Typed /\ [Next]_vars => Typed'
  BY RowsTypedStep, PastTypedStep, ShownTypedStep, AnswersTypedStep DEF Typed, CitationInv, TurnInv
<1>3. CitationInv /\ Typed => TypeOK
  BY DEF CitationInv, TurnInv, IInv, DatabaseTyped, CallsTyped, TurnTyped, Room, Typed, RowsTyped,
         PastTyped, ShownTyped, AnswersTyped, TypeOK
<1> QED
  BY <1>1, <1>2, <1>3, CitationsStand, PTL DEF Spec
-------------------------------------------------------------------------------
(* The functions of Algorithms, for any inputs: which claims fit the limits. *)

\* The running sums of a sequence of lengths.
Sums(s) == CHOOSE f : f = [n \in 0 .. Len(s) |-> IF n = 0 THEN 0 ELSE f[n - 1] + s[n]]

LEMMA SumsDefined ==
  ASSUME NEW s \in Seq(Nat)
  PROVE  /\ Sums(s) \in [0 .. Len(s) -> Nat] /\ Sums(s)[0] = 0
         /\ \A n \in 1 .. Len(s) : Sums(s)[n] = Sums(s)[n - 1] + s[n]
         /\ Characters(s) = Sums(s)[Len(s)]
<1>0. PICK N : N = Len(s)
  OBVIOUS
<1>. DEFINE Defines(f) == f = [n \in 0 .. N |-> IF n = 0 THEN 0 ELSE f[n - 1] + s[n]]
            step == [n \in 1 .. N |-> [sum \in Nat |-> sum + s[n]]]
<1>1. N \in Nat /\ \A n \in 1 .. N : s[n] \in Nat
  BY <1>0
<1>2. step \in [1 .. N -> [Nat -> Nat]]
  BY <1>1
<1>3. PICK f : Iterates(f, N, Nat, 0, step)
  <2>. HIDE DEF step
  <2>. QED
    BY <1>1, <1>2, Iteration
<1>4. f \in [0 .. N -> Nat] /\ f[0] = 0 /\ \A n \in 1 .. N : f[n] = f[n - 1] + s[n]
  <2>1. f \in [0 .. N -> Nat] /\ f[0] = 0 /\ \A n \in 1 .. N : f[n] = step[n][f[n - 1]]
    BY <1>3 DEF Iterates
  <2>2. \A n \in 1 .. N : n - 1 \in 0 .. N
    BY <1>1
  <2>. QED
    BY <2>1, <2>2
<1>5. Defines(f)
  BY <1>1, <1>4
<1>6. PICK sums : sums = Sums(s)
  OBVIOUS
<1>7. Defines(sums)
  BY <1>0, <1>5, <1>6 DEF Sums
<1>8. sums[0] = 0 /\ \A n \in 1 .. N : sums[n] = sums[n - 1] + s[n]
  BY <1>1, <1>7
<1>9. sums \in [0 .. N -> Nat]
  <2>1. sums[0] \in Nat /\ \A n \in 1 .. N : sums[n - 1] \in Nat => sums[n] \in Nat
    BY <1>1, <1>8
  <2>2. \A n \in 0 .. N : sums[n] \in Nat
    BY <1>1, <2>1, StaysInside
  <2>. QED
    BY <1>7, <2>2
<1>10. Characters(s) = sums[N]
  BY <1>0, <1>6 DEF Characters, Sums
<1>. QED
  BY <1>0, <1>6, <1>8, <1>9, <1>10

\* The sums of two lists put one after the other.
LEMMA CharactersOfBoth ==
  ASSUME NEW s \in Seq(Nat), NEW t \in Seq(Nat)
  PROVE  Characters(s \o t) = Characters(s) + Characters(t) /\ Characters(s) \in Nat
<1>0. PICK M, N : M = Len(s) /\ N = Len(t)
  OBVIOUS
<1>1. PICK u \in Seq(Nat) : u = s \o t
  <2>1. s \o t \in Seq(Nat)
    OBVIOUS
  <2>. QED
    BY <2>1
<1>2. M \in Nat /\ N \in Nat /\ Len(u) = M + N
  BY <1>0, <1>1
<1>3. PICK a, b, c : a = Sums(s) /\ b = Sums(t) /\ c = Sums(u)
  OBVIOUS
<1>4. /\ a \in [0 .. M -> Nat] /\ a[0] = 0 /\ \A n \in 1 .. M : a[n] = a[n - 1] + s[n]
      /\ Characters(s) = a[M]
  BY <1>0, <1>3, SumsDefined
<1>5. /\ b \in [0 .. N -> Nat] /\ b[0] = 0 /\ \A n \in 1 .. N : b[n] = b[n - 1] + t[n]
      /\ Characters(t) = b[N]
  BY <1>0, <1>3, SumsDefined
<1>6. /\ c \in [0 .. M + N -> Nat] /\ c[0] = 0 /\ \A n \in 1 .. M + N : c[n] = c[n - 1] + u[n]
      /\ Characters(u) = c[M + N]
  BY <1>2, <1>3, SumsDefined
<1>7. \A n \in 0 .. M : a[n] = c[n]
  <2>. DEFINE S == {n \in 0 .. M : a[n] = c[n]}
  <2>1. 0 \in S
    BY <1>2, <1>4, <1>6
  <2>2. ASSUME NEW n \in 0 + 1 .. M, n - 1 \in S PROVE n \in S
    <3>1. n \in 1 .. M /\ n \in 1 .. M + N /\ n \in 0 .. M
      BY <1>2
    <3>2. u[n] = s[n]
      BY <1>0, <1>1, <3>1
    <3>. QED
      BY <1>4, <1>6, <2>2, <3>1, <3>2
  <2>3. \A n \in 0 .. M : n \in S
    <3>. HIDE DEF S
    <3>. QED
      BY <1>2, <2>1, <2>2, InductionFrom
  <2>. QED
    BY <2>3
<1>8. \A n \in 0 .. N : a[M] + b[n] = c[M + n]
  <2>. DEFINE S == {n \in 0 .. N : a[M] + b[n] = c[M + n]}
  <2>1. 0 \in S
    <3>1. M \in 0 .. M /\ 0 \in 0 .. N /\ M + 0 = M
      BY <1>2
    <3>2. a[M] = c[M] /\ a[M] \in Nat
      BY <1>4, <1>7, <3>1
    <3>. QED
      BY <1>5, <3>1, <3>2
  <2>2. ASSUME NEW n \in 0 + 1 .. N, n - 1 \in S PROVE n \in S
    <3>1. n \in 1 .. N /\ n \in 0 .. N /\ n - 1 \in 0 .. N /\ M + n \in 1 .. M + N
          /\ (M + n) - 1 = M + (n - 1) /\ M + (n - 1) \in 0 .. M + N
      BY <1>2
    <3>2. u[M + n] = t[n]
      BY SMTT(60), <1>0, <1>1, <1>2, <3>1
    <3>3. c[M + n] = c[M + (n - 1)] + t[n] /\ b[n] = b[n - 1] + t[n]
      BY <1>5, <1>6, <3>1, <3>2
    <3>4. a[M] + b[n - 1] = c[M + (n - 1)]
      BY <2>2, <3>1
    <3>5. a[M] \in Nat /\ b[n - 1] \in Nat
      <4>1. M \in 0 .. M
        BY <1>2
      <4>. QED
        BY <1>4, <1>5, <3>1, <4>1
    <3>6. t[n] \in Nat
      BY <1>0, <3>1
    <3>. QED
      BY <3>1, <3>3, <3>4, <3>5, <3>6
  <2>3. \A n \in 0 .. N : n \in S
    <3>. HIDE DEF S
    <3>. QED
      BY <1>2, <2>1, <2>2, InductionFrom
  <2>. QED
    BY <2>3
<1>9. N \in 0 .. N /\ M \in 0 .. M
  BY <1>2
<1>. QED
  BY <1>1, <1>4, <1>5, <1>6, <1>8, <1>9

\* One more sequence is put behind the others.
LEMMA FlattenOfAppend ==
  ASSUME NEW T, NEW seqs \in Seq(Seq(T)), NEW s \in Seq(T)
  PROVE  FlattenSeq(Append(seqs, s)) = FlattenSeq(seqs) \o s
<1>1. PICK more \in Seq(Seq(T)) : more = Append(seqs, s)
  <2>1. Append(seqs, s) \in Seq(Seq(T))
    OBVIOUS
  <2>. QED
    BY <2>1
<1>2. PICK N \in Nat : N = Len(seqs)
  OBVIOUS
<1>3. Len(more) = N + 1 /\ more[N + 1] = s /\ \A i \in 1 .. N : more[i] = seqs[i]
  BY <1>1, <1>2
<1>4. PICK b : b = Joined(more)
  OBVIOUS
<1>5. /\ b[1] = more[1] /\ \A i \in 2 .. N + 1 : b[i] = b[i - 1] \o more[i]
      /\ FlattenSeq(more) = b[N + 1]
  <2>1. Len(more) # 0
    BY <1>3
  <2>. QED
    BY <1>3, <1>4, <2>1, JoinedDefined
<1>6. CASE N = 0
  <2>0. Len(seqs) = 0
    BY <1>2, <1>6
  <2>1. seqs = <<>>
    BY <2>0
  <2>2. FlattenSeq(more) = s
    BY <1>3, <1>5, <1>6
  <2>. QED
    BY <1>1, <2>1, <2>2, FlattenOfNone
<1>7. CASE N # 0
  <2>1. PICK a : a = Joined(seqs)
    OBVIOUS
  <2>2. /\ a[1] = seqs[1] /\ \A i \in 2 .. N : a[i] = a[i - 1] \o seqs[i]
        /\ FlattenSeq(seqs) = a[N]
    BY <1>2, <1>7, <2>1, JoinedDefined
  <2>3. \A i \in 1 .. N : a[i] = b[i]
    <3>. DEFINE S == {i \in 1 .. N : a[i] = b[i]}
    <3>1. 1 \in S
      BY <1>3, <1>5, <1>7, <2>2
    <3>2. ASSUME NEW i \in 1 + 1 .. N, i - 1 \in S PROVE i \in S
      <4>1. i \in 2 .. N /\ i \in 1 .. N /\ i \in 2 .. N + 1
        OBVIOUS
      <4>. QED
        BY <1>3, <1>5, <2>2, <3>2, <4>1
    <3>3. \A i \in 1 .. N : i \in S
      <4>. HIDE DEF S
      <4>. QED
        BY <3>1, <3>2, InductionFrom
    <3>. QED
      BY <3>3
  <2>4. b[N + 1] = b[N] \o s /\ N \in 1 .. N
    <3>1. N + 1 \in 2 .. N + 1 /\ (N + 1) - 1 = N /\ N \in 1 .. N
      BY <1>7
    <3>2. b[N + 1] = b[(N + 1) - 1] \o more[N + 1]
      BY <1>5, <3>1
    <3>. QED
      BY <1>3, <3>1, <3>2
  <2>. QED
    BY <1>1, <1>5, <2>2, <2>3, <2>4
<1>. QED
  BY <1>6, <1>7

LEMMA CharactersOfOne ==
  ASSUME NEW c \in Nat
  PROVE  Characters(<<c>>) = c
<1>1. <<c>> \in Seq(Nat) /\ Len(<<c>>) = 1 /\ <<c>>[1] = c
  OBVIOUS
<1>2. PICK s, sums : s = <<c>> /\ sums = Sums(s)
  OBVIOUS
<1>3. sums[0] = 0 /\ (\A n \in 1 .. 1 : sums[n] = sums[n - 1] + s[n]) /\ Characters(s) = sums[1]
  BY <1>1, <1>2, SumsDefined
<1>. QED
  BY <1>1, <1>2, <1>3

\* The characters of n claims are those of n - 1 claims and of the last one.
LEMMA CharactersOfFront ==
  ASSUME NEW page \in Seq(Nat), NEW n \in 1 .. Len(page)
  PROVE  /\ Characters(SubSeq(page, 1, n)) = Characters(SubSeq(page, 1, n - 1)) + page[n]
         /\ Characters(SubSeq(page, 1, n - 1)) \in Nat /\ page[n] \in Nat
<1>1. page[n] \in Nat /\ <<page[n]>> \in Seq(Nat) /\ n \in Nat
  OBVIOUS
<1>2. SubSeq(page, 1, n - 1) \in Seq(Nat) /\ Len(SubSeq(page, 1, n - 1)) = n - 1
  OBVIOUS
<1>3. SubSeq(page, 1, n) = SubSeq(page, 1, n - 1) \o <<page[n]>>
  OBVIOUS
<1>4. Characters(SubSeq(page, 1, n - 1) \o <<page[n]>>)
        = Characters(SubSeq(page, 1, n - 1)) + Characters(<<page[n]>>)
      /\ Characters(SubSeq(page, 1, n - 1)) \in Nat
  BY <1>1, <1>2, CharactersOfBoth
<1>. QED
  BY <1>1, <1>3, <1>4, CharactersOfOne

\* What is left while the pages are gone through.
Reasons == {"none", "claim_limit", "character_budget"}

Left == [stopped : BOOLEAN, claims : Nat, chars : Nat, reason : Reasons,
         taken : Seq(Seq(PositiveNat))]

\* What is taken of a page fits, or is the first claim of all.
LEMMA TakenFits ==
  ASSUME NEW left \in Left, NEW page \in Seq(PositiveNat), NEW perPage \in PositiveNat,
         NEW n, n = Taken(page, left, perPage)
  PROVE  /\ n \in Nat /\ n <= Len(page) /\ n <= left.claims
         /\ page # <<>> /\ left.taken = <<>> /\ left.claims # 0 => n # 0
         /\ n # 0 => \/ Characters(SubSeq(page, 1, n)) <= left.chars
                     \/ n = 1 /\ left.taken = <<>>
<1>1. /\ Len(page) \in Nat /\ left.claims \in Nat /\ left.chars \in Nat
      /\ perPage \in Nat /\ perPage # 0 /\ page \in Seq(Nat)
      /\ \A m \in 1 .. Len(page) : page[m] \in Nat /\ page[m] # 0
  BY DEF Left, PositiveNat
<1>. DEFINE three == {Len(page), perPage, left.claims}
            allowed == Min(three)
            fits == {k \in 0 .. allowed : \A m \in 1 .. k : FitsText(page, m, left)}
<1>2. allowed \in three /\ \A x \in three : allowed <= x
  <2>1. three \in SUBSET Nat /\ three # {}
    BY <1>1
  <2>. HIDE DEF three
  <2>. QED
    BY <2>1, MinExists
<1>3. allowed \in Nat /\ allowed <= Len(page) /\ allowed <= left.claims
  BY <1>1, <1>2
<1>4. n = Max(fits)
  BY DEF Taken, Allowed
<1>. HIDE DEF allowed
<1>5. n \in fits /\ \A k \in fits : n >= k
  <2>1. fits \in SUBSET (0 .. allowed) /\ fits # {}
    <3>1. 0 \in fits
      BY <1>3
    <3>. QED
      BY <3>1
  <2>. HIDE DEF fits
  <2>. QED
    BY <1>3, <1>4, <2>1, MaxExists
<1>6. n \in 0 .. allowed /\ \A m \in 1 .. n : FitsText(page, m, left)
  BY <1>5
<1>7. ASSUME page # <<>>, left.taken = <<>>, left.claims # 0 PROVE n # 0
  <2>1. Len(page) # 0
    BY <1>7
  <2>2. 1 \in 0 .. allowed
    BY <1>1, <1>2, <1>3, <1>7, <2>1
  <2>3. FitsText(page, 1, left)
    BY <1>7 DEF FitsText
  <2>4. \A m \in 1 .. 1 : m = 1
    OBVIOUS
  <2>5. 1 \in fits
    BY <2>2, <2>3, <2>4
  <2>. HIDE DEF fits
  <2>. QED
    BY <1>5, <2>5
<1>8. ASSUME n # 0, ~(n = 1 /\ left.taken = <<>>) PROVE Characters(SubSeq(page, 1, n)) <= left.chars
  <2>1. n \in 1 .. n /\ n \in 1 .. Len(page)
    BY <1>3, <1>6, <1>8
  <2>2. page[n] <= Positive(left.chars - Characters(SubSeq(page, 1, n - 1)))
    BY <1>6, <1>8, <2>1 DEF FitsText
  <2>3. PICK before, all : /\ before = Characters(SubSeq(page, 1, n - 1))
                           /\ all = Characters(SubSeq(page, 1, n))
    OBVIOUS
  <2>4. all = before + page[n] /\ before \in Nat /\ page[n] \in Nat /\ page[n] # 0
    BY <1>1, <2>1, <2>3, CharactersOfFront
  <2>5. page[n] <= left.chars - before
    BY <1>1, <2>2, <2>3, <2>4 DEF Positive
  <2>. QED
    BY <1>1, <2>3, <2>4, <2>5
<1>9. n \in Nat /\ n <= Len(page) /\ n <= left.claims
  BY <1>1, <1>3, <1>6
<1>. QED
  BY <1>7, <1>8, <1>9

Limited == [pages : PositiveNat, claims : PositiveNat, chars : PositiveNat]

\* The limits hold so far.
WithinLimits(left, limits) ==
  LET listed == FlattenSeq(left.taken)
  IN /\ Len(left.taken) <= limits.pages
     /\ Len(listed) + left.claims = limits.claims
     /\ \/ Characters(listed) + left.chars = limits.chars
        \/ left.stopped /\ Len(listed) = 1

\* The first page that has claims is the first one shown.
ShowsTheBest(left, pages, n) ==
  /\ left.taken = <<>> => ~left.stopped /\ \A m \in 1..n : pages[m] = <<>>
  /\ left.taken # <<>> =>
       LET listed == FlattenSeq(left.taken)
       IN /\ listed # <<>>
          /\ \E m \in 1..n : /\ pages[m] # <<>> /\ listed[1] = pages[m][1]
                            /\ \A k \in 1 .. m - 1 : pages[k] = <<>>

\* What a page adds to the claims shown.
LEMMA TakingSome ==
  ASSUME NEW limits \in Limited, NEW left \in Left, NEW page \in Seq(PositiveNat),
         NEW n \in Nat, n # 0, n <= Len(page), n <= left.claims,
         \/ Characters(SubSeq(page, 1, n)) <= left.chars
         \/ n = 1 /\ left.taken = <<>>,
         WithinLimits(left, limits), Len(left.taken) < limits.pages, ~left.stopped,
         NEW new \in Left, new.taken = Append(left.taken, SubSeq(page, 1, n)),
         new.claims = left.claims - n,
         new.chars = Positive(left.chars - Characters(SubSeq(page, 1, n))),
         new.stopped <=> new.chars = 0
  PROVE  /\ WithinLimits(new, limits)
         /\ FlattenSeq(new.taken) = FlattenSeq(left.taken) \o SubSeq(page, 1, n)
<1>1. /\ left.taken \in Seq(Seq(PositiveNat)) /\ left.claims \in Nat /\ left.chars \in Nat
      /\ limits.pages \in Nat /\ limits.claims \in Nat /\ limits.chars \in Nat /\ limits.chars # 0
  BY DEF Left, Limited, PositiveNat
<1>2. PICK front : front = SubSeq(page, 1, n)
  OBVIOUS
<1>3. front \in Seq(PositiveNat) /\ Len(front) = n /\ front \in Seq(Nat)
  BY <1>2 DEF PositiveNat
<1>4. PICK old, listed : old = FlattenSeq(left.taken) /\ listed = FlattenSeq(new.taken)
  OBVIOUS
<1>5. old \in Seq(PositiveNat) /\ listed = old \o front
  BY <1>1, <1>2, <1>3, <1>4, FlattenStays, FlattenOfAppend
<1>6. old \in Seq(Nat) /\ Len(listed) = Len(old) + n /\ Len(old) \in Nat
  <2>1. old \in Seq(Nat)
    BY <1>5 DEF PositiveNat
  <2>2. ASSUME NEW s \in Seq(Nat), NEW t \in Seq(Nat)
        PROVE  Len(s \o t) = Len(s) + Len(t) /\ Len(s) \in Nat
    OBVIOUS
  <2>3. Len(old \o front) = Len(old) + Len(front) /\ Len(old) \in Nat
    BY <1>3, <2>1, <2>2
  <2>. QED
    BY <1>3, <1>5, <2>1, <2>3
<1>7. PICK a, b, c : a = Characters(old) /\ b = Characters(front) /\ c = Characters(listed)
  OBVIOUS
<1>8. c = a + b /\ a \in Nat /\ b \in Nat
  <2>1. Characters(front) \in Nat
    BY <1>3, CharactersOfBoth
  <2>. QED
    BY <1>3, <1>5, <1>6, <1>7, <2>1, CharactersOfBoth
<1>9. /\ Len(left.taken) <= limits.pages /\ Len(old) + left.claims = limits.claims
      /\ a + left.chars = limits.chars
  BY <1>4, <1>7 DEF WithinLimits
<1>10. Len(new.taken) <= limits.pages
  <2>1. Len(new.taken) = Len(left.taken) + 1 /\ Len(left.taken) \in Nat
    BY <1>1, <1>2, <1>3
  <2>. QED
    BY <1>1, <2>1
<1>11. Len(listed) + new.claims = limits.claims
  BY <1>1, <1>6, <1>9
<1>12. c + new.chars = limits.chars \/ (new.stopped /\ Len(listed) = 1)
  <2>1. new.chars = Positive(left.chars - b)
    BY <1>2, <1>7
  <2>2. CASE b <= left.chars
    <3>1. new.chars = left.chars - b
      BY <1>1, <1>8, <2>1, <2>2 DEF Positive
    <3>. QED
      BY <1>1, <1>8, <1>9, <3>1
  <2>3. CASE ~(b <= left.chars)
    <3>1. n = 1 /\ left.taken = <<>>
      BY <1>2, <1>7, <2>3
    <3>2. old = <<>>
      BY <1>4, <3>1, FlattenOfNone
    <3>3. Len(listed) = 1
      BY <1>6, <3>1, <3>2
    <3>4. new.chars = 0
      BY <1>1, <1>8, <2>1, <2>3 DEF Positive
    <3>. QED
      BY <3>3, <3>4
  <2>. QED
    BY <2>2, <2>3
<1>13. WithinLimits(new, limits)
  BY <1>4, <1>7, <1>10, <1>11, <1>12 DEF WithinLimits
<1>. QED
  BY <1>2, <1>4, <1>5, <1>13

\* One iteration of the loop over the pages.
LEMMA TakePageHolds ==
  ASSUME NEW limits \in Limited, NEW pages \in Seq(Seq(PositiveNat)), NEW i \in 1 .. Len(pages),
         NEW left \in Left, NEW perPage \in PositiveNat,
         WithinLimits(left, limits), ShowsTheBest(left, pages, i - 1),
         NEW new, new = TakePage(left, pages[i], perPage, limits)
  PROVE  new \in Left /\ WithinLimits(new, limits) /\ ShowsTheBest(new, pages, i)
<1>1. /\ left.taken \in Seq(Seq(PositiveNat)) /\ left.claims \in Nat /\ left.chars \in Nat
      /\ left.stopped \in BOOLEAN /\ left.reason \in Reasons
      /\ limits.pages \in Nat /\ limits.pages # 0 /\ limits.claims \in Nat /\ limits.claims # 0
      /\ i \in Nat /\ i - 1 \in Nat
  BY DEF Left, Limited, PositiveNat
<1>2. PICK page \in Seq(PositiveNat) : page = pages[i]
  <2>1. pages[i] \in Seq(PositiveNat)
    OBVIOUS
  <2>. QED
    BY <2>1
<1>3. ASSUME ShowsTheBest(left, pages, i - 1), left.taken # <<>>,
             new.taken = left.taken \/ FlattenSeq(new.taken) = FlattenSeq(left.taken) \o SubSeq(page, 1, Taken(page, left, perPage)),
             new.taken # <<>>
      PROVE  ShowsTheBest(new, pages, i)
  <2>1. PICK listed \in Seq(PositiveNat) : listed = FlattenSeq(left.taken)
    <3>1. FlattenSeq(left.taken) \in Seq(PositiveNat)
      BY <1>1, FlattenStays
    <3>. QED
      BY <3>1
  <2>2. listed # <<>>
    BY <1>3, <2>1 DEF ShowsTheBest
  <2>3. PICK m \in 1 .. i - 1 : /\ pages[m] # <<>> /\ listed[1] = pages[m][1]
                               /\ \A k \in 1 .. m - 1 : pages[k] = <<>>
    BY <1>3, <2>1 DEF ShowsTheBest
  <2>4. m \in 1 .. i
    BY <1>1
  <2>5. FlattenSeq(new.taken) # <<>> /\ FlattenSeq(new.taken)[1] = listed[1]
    <3>1. CASE new.taken = left.taken
      BY <2>1, <2>2, <3>1
    <3>2. CASE FlattenSeq(new.taken) = listed \o SubSeq(page, 1, Taken(page, left, perPage))
      <4>1. Taken(page, left, perPage) \in Nat /\ Taken(page, left, perPage) <= Len(page)
        BY TakenFits
      <4>2. PICK front \in Seq(PositiveNat) : front = SubSeq(page, 1, Taken(page, left, perPage))
        <5>1. SubSeq(page, 1, Taken(page, left, perPage)) \in Seq(PositiveNat)
          BY <4>1
        <5>. QED
          BY <5>1
      <4>3. Len(listed) # 0
        BY <2>2
      <4>4. listed \o front # <<>> /\ (listed \o front)[1] = listed[1]
        BY <4>3
      <4>. QED
        BY <3>2, <4>2, <4>4
    <3>. QED
      BY <1>3, <2>1, <3>1, <3>2
  <2>. QED
    BY <1>3, <2>3, <2>4, <2>5 DEF ShowsTheBest
<1>4. CASE left.stopped
  <2>1. new = left
    BY <1>4 DEF TakePage
  <2>2. left.taken # <<>>
    BY <1>4 DEF ShowsTheBest
  <2>. QED
    BY <1>3, <2>1, <2>2
<1>5. CASE ~left.stopped /\ Exhausted(left, limits)
  <2>1. new = [left EXCEPT !.stopped = TRUE, !.reason = Because(@, "claim_limit")]
    BY <1>5 DEF TakePage
  <2>2. Because(left.reason, "claim_limit") \in Reasons
    BY <1>1 DEF Because, Reasons
  <2>3. /\ new \in Left /\ new.taken = left.taken /\ new.stopped /\ new.claims = left.claims
        /\ new.chars = left.chars
    BY <1>1, <2>1, <2>2 DEF Left
  <2>4. left.taken # <<>>
    <3>1. SUFFICES ASSUME left.taken = <<>> PROVE FALSE
      OBVIOUS
    <3>2. Len(left.taken) = 0 /\ FlattenSeq(left.taken) = <<>>
      BY <3>1, FlattenOfNone
    <3>3. left.claims = limits.claims
      BY <1>1, <3>2 DEF WithinLimits
    <3>. QED
      BY <1>1, <1>5, <3>2, <3>3 DEF Exhausted
  <2>5. WithinLimits(new, limits)
    BY <1>5, <2>3 DEF WithinLimits
  <2>. QED
    BY <1>3, <2>3, <2>4, <2>5
<1>6. CASE ~left.stopped /\ ~Exhausted(left, limits)
  <2>1. PICK n : n = Taken(page, left, perPage)
    OBVIOUS
  <2>2. /\ n \in Nat /\ n <= Len(page) /\ n <= left.claims
        /\ page # <<>> /\ left.taken = <<>> /\ left.claims # 0 => n # 0
        /\ n # 0 => \/ Characters(SubSeq(page, 1, n)) <= left.chars
                    \/ n = 1 /\ left.taken = <<>>
    BY <2>1, TakenFits
  <2>3. Len(left.taken) < limits.pages /\ left.claims # 0
    <3>1. Len(left.taken) \in Nat
      BY <1>1
    <3>. QED
      BY <1>1, <1>6, <3>1 DEF Exhausted
  <2>4. PICK chars : chars = Positive(left.chars - Characters(SubSeq(page, 1, n)))
    OBVIOUS
  <2>5. PICK front : front = SubSeq(page, 1, n)
    OBVIOUS
  <2>6. front \in Seq(PositiveNat) /\ front \in Seq(Nat) /\ Len(front) = n
    BY <2>2, <2>5 DEF PositiveNat
  <2>7. Characters(front) \in Nat
    BY <2>6, CharactersOfBoth
  <2>8. chars \in Nat
    BY <1>1, <2>4, <2>5, <2>7 DEF Positive
  <2>9. PICK reason \in Reasons :
          new = [stopped |-> n > 0 /\ chars = 0, claims |-> left.claims - n, chars |-> chars,
                 reason |-> reason,
                 taken |-> IF n = 0 THEN left.taken ELSE Append(left.taken, front)]
    <3>. DEFINE why == IF n < Allowed(page, left, perPage) \/ (n > 0 /\ chars = 0)
                       THEN "character_budget" ELSE left.reason
    <3>1. why \in Reasons
      BY <1>1 DEF Reasons
    <3>2. new = [stopped |-> n > 0 /\ chars = 0, claims |-> left.claims - n, chars |-> chars,
                 reason |-> why,
                 taken |-> IF n = 0 THEN left.taken ELSE Append(left.taken, front)]
      BY <1>2, <1>6, <2>1, <2>4, <2>5 DEF TakePage
    <3>. HIDE DEF why
    <3>. QED
      BY <3>1, <3>2
  <2>10. left.claims - n \in Nat
    <3>1. n \in Nat /\ n <= left.claims /\ left.claims \in Nat
      BY <1>1, <2>2
    <3>. QED
      BY <3>1
  <2>11. CASE n = 0
    <3>1. chars = left.chars
      <4>1. front = <<>>
        BY <2>6, <2>11
      <4>2. Characters(<<>>) = 0
        <5>1. <<>> \in Seq(Nat) /\ Len(<<>>) = 0
          OBVIOUS
        <5>. QED
          BY <5>1, SumsDefined
      <4>3. chars = Positive(left.chars - 0)
        BY <2>4, <2>5, <4>1, <4>2
      <4>. QED
        BY <1>1, <4>3 DEF Positive
    <3>2. /\ new \in Left /\ new.taken = left.taken /\ ~new.stopped /\ new.claims = left.claims
          /\ new.chars = left.chars
      <4>1. new = [stopped |-> FALSE, claims |-> left.claims, chars |-> left.chars,
                   reason |-> reason, taken |-> left.taken]
        <5>1. (n > 0 /\ chars = 0) = FALSE /\ left.claims - n = left.claims
          BY <1>1, <2>11
        <5>. QED
          BY <2>9, <2>11, <3>1, <5>1
      <4>. QED
        BY <1>1, <4>1 DEF Left
    <3>3. WithinLimits(new, limits)
      BY <1>6, <3>2 DEF WithinLimits
    <3>4. CASE left.taken = <<>>
      <4>1. page = <<>>
        BY <2>2, <2>3, <2>11, <3>4
      <4>2. \A m \in 1 .. i : m = i \/ m \in 1 .. i - 1
        BY <1>1
      <4>3. \A m \in 1 .. i - 1 : pages[m] = <<>>
        BY <3>4 DEF ShowsTheBest
      <4>. QED
        BY <1>2, <3>2, <3>3, <3>4, <4>1, <4>2, <4>3 DEF ShowsTheBest
    <3>5. CASE left.taken # <<>>
      BY <1>3, <3>2, <3>3, <3>5
    <3>. QED
      BY <3>4, <3>5
  <2>12. CASE n # 0
    <3>1. Append(left.taken, front) \in Seq(Seq(PositiveNat)) /\ Append(left.taken, front) # <<>>
      <4>1. front \in Seq(PositiveNat) /\ left.taken \in Seq(Seq(PositiveNat))
        BY <1>1, <2>6
      <4>2. PICK more : more = Append(left.taken, front)
        OBVIOUS
      <4>3. more \in Seq(Seq(PositiveNat)) /\ Len(more) # 0
        BY <4>1, <4>2
      <4>4. more # <<>>
        BY <4>3
      <4>. QED
        BY <4>2, <4>3, <4>4
    <3>2. PICK stopped \in BOOLEAN : stopped = (n > 0 /\ chars = 0)
      OBVIOUS
    <3>3. stopped <=> chars = 0
      <4>1. n > 0
        BY <2>2, <2>12
      <4>. QED
        BY <3>2, <4>1, Zenon
    <3>3a. new = [stopped |-> stopped, claims |-> left.claims - n, chars |-> chars,
                 reason |-> reason, taken |-> Append(left.taken, front)]
      BY <2>9, <2>12, <3>2
    <3>3b. /\ new \in Left /\ new.taken = Append(left.taken, front) /\ new.taken # <<>>
          /\ new.stopped = stopped /\ new.claims = left.claims - n /\ new.chars = chars
      BY SMTT(60), <2>8, <2>10, <3>1, <3>3a DEF Left
    <3>4. WithinLimits(new, limits) /\ FlattenSeq(new.taken) = FlattenSeq(left.taken) \o front
      <4>1. \/ Characters(SubSeq(page, 1, n)) <= left.chars
            \/ n = 1 /\ left.taken = <<>>
        BY <2>2, <2>12
      <4>2. n \in Nat /\ n # 0 /\ n <= Len(page) /\ n <= left.claims
        BY <2>2, <2>12
      <4>3. new.taken = Append(left.taken, SubSeq(page, 1, n))
        BY <2>5, <3>3b
      <4>4. new.stopped <=> new.chars = 0
        BY <3>3, <3>3b
      <4>5. new.chars = Positive(left.chars - Characters(SubSeq(page, 1, n)))
        BY <2>4, <3>3b
      <4>6. new.claims = left.claims - n /\ new \in Left
        BY <3>3b
      <4>. QED
        BY ZenonT(60), <1>6, <2>3, <2>5, <4>1, <4>2, <4>3, <4>4, <4>5, <4>6, TakingSome
    <3>5. CASE left.taken = <<>>
      <4>1. FlattenSeq(new.taken) = front
        <5>1. FlattenSeq(left.taken) = <<>> /\ <<>> \o front = front
          BY <2>6, <3>5, FlattenOfNone
        <5>. QED
          BY <3>4, <5>1
      <4>2. Len(front) # 0 /\ Len(page) # 0
        BY <2>2, <2>6, <2>12
      <4>3. front # <<>> /\ page # <<>> /\ front[1] = page[1]
        <5>1. n \in Nat /\ n # 0 /\ n <= Len(page)
          BY <2>2, <2>12
        <5>2. front[1] = page[1]
          BY <2>5, <5>1
        <5>. QED
          BY <4>2, <5>2
      <4>4. i \in 1 .. i /\ \A m \in 1 .. i - 1 : pages[m] = <<>>
        BY <1>1, <3>5 DEF ShowsTheBest
      <4>. QED
        BY <1>2, <3>3b, <3>4, <4>1, <4>3, <4>4 DEF ShowsTheBest
    <3>6. CASE left.taken # <<>>
      BY <1>3, <2>1, <2>5, <3>3b, <3>4, <3>6
    <3>. QED
      BY <3>5, <3>6
  <2>. QED
    BY <2>11, <2>12
<1>. QED
  BY <1>4, <1>5, <1>6

\* The steps H[i] lead from I[i - 1] to I[i], inside V.
Leads(V, N, base, H, I) ==
  /\ base \in I[0] /\ \A i \in 0 .. N : I[i] \subseteq V
  /\ \A i \in 1 .. N : \A v \in I[i - 1] : H[i][v] \in I[i]

Follows(f, V, N, base, H, I) ==
  /\ f \in [0 .. N -> V] /\ f[0] = base
  /\ \A i \in 1 .. N : f[i] = H[i][f[i - 1]]
  /\ \A i \in 0 .. N : f[i] \in I[i]

LEMMA InvariantIteration ==
  ASSUME NEW V, NEW N \in Nat, NEW base, NEW H, NEW I, Leads(V, N, base, H, I)
  PROVE  \E f : Follows(f, V, N, base, H, I)
<1>. USE DEF Leads
<1>. DEFINE G == [i \in 1 .. N |-> [v \in V |-> IF H[i][v] \in V THEN H[i][v] ELSE v]]
<1>1. G \in [1 .. N -> [V -> V]] /\ base \in V
  OBVIOUS
<1>2. PICK f : Iterates(f, N, V, base, G)
  <2>. HIDE DEF G
  <2>. QED
    BY <1>1, Iteration
<1>3. f \in [0 .. N -> V] /\ f[0] = base /\ \A i \in 1 .. N : f[i] = G[i][f[i - 1]]
  <2>. HIDE DEF G
  <2>. QED
    BY <1>2 DEF Iterates
<1>4. ASSUME NEW i \in 1 .. N, f[i - 1] \in I[i - 1] PROVE f[i] = H[i][f[i - 1]] /\ f[i] \in I[i]
  <2>1. i \in 0 .. N /\ i - 1 \in 0 .. N
    OBVIOUS
  <2>2. f[i - 1] \in V /\ H[i][f[i - 1]] \in I[i]
    BY <1>3, <1>4, <2>1
  <2>3. H[i][f[i - 1]] \in V
    BY <2>1, <2>2
  <2>. QED
    BY <1>3, <2>2, <2>3
<1>5. \A i \in 0 .. N : f[i] \in I[i]
  <2>. DEFINE S == {i \in 0 .. N : f[i] \in I[i]}
  <2>1. 0 \in S
    BY <1>3
  <2>2. ASSUME NEW i \in 0 + 1 .. N, i - 1 \in S PROVE i \in S
    BY <1>4, <2>2
  <2>3. \A i \in 0 .. N : i \in S
    <3>. HIDE DEF S
    <3>. QED
      BY <2>1, <2>2, InductionFrom
  <2>. QED
    BY <2>3
<1>6. \A i \in 1 .. N : f[i] = H[i][f[i - 1]]
  <2>1. \A i \in 1 .. N : i - 1 \in 0 .. N
    OBVIOUS
  <2>. QED
    BY <1>4, <1>5, <2>1
<1>. HIDE DEF G
<1>. QED
  BY <1>3, <1>5, <1>6 DEF Follows

\* What the loop over the pages ends with.
LEMMA SelectEnds ==
  ASSUME NEW limits \in Limited, NEW pages \in Seq(Seq(PositiveNat))
  PROVE  \E end \in Left : /\ Select(pages, limits).taken = end.taken
                           /\ WithinLimits(end, limits) /\ ShowsTheBest(end, pages, Len(pages))
<1>0. PICK N \in Nat : N = Len(pages)
  <2>1. Len(pages) \in Nat
    OBVIOUS
  <2>. QED
    BY <2>1
<1>. DEFINE perPage == IF N = 1 THEN limits.claims ELSE ClaimsEach
            start == [stopped |-> FALSE, claims |-> limits.claims, chars |-> limits.chars,
                      reason |-> "none", taken |-> <<>>]
            Defines(f) == f = [n \in 0 .. N |-> IF n = 0 THEN start
                                                ELSE TakePage(f[n - 1], pages[n], perPage, limits)]
            left == CHOOSE f : Defines(f)
            I == [n \in 0 .. N |->
                    {l \in Left : WithinLimits(l, limits) /\ ShowsTheBest(l, pages, n)}]
            H == [n \in 1 .. N |-> [l \in Left |-> TakePage(l, pages[n], perPage, limits)]]
<1>1. perPage \in PositiveNat
  BY RankingAssumption DEF Limited, PositiveNat
<1>2. start \in I[0]
  <2>1. start \in Left
    <3>1. <<>> \in Seq(Seq(PositiveNat)) /\ "none" \in Reasons
      BY DEF Reasons
    <3>. QED
      BY <3>1 DEF Left, Limited, PositiveNat
  <2>2. WithinLimits(start, limits)
    <3>1. FlattenSeq(start.taken) = <<>> /\ Len(<<>>) = 0
      BY FlattenOfNone
    <3>2. Characters(<<>>) = 0
      <4>1. <<>> \in Seq(Nat) /\ Len(<<>>) = 0
        OBVIOUS
      <4>. QED
        BY <4>1, SumsDefined
    <3>. QED
      BY <3>1, <3>2 DEF WithinLimits, Limited, PositiveNat
  <2>3. ShowsTheBest(start, pages, 0)
    BY DEF ShowsTheBest
  <2>. HIDE DEF start
  <2>. QED
    BY <2>1, <2>2, <2>3
<1>3. ASSUME NEW n \in 1 .. N, NEW l \in I[n - 1] PROVE H[n][l] \in I[n]
  <2>1. n - 1 \in 0 .. N /\ n \in 0 .. N /\ n \in 1 .. Len(pages)
    BY <1>0
  <2>2. l \in Left /\ WithinLimits(l, limits) /\ ShowsTheBest(l, pages, n - 1)
    BY <2>1
  <2>3. PICK new : new = TakePage(l, pages[n], perPage, limits)
    OBVIOUS
  <2>4. new \in Left /\ WithinLimits(new, limits) /\ ShowsTheBest(new, pages, n)
    <3>. HIDE DEF perPage
    <3>. QED
      BY <1>1, <2>1, <2>2, <2>3, TakePageHolds
  <2>5. H[n][l] = new
    BY <2>2, <2>3
  <2>. HIDE DEF H
  <2>. QED
    BY <2>1, <2>4, <2>5
<1>4. PICK f : Follows(f, Left, N, start, H, I)
  <2>1. \A n \in 0 .. N : I[n] \subseteq Left
    OBVIOUS
  <2>. HIDE DEF I, H, start
  <2>2. \A n \in 1 .. N : \A l \in I[n - 1] : H[n][l] \in I[n]
    BY <1>3
  <2>3. Leads(Left, N, start, H, I)
    BY <1>2, <2>1, <2>2 DEF Leads
  <2>. QED
    BY <2>3, InvariantIteration
<1>5. \A n \in 1 .. N : f[n] = TakePage(f[n - 1], pages[n], perPage, limits)
  <2>1. \A n \in 1 .. N : n - 1 \in 0 .. N
    OBVIOUS
  <2>. HIDE DEF perPage, start, I
  <2>. QED
    BY <1>4, <2>1 DEF Follows
<1>6. Defines(f)
  <2>1. ASSUME NEW n \in 0 .. N
        PROVE  f[n] = IF n = 0 THEN start ELSE TakePage(f[n - 1], pages[n], perPage, limits)
    <3>1. n = 0 \/ n \in 1 .. N
      OBVIOUS
    <3>. HIDE DEF perPage, start, I, H
    <3>. QED
      BY <1>4, <1>5, <3>1 DEF Follows
  <2>. HIDE DEF perPage, start, I, H
  <2>. QED
    BY <1>4, <2>1 DEF Follows
<1>7. Defines(left)
  <2>. HIDE DEF perPage, start
  <2>. QED
    BY <1>6
<1>8. left[N] = f[N]
  <2>. HIDE DEF left, perPage, start, I, H
  <2>1. left[0] = start /\ \A n \in 1 .. N : left[n] = TakePage(left[n - 1], pages[n], perPage, limits)
    BY <1>7
  <2>. DEFINE S == {n \in 0 .. N : left[n] = f[n]}
  <2>2. 0 \in S
    BY <1>4, <2>1 DEF Follows
  <2>3. ASSUME NEW n \in 0 + 1 .. N, n - 1 \in S PROVE n \in S
    BY <1>5, <2>1, <2>3
  <2>4. \A n \in 0 .. N : n \in S
    <3>. HIDE DEF S
    <3>. QED
      BY <2>2, <2>3, InductionFrom
  <2>. QED
    BY <2>4
<1>9. Select(pages, limits).taken = left[N].taken
  BY <1>0 DEF Select
<1>10. f[N] \in I[N]
  <2>. HIDE DEF I, H, start
  <2>. QED
    BY <1>4 DEF Follows
<1>11. f[N] \in Left /\ WithinLimits(f[N], limits) /\ ShowsTheBest(f[N], pages, N)
  BY <1>10
<1>. HIDE DEF left
<1>. QED
  BY <1>0, <1>8, <1>9, <1>11

\* SelectionHolds of what Select returns.
LEMMA SelectHolds ==
  ASSUME NEW limits \in Limited, NEW pages \in Seq(Seq(PositiveNat)),
         NEW listed, listed = FlattenSeq(Select(pages, limits).taken)
  PROVE  /\ Len(Select(pages, limits).taken) <= limits.pages
         /\ Len(listed) <= limits.claims
         /\ Characters(listed) <= limits.chars \/ Len(listed) = 1
         /\ \A n \in DOMAIN pages :
              pages[n] # <<>> /\ (\A m \in 1 .. n - 1 : pages[m] = <<>>)
                => listed # <<>> /\ listed[1] = pages[n][1]
<1>1. PICK end \in Left : /\ Select(pages, limits).taken = end.taken
                          /\ WithinLimits(end, limits) /\ ShowsTheBest(end, pages, Len(pages))
  BY SelectEnds
<1>2. listed = FlattenSeq(end.taken) /\ end.taken \in Seq(Seq(PositiveNat))
      /\ end.claims \in Nat /\ end.chars \in Nat /\ limits.claims \in Nat /\ limits.chars \in Nat
  BY <1>1 DEF Left, Limited, PositiveNat
<1>3. listed \in Seq(PositiveNat) /\ listed \in Seq(Nat)
  <2>1. listed \in Seq(PositiveNat)
    BY <1>2, FlattenStays
  <2>. QED
    BY <2>1 DEF PositiveNat
<1>4. Len(listed) \in Nat /\ Characters(listed) \in Nat
  BY <1>3, CharactersOfBoth
<1>5. Len(end.taken) <= limits.pages /\ Len(listed) + end.claims = limits.claims
      /\ (Characters(listed) + end.chars = limits.chars \/ Len(listed) = 1)
  BY <1>1, <1>2 DEF WithinLimits
<1>6. Len(listed) <= limits.claims /\ (Characters(listed) <= limits.chars \/ Len(listed) = 1)
  BY <1>2, <1>4, <1>5
<1>7. ASSUME NEW n \in DOMAIN pages, pages[n] # <<>>, \A m \in 1 .. n - 1 : pages[m] = <<>>
      PROVE  listed # <<>> /\ listed[1] = pages[n][1]
  <2>1. n \in 1 .. Len(pages) /\ Len(pages) \in Nat
    OBVIOUS
  <2>2. end.taken # <<>>
    BY <1>1, <1>7, <2>1 DEF ShowsTheBest
  <2>3. PICK m \in 1 .. Len(pages) : /\ pages[m] # <<>> /\ listed[1] = pages[m][1] /\ listed # <<>>
                                     /\ \A k \in 1 .. m - 1 : pages[k] = <<>>
    BY <1>1, <1>2, <2>2 DEF ShowsTheBest
  <2>4. m = n
    <3>1. ~(m < n)
      <4>1. m < n => m \in 1 .. n - 1
        BY <2>1, <2>3
      <4>. QED
        BY <1>7, <2>3, <4>1
    <3>2. ~(n < m)
      <4>1. n < m => n \in 1 .. m - 1
        BY <2>1, <2>3
      <4>. QED
        BY <1>7, <2>3, <4>1
    <3>. QED
      BY <2>1, <2>3, <3>1, <3>2
  <2>. QED
    BY <2>3, <2>4
<1>. QED
  BY <1>1, <1>5, <1>6, <1>7

-------------------------------------------------------------------------------
(* The choice among similar claims.                                          *)

\* A share of a whole is between nothing and the whole.
LEMMA ShareOfWhole ==
  ASSUME NEW s \in Nat, NEW a \in Nat, NEW c \in Nat, c # 0, a <= c
  PROVE  (s * a) \div c \in 0 .. s
<1>1. PICK q : q = (s * a) \div c
  OBVIOUS
<1>2. s * a \in Nat /\ s * a <= s * c /\ s * c \in Nat
  OBVIOUS
<1>3. q \in Int /\ c * q <= s * a /\ s * a < c * q + c
  BY <1>1, <1>2
<1>4. q >= 0
  BY <1>2, <1>3
<1>5. q <= s
  <2>1. CASE q >= s + 1
    <3>1. c * q >= c * (s + 1)
      BY <1>3, <2>1
    <3>2. c * (s + 1) = s * c + c
      OBVIOUS
    <3>. QED
      BY <1>2, <1>3, <3>1, <3>2
  <2>. QED
    BY <1>3, <2>1
<1>. QED
  BY <1>1, <1>3, <1>4, <1>5
LEMMA ShareOfEverything ==
  ASSUME NEW s \in Nat, NEW c \in Nat, c # 0
  PROVE  (s * c) \div c = s
OBVIOUS
LEMMA ShareOfNone ==
  ASSUME NEW s \in Nat, NEW c \in Nat, c # 0
  PROVE  (s * 0) \div c = 0
OBVIOUS
\* div
LEMMA DivAntitone ==
  ASSUME NEW s \in Nat, NEW a \in Nat, NEW b \in Nat, a # 0, a <= b
  PROVE  s \div b <= s \div a /\ s \div a \in Nat /\ s \div b \in Nat
<1>1. PICK p, q : p = s \div a /\ q = s \div b
  OBVIOUS
<1>2. /\ p \in Int /\ a * p <= s /\ s < a * p + a
      /\ q \in Int /\ b * q <= s /\ s < b * q + b
  BY <1>1
<1>3. p >= 0 /\ q >= 0
  BY <1>2
<1>4. q <= p
  <2>1. CASE q >= p + 1
    <3>1. b * q >= a * q
      BY <1>2, <1>3
    <3>2. a * q >= a * (p + 1)
      BY <1>2, <2>1
    <3>3. a * (p + 1) = a * p + a
      BY <1>2
    <3>. QED
      BY <1>2, <3>1, <3>2, <3>3
  <2>. QED
    BY <1>2, <2>1
<1>. QED
  BY <1>1, <1>2, <1>3, <1>4
LEMMA Slicing ==
  ASSUME NEW L \in Nat, NEW M \in Nat, M # 0, NEW S, S = (L + M - 1) \div M
  PROVE  S \in Nat /\ L <= S * M /\ (L # 0 => S # 0 /\ (S - 1) * M < L)
<1>1. S \in Int /\ M * S <= L + M - 1 /\ L + M - 1 < M * S + M
  OBVIOUS
<1>2. L <= S * M
  BY <1>1
<1>3. S >= 0
  BY <1>1
<1>4. ASSUME L # 0 PROVE S # 0 /\ (S - 1) * M < L
  BY <1>1, <1>4
<1>. QED
  BY <1>1, <1>2, <1>3, <1>4

\* A list of numbers has a greatest one on every set of places.
LEMMA GreatestOf ==
  ASSUME NEW N \in Nat, NEW S \in SUBSET (1 .. N), S # {}, NEW g \in [S -> Int]
  PROVE  \E i \in S : \A j \in S : g[j] <= g[i]
<1>. DEFINE Good(R) == \E i \in R : \A j \in R : g[j] <= g[i]
            T == {n \in 0 .. N : \A R \in SUBSET S : R # {} /\ R \subseteq 1 .. n => Good(R)}
<1>1. 0 \in T
  <2>1. ASSUME NEW R \in SUBSET S, R # {}, R \subseteq 1 .. 0 PROVE FALSE
    <3>1. PICK x \in R : x \in 1 .. 0
      BY <2>1
    <3>. QED
      BY <3>1
  <2>2. 0 \in 0 .. N
    OBVIOUS
  <2>. HIDE DEF Good
  <2>. QED
    BY <2>1, <2>2
<1>2. ASSUME NEW n \in 0 + 1 .. N, n - 1 \in T PROVE n \in T
  <2>1. n \in 0 .. N
    OBVIOUS
  <2>2. ASSUME NEW R \in SUBSET S, R # {}, R \subseteq 1 .. n PROVE Good(R)
    <3>1. CASE R \ {n} = {}
      <4>1. R = {n} /\ n \in S
        BY <2>2, <3>1
      <4>2. g[n] \in Int
        BY <4>1
      <4>. QED
        BY <4>1, <4>2
    <3>2. CASE R \ {n} # {}
      <4>1. R \ {n} \in SUBSET S /\ R \ {n} \subseteq 1 .. n - 1
        BY <2>2
      <4>2. Good(R \ {n})
        <5>. HIDE DEF Good
        <5>. QED
          BY <1>2, <3>2, <4>1
      <4>3. PICK i \in R \ {n} : \A j \in R \ {n} : g[j] <= g[i]
        BY <4>2
      <4>4. g[i] \in Int /\ \A j \in R : g[j] \in Int
        BY <4>3
      <4>5. CASE n \in R /\ g[n] > g[i]
        <5>1. ASSUME NEW j \in R PROVE g[j] <= g[n]
          <6>1. j = n \/ j \in R \ {n}
            OBVIOUS
          <6>. QED
            BY <4>3, <4>4, <4>5, <6>1
        <5>. QED
          BY <4>5, <5>1
      <4>6. CASE ~(n \in R /\ g[n] > g[i])
        <5>1. ASSUME NEW j \in R PROVE g[j] <= g[i]
          <6>1. j = n \/ j \in R \ {n}
            OBVIOUS
          <6>. QED
            BY <4>3, <4>4, <4>6, <6>1
        <5>. QED
          BY <4>3, <5>1
      <4>. QED
        BY <4>5, <4>6
    <3>. QED
      BY <3>1, <3>2
  <2>. HIDE DEF Good
  <2>. QED
    BY <2>1, <2>2
<1>3. N \in T
  <2>. HIDE DEF T
  <2>1. \A i \in 0 .. N : i \in T
    BY <1>1, <1>2, InductionFrom
  <2>. QED
    BY <2>1
<1>4. Good(S)
  <2>. HIDE DEF Good
  <2>. QED
    BY <1>3
<1>. QED
  BY <1>4

Claim == [score : Int, tokens : Tokens]

LEMMA JaccardBounds ==
  ASSUME NEW left \in Tokens, NEW right \in Tokens
  PROVE  /\ Jaccard(left, right) \in 0 .. Scale
         /\ left = right => Jaccard(left, right) = Scale
         /\ left # {} /\ left \cap right = {} => Jaccard(left, right) = 0
<1>1. Scale \in Nat /\ IsFiniteSet(left) /\ IsFiniteSet(right)
  BY RankingAssumption DEF Tokens
<1>2. CASE left \cup right = {}
  BY <1>1, <1>2 DEF Jaccard
<1>3. CASE left \cup right # {}
  <2>1. PICK a, c : a = Cardinality(left \cap right) /\ c = Cardinality(left \cup right)
    OBVIOUS
  <2>2. IsFiniteSet(left \cup right)
    BY <1>1, FS_Union
  <2>3. c \in Nat /\ c # 0
    BY <1>3, <2>1, <2>2, FS_CardinalityType, FS_EmptySet
  <2>4. a \in Nat /\ a <= c
    <3>1. left \cap right \in SUBSET (left \cup right)
      OBVIOUS
    <3>2. IsFiniteSet(left \cap right) /\ Cardinality(left \cap right) <= Cardinality(left \cup right)
      BY <2>2, <3>1, FS_Subset
    <3>. QED
      BY <2>1, <3>2, FS_CardinalityType
  <2>5. Jaccard(left, right) = (Scale * a) \div c
    BY <1>3, <2>1 DEF Jaccard
  <2>6. left = right => a = c
    BY <2>1
  <2>7. left \cap right = {} => a = 0
    BY <2>1, FS_EmptySet
  <2>8. (Scale * a) \div c \in 0 .. Scale
    BY <1>1, <2>3, <2>4, ShareOfWhole
  <2>9. (Scale * c) \div c = Scale /\ (Scale * 0) \div c = 0
    BY <1>1, <2>3, ShareOfEverything, ShareOfNone
  <2>. QED
    BY <2>5, <2>6, <2>7, <2>8, <2>9
<1>. QED
  BY <1>2, <1>3

\* What Best maximises.
Worth(i, selected, candidates) ==
  IF selected = <<>> THEN candidates[i].score ELSE Marginal(i, selected, candidates)

\* The similarity to the claims chosen that counts.
Closest(i, selected, candidates) ==
  Max({Jaccard(candidates[i].tokens, candidates[j].tokens) : j \in ToSet(selected)})

LEMMA ClosestCounts ==
  ASSUME NEW candidates \in Seq(Claim), NEW i \in DOMAIN candidates,
         NEW selected \in Seq(DOMAIN candidates), selected # <<>>
  PROVE  /\ Closest(i, selected, candidates) \in 0 .. Scale
         /\ \E j \in ToSet(selected) :
              Closest(i, selected, candidates) = Jaccard(candidates[i].tokens, candidates[j].tokens)
         /\ \A j \in ToSet(selected) :
              Jaccard(candidates[i].tokens, candidates[j].tokens) <= Closest(i, selected, candidates)
<1>. DEFINE J(j) == Jaccard(candidates[i].tokens, candidates[j].tokens)
            all == {J(j) : j \in ToSet(selected)}
<1>1. ToSet(selected) # {} /\ ToSet(selected) \subseteq DOMAIN candidates
  <2>1. 1 \in DOMAIN selected /\ \A k \in DOMAIN selected : selected[k] \in DOMAIN candidates
    OBVIOUS
  <2>. QED
    BY <2>1 DEF ToSet
<1>2. ASSUME NEW j \in ToSet(selected) PROVE J(j) \in 0 .. Scale
  <2>1. candidates[i].tokens \in Tokens /\ candidates[j].tokens \in Tokens
    <3>1. j \in DOMAIN candidates
      BY <1>1
    <3>2. candidates[i] \in Claim /\ candidates[j] \in Claim
      BY <3>1
    <3>. QED
      BY <3>2 DEF Claim
  <2>. QED
    BY <2>1, JaccardBounds
<1>3. Scale \in Nat
  BY RankingAssumption
<1>4. all \in SUBSET (0 .. Scale) /\ all # {}
  <2>. HIDE DEF J
  <2>. QED
    BY <1>1, <1>2
<1>5. Max(all) \in all /\ \A x \in all : Max(all) >= x
  <2>. HIDE DEF all
  <2>. QED
    BY <1>3, <1>4, MaxExists
<1>6. Max(all) = Closest(i, selected, candidates)
  BY DEF Closest
<1>7. PICK j \in ToSet(selected) : Max(all) = J(j)
  <2>. HIDE DEF J
  <2>. QED
    BY <1>5
<1>8. ASSUME NEW k \in ToSet(selected) PROVE J(k) <= Max(all)
  <2>1. J(k) \in all
    OBVIOUS
  <2>2. Max(all) >= J(k) /\ Max(all) \in 0 .. Scale /\ J(k) \in 0 .. Scale
    <3>. HIDE DEF J
    <3>. QED
      BY <1>2, <1>4, <1>5, <2>1
  <2>. HIDE DEF all, J
  <2>. QED
    BY <2>2
<1>9. Max(all) \in 0 .. Scale
  BY <1>4, <1>5
<1>. HIDE DEF all
<1>. QED
  BY <1>6, <1>7, <1>8, <1>9

LEMMA WorthTyped ==
  ASSUME NEW candidates \in Seq(Claim), NEW i \in DOMAIN candidates,
         NEW selected \in Seq(DOMAIN candidates)
  PROVE  /\ Worth(i, selected, candidates) \in Int /\ candidates[i].score \in Int
         /\ selected # <<>> => Worth(i, selected, candidates)
                                 = 7 * candidates[i].score - 3 * Closest(i, selected, candidates)
<1>1. candidates[i].score \in Int
  <2>1. candidates[i] \in Claim
    OBVIOUS
  <2>. QED
    BY <2>1 DEF Claim
<1>2. CASE selected = <<>>
  BY <1>1, <1>2 DEF Worth
<1>3. CASE selected # <<>>
  <2>1. Worth(i, selected, candidates)
          = 7 * candidates[i].score - 3 * Closest(i, selected, candidates)
    BY <1>3 DEF Worth, Marginal, Closest
  <2>2. Closest(i, selected, candidates) \in Int
    <3>1. Scale \in Nat
      BY RankingAssumption
    <3>. QED
      BY <1>3, <3>1, ClosestCounts
  <2>. QED
    BY <1>1, <2>1, <2>2
<1>. QED
  BY <1>2, <1>3

\* The claim taken is worth most of those left.
LEMMA BestIsBest ==
  ASSUME NEW candidates \in Seq(Claim), NEW selected \in Seq(DOMAIN candidates),
         NEW rest \in SUBSET DOMAIN candidates, rest # {}
  PROVE  /\ Best(rest, selected, candidates) \in rest
         /\ \A j \in rest : Worth(j, selected, candidates)
                              <= Worth(Best(rest, selected, candidates), selected, candidates)
<1>1. DOMAIN candidates = 1 .. Len(candidates) /\ Len(candidates) \in Nat
  OBVIOUS
<1>. DEFINE V(i) == Worth(i, selected, candidates)
            g == [i \in rest |-> V(i)]
            tops == {i \in rest : \A j \in rest : V(j) <= V(i)}
<1>2. g \in [rest -> Int]
  <2>1. \A i \in rest : V(i) \in Int
    BY WorthTyped
  <2>. HIDE DEF V
  <2>. QED
    BY <2>1
<1>3. tops # {} /\ tops \in SUBSET Nat
  <2>1. PICK i \in rest : \A j \in rest : g[j] <= g[i]
    <3>. HIDE DEF g
    <3>. QED
      BY <1>1, <1>2, GreatestOf
  <2>. HIDE DEF V
  <2>. QED
    BY <1>1, <2>1
<1>4. Best(rest, selected, candidates) = Min(tops)
  BY DEF Best, Worth
<1>5. Min(tops) \in tops
  <2>. HIDE DEF tops
  <2>. QED
    BY <1>3, MinExists
<1>. HIDE DEF V
<1>. QED
  BY <1>4, <1>5 DEF V
\* Each of the chosen is worth most of those left when it was chosen.
Greedy(s, candidates) ==
  \A i \in 1 .. Len(s) :
    /\ s[i] \notin ToSet(SubSeq(s, 1, i - 1))
    /\ \A j \in DOMAIN candidates \ ToSet(SubSeq(s, 1, i - 1)) :
         Worth(j, SubSeq(s, 1, i - 1), candidates) <= Worth(s[i], SubSeq(s, 1, i - 1), candidates)

\* n different candidates, chosen greedily.
ChosenOf(n, candidates) ==
  {s \in Seq(DOMAIN candidates) :
     /\ Len(s) = n /\ IsFiniteSet(ToSet(s)) /\ Cardinality(ToSet(s)) = n
     /\ Greedy(s, candidates)}

LEMMA ToSetOfAppend ==
  ASSUME NEW T, NEW s \in Seq(T), NEW x \in T
  PROVE  ToSet(Append(s, x)) = ToSet(s) \cup {x}
<1>1. PICK N \in Nat : N = Len(s)
  <2>1. Len(s) \in Nat
    OBVIOUS
  <2>. QED
    BY <2>1
<1>2. PICK t : t = Append(s, x)
  OBVIOUS
<1>3. /\ DOMAIN s = 1 .. N /\ DOMAIN t = 1 .. N + 1 /\ t[N + 1] = x
      /\ \A i \in 1 .. N : t[i] = s[i]
  BY <1>1, <1>2
<1>4. ASSUME NEW i \in 1 .. N + 1 PROVE t[i] \in ToSet(s) \cup {x}
  <2>1. i \in 1 .. N \/ i = N + 1
    OBVIOUS
  <2>. QED
    BY <1>3, <2>1 DEF ToSet
<1>5. ToSet(t) \subseteq ToSet(s) \cup {x}
  BY <1>3, <1>4 DEF ToSet
<1>6. ASSUME NEW y \in ToSet(s) PROVE y \in ToSet(t)
  <2>1. PICK i \in 1 .. N : y = s[i]
    BY <1>3 DEF ToSet
  <2>2. i \in 1 .. N + 1 /\ t[i] = y
    BY <1>3, <2>1
  <2>. QED
    BY <1>3, <2>2 DEF ToSet
<1>7. x \in ToSet(t)
  <2>1. N + 1 \in 1 .. N + 1
    OBVIOUS
  <2>. QED
    BY <1>3, <2>1 DEF ToSet
<1>. QED
  BY <1>2, <1>5, <1>6, <1>7

LEMMA SelectBestHolds ==
  ASSUME NEW candidates \in Seq(Claim), NEW n \in 1 .. Len(candidates),
         NEW s \in ChosenOf(n - 1, candidates)
  PROVE  SelectBest(s, candidates) \in ChosenOf(n, candidates)
<1>0. PICK N \in Nat : N = Len(candidates)
  <2>1. Len(candidates) \in Nat
    OBVIOUS
  <2>. QED
    BY <2>1
<1>1. /\ s \in Seq(DOMAIN candidates) /\ Len(s) = n - 1 /\ IsFiniteSet(ToSet(s))
      /\ Cardinality(ToSet(s)) = n - 1 /\ Greedy(s, candidates)
      /\ n \in 1 .. N /\ DOMAIN candidates = 1 .. N
  BY <1>0 DEF ChosenOf
<1>2. PICK rest : rest = DOMAIN candidates \ ToSet(s)
  OBVIOUS
<1>3. rest # {}
  <2>1. SUFFICES ASSUME rest = {} PROVE FALSE
    OBVIOUS
  <2>2. 1 .. N \in SUBSET ToSet(s)
    BY <1>1, <1>2, <2>1
  <2>3. Cardinality(1 .. N) <= n - 1
    BY <1>1, <2>2, FS_Subset
  <2>4. Cardinality(1 .. N) = N
    <3>1. Cardinality(1 .. N) = IF 1 > N THEN 0 ELSE N - 1 + 1
      BY FS_Interval
    <3>. QED
      BY <1>1, <3>1
  <2>. QED
    BY <1>1, <2>3, <2>4
<1>4. PICK b : b = Best(rest, s, candidates)
  OBVIOUS
<1>5. /\ b \in rest
      /\ \A j \in rest : Worth(j, s, candidates) <= Worth(b, s, candidates)
  <2>1. rest \in SUBSET DOMAIN candidates
    BY <1>2
  <2>. QED
    BY <1>1, <1>3, <1>4, <2>1, BestIsBest
<1>6. PICK t : t = Append(s, b)
  OBVIOUS
<1>7. b \in DOMAIN candidates /\ b \notin ToSet(s)
  BY <1>2, <1>5
<1>8. /\ t \in Seq(DOMAIN candidates) /\ Len(t) = n /\ t[n] = b
      /\ \A i \in 1 .. n - 1 : t[i] = s[i]
  BY <1>1, <1>6, <1>7
<1>9. IsFiniteSet(ToSet(t)) /\ Cardinality(ToSet(t)) = n
  <2>1. ToSet(t) = ToSet(s) \cup {b}
    BY <1>1, <1>6, <1>7, ToSetOfAppend
  <2>2. IsFiniteSet(ToSet(s) \cup {b}) /\ Cardinality(ToSet(s) \cup {b}) = (n - 1) + 1
    BY <1>1, <1>7, FS_AddElement
  <2>. QED
    BY <1>1, <2>1, <2>2
<1>10. ASSUME NEW i \in 1 .. n
       PROVE  /\ t[i] \notin ToSet(SubSeq(t, 1, i - 1))
              /\ \A j \in DOMAIN candidates \ ToSet(SubSeq(t, 1, i - 1)) :
                   Worth(j, SubSeq(t, 1, i - 1), candidates)
                     <= Worth(t[i], SubSeq(t, 1, i - 1), candidates)
  <2>1. CASE i = n
    <3>1. SubSeq(t, 1, n - 1) = s
      BY <1>1, <1>6, <1>7
    <3>. QED
      BY <1>2, <1>5, <1>7, <1>8, <2>1, <3>1
  <2>2. CASE i # n
    <3>1. i \in 1 .. n - 1 /\ i \in 1 .. Len(s)
      BY <1>1, <2>2
    <3>2. t[i] = s[i]
      BY <1>8, <3>1
    <3>3. SubSeq(t, 1, i - 1) = SubSeq(s, 1, i - 1)
      BY <1>1, <1>6, <1>7, <3>1
    <3>. QED
      BY <1>1, <3>1, <3>2, <3>3 DEF Greedy
  <2>. QED
    BY <2>1, <2>2
<1>11. Greedy(t, candidates)
  BY <1>8, <1>10 DEF Greedy
<1>12. SelectBest(s, candidates) = t
  BY <1>2, <1>4, <1>6 DEF SelectBest
<1>. QED
  BY <1>8, <1>9, <1>11, <1>12 DEF ChosenOf

LEMMA MMRChooses ==
  ASSUME NEW candidates \in Seq(Claim)
  PROVE  SelectMMR(candidates) \in ChosenOf(Len(candidates), candidates)
<1>0. PICK N \in Nat : N = Len(candidates)
  <2>1. Len(candidates) \in Nat
    OBVIOUS
  <2>. QED
    BY <2>1
<1>. DEFINE V == Seq(DOMAIN candidates)
            Defines(f) == f = [n \in 0 .. N |-> IF n = 0 THEN <<>> ELSE SelectBest(f[n - 1], candidates)]
            chosen == CHOOSE f : Defines(f)
            I == [n \in 0 .. N |-> ChosenOf(n, candidates)]
            H == [n \in 1 .. N |-> [s \in V |-> SelectBest(s, candidates)]]
<1>1. Leads(V, N, <<>>, H, I)
  <2>1. <<>> \in I[0]
    <3>1. <<>> \in V /\ Len(<<>>) = 0 /\ ToSet(<<>>) = {} /\ Greedy(<<>>, candidates)
      BY DEF ToSet, Greedy
    <3>. QED
      <4>1. 0 \in 0 .. N /\ IsFiniteSet({}) /\ Cardinality({}) = 0
        BY FS_EmptySet
      <4>2. <<>> \in ChosenOf(0, candidates)
        BY <3>1, <4>1 DEF ChosenOf
      <4>. QED
        BY <4>1, <4>2
  <2>2. \A n \in 0 .. N : I[n] \subseteq V
    BY DEF ChosenOf
  <2>3. ASSUME NEW n \in 1 .. N, NEW s \in I[n - 1] PROVE H[n][s] \in I[n]
    <3>1. n - 1 \in 0 .. N /\ n \in 0 .. N /\ n \in 1 .. Len(candidates)
      BY <1>0
    <3>2. s \in ChosenOf(n - 1, candidates) /\ s \in V
      BY <2>2, <3>1
    <3>3. SelectBest(s, candidates) \in ChosenOf(n, candidates)
      BY <3>1, <3>2, SelectBestHolds
    <3>. QED
      BY <3>1, <3>2, <3>3
  <2>. HIDE DEF V, H, I
  <2>. QED
    BY <2>1, <2>2, <2>3 DEF Leads
<1>2. PICK f : Follows(f, V, N, <<>>, H, I)
  <2>. HIDE DEF V, H, I
  <2>. QED
    BY <1>1, InvariantIteration
<1>3. f[0] = <<>> /\ \A n \in 1 .. N : f[n] = SelectBest(f[n - 1], candidates)
  <2>1. \A n \in 1 .. N : n - 1 \in 0 .. N
    OBVIOUS
  <2>. HIDE DEF I, V
  <2>. QED
    BY <1>2, <2>1 DEF Follows
<1>4. Defines(f)
  <2>1. ASSUME NEW n \in 0 .. N
        PROVE  f[n] = IF n = 0 THEN <<>> ELSE SelectBest(f[n - 1], candidates)
    <3>1. n = 0 \/ n \in 1 .. N
      OBVIOUS
    <3>. QED
      BY <1>3, <3>1
  <2>. HIDE DEF V, H, I
  <2>. QED
    BY <1>2, <2>1 DEF Follows
<1>5. Defines(chosen)
  BY <1>4
<1>6. chosen[N] = f[N]
  <2>. HIDE DEF chosen, V, H, I
  <2>1. chosen[0] = <<>> /\ \A n \in 1 .. N : chosen[n] = SelectBest(chosen[n - 1], candidates)
    BY <1>5
  <2>. DEFINE S == {n \in 0 .. N : chosen[n] = f[n]}
  <2>2. 0 \in S
    BY <1>3, <2>1
  <2>3. ASSUME NEW n \in 0 + 1 .. N, n - 1 \in S PROVE n \in S
    BY <1>3, <2>1, <2>3
  <2>4. \A n \in 0 .. N : n \in S
    <3>. HIDE DEF S
    <3>. QED
      BY <2>2, <2>3, InductionFrom
  <2>. QED
    BY <2>4
<1>7. SelectMMR(candidates) = chosen[N]
  BY <1>0 DEF SelectMMR
<1>8. f[N] \in I[N]
  <2>. HIDE DEF V, H, I
  <2>. QED
    BY <1>2 DEF Follows
<1>. HIDE DEF chosen
<1>. QED
  BY <1>0, <1>6, <1>7, <1>8

\* DuplicatesYield, of what SelectMMR returns.
Yields(claims, chosen) ==
  /\ ToSet(chosen) = DOMAIN claims /\ Len(chosen) = Len(claims)
  /\ \A i, j \in DOMAIN chosen :
       LET repeated == claims[chosen[i]]
           fresh    == claims[chosen[j]]
           before   == {claims[chosen[k]].tokens : k \in 1 .. i - 1}
       IN /\ repeated.tokens \in before
          /\ fresh.tokens # {} /\ \A tokens \in before : fresh.tokens \cap tokens = {}
          /\ 7 * fresh.score > 7 * repeated.score - 3 * Scale
          => j < i

\* The two scores of a repeated and a fresh claim cannot be in both orders.
LEMMA NotBothOrders ==
  ASSUME NEW sa \in Int, NEW sb \in Int, NEW whole \in Nat,
         7 * sb > 7 * sa - 3 * whole, 7 * sb <= 7 * sa - 3 * whole
  PROVE  FALSE
OBVIOUS

LEMMA DuplicatesYieldHolds ==
  ASSUME NEW claims \in Seq(Claim), NEW chosen, chosen = SelectMMR(claims)
  PROVE  Yields(claims, chosen)
<1>0. PICK N \in Nat : N = Len(claims)
  <2>1. Len(claims) \in Nat
    OBVIOUS
  <2>. QED
    BY <2>1
<1>1. /\ chosen \in Seq(DOMAIN claims) /\ Len(chosen) = N /\ IsFiniteSet(ToSet(chosen))
      /\ Cardinality(ToSet(chosen)) = N /\ Greedy(chosen, claims) /\ DOMAIN claims = 1 .. N
  BY <1>0, MMRChooses DEF ChosenOf
<1>2. DOMAIN chosen = 1 .. N /\ \A i \in 1 .. N : chosen[i] \in 1 .. N
  BY <1>1
<1>3. ToSet(chosen) = DOMAIN claims
  <2>1. ToSet(chosen) \in SUBSET (1 .. N)
    BY <1>2 DEF ToSet
  <2>2. IsFiniteSet(1 .. N) /\ Cardinality(1 .. N) = N
    <3>1. IsFiniteSet(1 .. N) /\ Cardinality(1 .. N) = IF 1 > N THEN 0 ELSE N - 1 + 1
      BY FS_Interval
    <3>. QED
      BY <3>1
  <2>. QED
    BY <1>1, <2>1, <2>2, FS_Subset
<1>4. ASSUME NEW i \in 1 .. N, NEW j \in 1 .. N,
             claims[chosen[i]].tokens \in {claims[chosen[k]].tokens : k \in 1 .. i - 1},
             claims[chosen[j]].tokens # {},
             \A tokens \in {claims[chosen[k]].tokens : k \in 1 .. i - 1} :
               claims[chosen[j]].tokens \cap tokens = {},
             7 * claims[chosen[j]].score > 7 * claims[chosen[i]].score - 3 * Scale,
             ~(j < i)
      PROVE  FALSE
  <2>1. PICK front : front = SubSeq(chosen, 1, i - 1)
    OBVIOUS
  <2>2. front \in Seq(DOMAIN claims) /\ Len(front) = i - 1 /\ \A k \in 1 .. i - 1 : front[k] = chosen[k]
    BY <1>1, <2>1
  <2>3. PICK k \in 1 .. i - 1 : claims[chosen[i]].tokens = claims[chosen[k]].tokens
    BY <1>4
  <2>4. front # <<>>
    BY <2>2, <2>3
  <2>5. \A x \in ToSet(front) : \E m \in 1 .. i - 1 : x = chosen[m]
    <3>1. DOMAIN front = 1 .. i - 1
      BY <2>2
    <3>. QED
      BY <2>2, <3>1 DEF ToSet
  <2>6. chosen[k] \in ToSet(front)
    <3>1. DOMAIN front = 1 .. i - 1
      BY <2>2
    <3>. QED
      BY <2>2, <3>1 DEF ToSet
  <2>7. PICK a, b : a = chosen[i] /\ b = chosen[j]
    OBVIOUS
  <2>8. a \in DOMAIN claims /\ b \in DOMAIN claims /\ chosen[k] \in DOMAIN claims
    BY <1>1, <1>2, <2>7
  <2>9. claims[a] \in Claim /\ claims[b] \in Claim /\ \A x \in 1 .. N : claims[x] \in Claim
    BY <1>1, <2>8
  <2>10. Scale \in Nat
    BY RankingAssumption
  <2>11. b \notin ToSet(front)
    <3>1. ASSUME NEW m \in 1 .. i - 1 PROVE chosen[m] # b
      <4>1. m \in 1 .. j - 1 /\ j \in 1 .. Len(chosen)
        BY <1>1, <1>4
      <4>2. b \notin ToSet(SubSeq(chosen, 1, j - 1))
        BY <2>7, <4>1, <1>1 DEF Greedy
      <4>3. PICK before \in Seq(DOMAIN claims) : before = SubSeq(chosen, 1, j - 1)
        <5>1. SubSeq(chosen, 1, j - 1) \in Seq(DOMAIN claims)
          BY <1>1, <4>1
        <5>. QED
          BY <5>1
      <4>4. m \in DOMAIN before /\ before[m] = chosen[m]
        BY <1>1, <4>1, <4>3
      <4>. QED
        BY <4>2, <4>3, <4>4 DEF ToSet
    <3>. QED
      BY <2>5, <3>1
  <2>12. Worth(b, front, claims) <= Worth(a, front, claims)
    <3>1. i \in 1 .. Len(chosen)
      BY <1>1
    <3>. QED
      BY <1>1, <2>1, <2>7, <2>8, <2>11, <3>1 DEF Greedy
  <2>13. PICK near, far : near = Closest(a, front, claims) /\ far = Closest(b, front, claims)
    OBVIOUS
  <2>14. near \in 0 .. Scale /\ near >= Scale
    <3>1. Closest(a, front, claims) \in 0 .. Scale
          /\ Jaccard(claims[a].tokens, claims[chosen[k]].tokens) <= Closest(a, front, claims)
      BY <2>2, <2>4, <2>6, <2>8, ClosestCounts
    <3>2. claims[a].tokens \in Tokens
      BY <2>9 DEF Claim
    <3>3. Jaccard(claims[a].tokens, claims[chosen[k]].tokens) = Scale
      BY <2>3, <2>7, <3>2, JaccardBounds
    <3>. QED
      BY <2>13, <3>1, <3>3
  <2>15. far = 0
    <3>1. PICK x \in ToSet(front) : far = Jaccard(claims[b].tokens, claims[x].tokens)
      BY <2>2, <2>4, <2>8, <2>13, ClosestCounts
    <3>2. PICK m \in 1 .. i - 1 : x = chosen[m]
      BY <2>5
    <3>3. claims[b].tokens # {} /\ claims[b].tokens \cap claims[x].tokens = {}
      BY <1>4, <2>7, <3>2
    <3>4. m \in 1 .. N
      OBVIOUS
    <3>5. claims[b].tokens \in Tokens /\ claims[x].tokens \in Tokens
      BY <1>2, <2>9, <3>2, <3>4 DEF Claim
    <3>. QED
      BY <3>1, <3>3, <3>5, JaccardBounds
  <2>16. /\ Worth(a, front, claims) = 7 * claims[a].score - 3 * near /\ claims[a].score \in Int
         /\ Worth(b, front, claims) = 7 * claims[b].score - 3 * far /\ claims[b].score \in Int
    BY <2>2, <2>4, <2>8, <2>13, WorthTyped
  <2>17. 7 * claims[b].score <= 7 * claims[a].score - 3 * near
    BY <2>10, <2>12, <2>14, <2>15, <2>16
  <2>18. 7 * claims[b].score > 7 * claims[a].score - 3 * Scale
    BY <1>4, <2>7
  <2>19. PICK whole \in Nat : whole = Scale
    BY <2>10
  <2>20. near = whole
    BY <2>14, <2>19
  <2>21. PICK sa \in Int, sb \in Int : sa = claims[a].score /\ sb = claims[b].score
    BY <2>16
  <2>22. 7 * sb > 7 * sa - 3 * whole /\ 7 * sb <= 7 * sa - 3 * whole
    BY <2>17, <2>18, <2>19, <2>20, <2>21
  <2>. QED
    BY <2>19, <2>21, <2>22, NotBothOrders
<1>. QED
  BY ZenonT(60), <1>0, <1>1, <1>2, <1>3, <1>4 DEF Yields

-------------------------------------------------------------------------------
(* Chunks.                                                                   *)

\* Two functions that start alike and go on alike are alike.
GoAlike(f, g, N) ==
  f[0] = g[0] /\ \A n \in 1 .. N : f[n - 1] = g[n - 1] => f[n] = g[n]

LEMMA Agreement ==
  ASSUME NEW N \in Nat, NEW f, NEW g, GoAlike(f, g, N)
  PROVE  f[N] = g[N] /\ \A n \in 0 .. N : f[n] = g[n]
<1>. USE DEF GoAlike
<1>. DEFINE S == {n \in 0 .. N : f[n] = g[n]}
<1>1. 0 \in S
  OBVIOUS
<1>2. ASSUME NEW n \in 0 + 1 .. N, n - 1 \in S PROVE n \in S
  BY <1>2
<1>3. \A n \in 0 .. N : n \in S
  <2>. HIDE DEF S
  <2>. QED
    BY <1>1, <1>2, InductionFrom
<1>. QED
  BY <1>3

\* Two sequences put together.
Concat(r, s, t) ==
  /\ Len(r) = Len(s) + Len(t)
  /\ \A i \in 1 .. Len(s) : r[i] = s[i]
  /\ \A i \in 1 .. Len(t) : r[Len(s) + i] = t[i]

LEMMA ConcatElements ==
  ASSUME NEW T, NEW s \in Seq(T), NEW t \in Seq(T), NEW r, r = s \o t
  PROVE  r \in Seq(T) /\ Concat(r, s, t)
<1>1. s \o t \in Seq(T) /\ Len(s \o t) = Len(s) + Len(t)
  OBVIOUS
<1>2. \A i \in 1 .. Len(s) : (s \o t)[i] = s[i]
  OBVIOUS
<1>3. \A i \in 1 .. Len(t) : (s \o t)[Len(s) + i] = t[i]
  OBVIOUS
<1>. QED
  BY <1>1, <1>2, <1>3 DEF Concat

\* A stripped text is a part of the text.
LEMMA StripStays ==
  ASSUME NEW text \in Seq(STRING)
  PROVE  Strip(text) \in Seq(STRING)
<1>0. PICK N \in Nat : N = Len(text)
  OBVIOUS
<1>1. PICK I : I = {i \in 1 .. Len(text) : text[i] # " "}
  OBVIOUS
<1>2. PICK first, last : /\ first = IF I # {} THEN Min(I) ELSE 0
                         /\ last = IF I # {} THEN Max(I) ELSE 0
  OBVIOUS
<1>3. Strip(text) = IF first = 0 THEN <<>> ELSE SubSeq(text, first, last)
  BY <1>1, <1>2, Zenon DEF Strip, SelectInSeq, SelectLastInSeq
<1>4. CASE I = {}
  BY <1>2, <1>3, <1>4
<1>5. CASE I # {}
  <2>1. I \in SUBSET Nat /\ I \in SUBSET (0 .. N) /\ I \in SUBSET (1 .. N)
    <3>1. \A i \in I : i \in 1 .. N
      BY <1>0, <1>1
    <3>. QED
      BY <3>1
  <2>2. Min(I) \in I /\ Max(I) \in I
    BY <1>5, <2>1, MinExists, MaxExists
  <2>3. first \in 1 .. N /\ last \in 1 .. N
    BY <1>2, <1>5, <2>1, <2>2
  <2>4. SubSeq(text, first, last) \in Seq(STRING)
    BY <1>0, <2>3
  <2>5. first # 0
    BY <2>3
  <2>6. Strip(text) = SubSeq(text, first, last)
    BY <1>3, <2>5
  <2>. QED
    BY <2>4, <2>6
<1>. QED
  BY <1>4, <1>5

Draft == [ordinal : Nat, kind : {"parent", "child"}, content : Seq(STRING),
          start : Nat, end : Nat, parent : Int]

\* The slices cover the text, and the last one has some of it.
LEMMA SlicesCover ==
  ASSUME NEW content \in Seq(STRING), content # <<>>, NEW S, S = Slices(content),
         NEW L, L = Len(content), NEW M, M = MaxChild
  PROVE  M \in Nat /\ M # 0 /\ L \in Nat /\ L # 0
         /\ S \in Nat /\ L <= S * M /\ S # 0 /\ (S - 1) * M < L
<1>1. M \in Nat /\ M # 0
  BY MaxChildAssumption
<1>2. L \in Nat /\ L # 0
  OBVIOUS
<1>3. S = (L + M - 1) \div M
  BY DEF Slices
<1>4. S \in Int /\ M * S <= L + M - 1 /\ L + M - 1 < M * S + M
  BY <1>1, <1>2, <1>3
<1>5. L <= S * M
  BY <1>1, <1>2, <1>4
<1>6. S >= 0
  BY <1>1, <1>2, <1>4
<1>7. S # 0 /\ (S - 1) * M < L
  BY <1>1, <1>2, <1>4
<1>. QED
  BY <1>1, <1>2, <1>4, <1>5, <1>6, <1>7

\* What the i-th child of a text is.
IsChild(c, o, p, content, i) ==
  /\ c \in Draft /\ c.ordinal = o /\ c.kind = "child" /\ c.parent = p
  /\ c.start = (i - 1) * MaxChild
  /\ i < Slices(content) => c.end = i * MaxChild
  /\ i = Slices(content) => c.end = Len(content)
  /\ c.content = SubSeq(content, c.start + 1, c.end)
  /\ Len(c.content) \in 1 .. MaxChild

\* The i-th child of a text has its i-th slice.
LEMMA ChildHolds ==
  ASSUME NEW content \in Seq(STRING), content # <<>>, NEW p \in Nat, NEW o \in Nat,
         NEW i \in 1 .. Slices(content), NEW c, c = Child(o, Parent(p, content), i)
  PROVE  IsChild(c, o, p, content, i)
<1>0. PICK M \in Nat : M = MaxChild /\ M # 0
  BY MaxChildAssumption
<1>1. PICK L \in Nat : L = Len(content) /\ L # 0
  OBVIOUS
<1>2. PICK S : S = Slices(content)
  OBVIOUS
<1>3. S \in Nat /\ L <= S * M /\ S # 0 /\ (S - 1) * M < L
  BY <1>0, <1>1, <1>2, SlicesCover
<1>4. PICK start \in Nat, next \in Nat : start = (i - 1) * M /\ next = i * M /\ next = start + M
  <2>1. i - 1 \in Nat /\ i \in Nat /\ i * M = (i - 1) * M + M
    BY <1>2, <1>3
  <2>2. (i - 1) * M \in Nat /\ i * M \in Nat
    BY <2>1
  <2>. QED
    BY <2>1, <2>2
<1>5. i < S => next < L
  <2>1. ASSUME i < S PROVE next < L
    <3>1. i <= S - 1 /\ S - 1 \in Nat /\ i \in Nat
      BY <1>2, <1>3, <2>1
    <3>2. i * M <= (S - 1) * M
      BY <3>1
    <3>. QED
      BY <1>3, <1>4, <3>1, <3>2
  <2>. QED
    BY <2>1
<1>6. i = S => next >= L
  BY <1>3, <1>4
<1>7. start < L
  <2>1. i = S \/ i < S
    BY <1>2, <1>3
  <2>. QED
    BY <1>0, <1>3, <1>4, <1>5, <2>1
<1>8. PICK stop \in Nat : stop = IF next < L THEN next ELSE L
  OBVIOUS
<1>9. start + 1 \in 1 .. L /\ stop \in 1 .. L /\ start < stop /\ stop <= start + M
  BY <1>0, <1>4, <1>7, <1>8
<1>10. PICK text \in Seq(STRING) : text = SubSeq(content, start + 1, stop)
  <2>1. SubSeq(content, start + 1, stop) \in Seq(STRING)
    BY <1>1, <1>9
  <2>. QED
    BY <2>1
<1>11. Len(text) = stop - start
  BY <1>1, <1>9, <1>10
<1>12. c = [ordinal |-> o, kind |-> "child", content |-> text,
            start |-> start, end |-> start + Len(text), parent |-> p]
  BY <1>0, <1>1, <1>4, <1>8, <1>10 DEF Child, Parent
<1>13. c.end = stop
  BY <1>9, <1>11, <1>12
<1>14. Len(text) \in 1 .. M
  BY <1>0, <1>9, <1>11
<1>15. (i < S => stop = i * M) /\ (i = S => stop = L)
  BY <1>4, <1>5, <1>6, <1>8
<1>16. c \in Draft
  <2>1. start + Len(text) \in Nat /\ p \in Int
    BY <1>9, <1>11
  <2>. QED
    BY <1>12, <2>1 DEF Draft
<1>. QED
  BY <1>0, <1>1, <1>2, <1>4, <1>10, <1>12, <1>13, <1>14, <1>15, <1>16 DEF IsChild

\* Of the first k sections, those that have a text.
Written(sections, k) == {s \in 1 .. k : Strip(sections[s]) # <<>>}

\* The parents of the drafts, in the order of the sections.
ParentsAt(at, drafts, sections, written) ==
  /\ \A s \in written : drafts[at[s]].content = Strip(sections[s])
  /\ \A s, t \in written : s < t => at[s] < at[t]
  /\ \A n \in 1 .. Len(drafts) : drafts[n].kind = "parent" <=> \E s \in written : at[s] = n

ParentsIn(drafts, sections, written) ==
  \E at \in [written -> 1 .. Len(drafts)] : ParentsAt(at, drafts, sections, written)

\* The children of the n-th draft are those after it up to the last.
TiledUpTo(drafts, n, last) ==
  /\ \A i \in 1 .. Len(drafts) : drafts[i].parent = n - 1 <=> i \in n + 1 .. last
  /\ drafts[n + 1].start = 0 /\ drafts[last].end = Len(drafts[n].content)
  /\ \A i \in n + 1 .. last :
       /\ i > n + 1 => drafts[i].start = drafts[i - 1].end
       /\ drafts[i].content = SubSeq(drafts[n].content, drafts[i].start + 1, drafts[i].end)
       /\ Len(drafts[i].content) \in 1 .. MaxChild

DraftsOf(sections, k) ==
  {drafts \in Seq(Draft) :
     /\ ParentsIn(drafts, sections, Written(sections, k))
     /\ \A n \in 1 .. Len(drafts) :
          /\ drafts[n].ordinal = n - 1 /\ drafts[n].parent < Len(drafts)
          /\ drafts[n].kind = "parent" =>
               \E last \in n + 1 .. Len(drafts) : TiledUpTo(drafts, n, last)}

\* One section adds a parent and its children.
LEMMA AddSectionHolds ==
  ASSUME NEW sections \in Seq(Seq(STRING)), NEW k \in 1 .. Len(sections),
         NEW drafts \in DraftsOf(sections, k - 1)
  PROVE  AddSection(drafts, sections[k]) \in DraftsOf(sections, k)
<1>0. PICK content \in Seq(STRING) : content = Strip(sections[k])
  <2>1. sections[k] \in Seq(STRING)
    OBVIOUS
  <2>. QED
    BY <2>1, StripStays
<1>1. drafts \in Seq(Draft) /\ ParentsIn(drafts, sections, Written(sections, k - 1))
  BY DEF DraftsOf
<1>2. PICK L \in Nat : L = Len(drafts)
  BY <1>1
<1>3. PICK at \in [Written(sections, k - 1) -> 1 .. L] :
        /\ \A s \in Written(sections, k - 1) : drafts[at[s]].content = Strip(sections[s])
        /\ \A s, t \in Written(sections, k - 1) : s < t => at[s] < at[t]
        /\ \A n \in 1 .. L :
             drafts[n].kind = "parent" <=> \E s \in Written(sections, k - 1) : at[s] = n
  BY <1>1, <1>2 DEF ParentsIn, ParentsAt
<1>4. k \in Nat /\ k # 0
  <2>1. Len(sections) \in Nat
    OBVIOUS
  <2>. QED
    BY <2>1
<1>7. \A n \in 1 .. L : drafts[n].ordinal = n - 1 /\ drafts[n].parent < L /\ drafts[n].parent \in Int
  <2>1. \A n \in 1 .. L : drafts[n] \in Draft
    BY <1>1, <1>2
  <2>2. \A n \in 1 .. L : drafts[n].ordinal = n - 1 /\ drafts[n].parent < L
    BY <1>2 DEF DraftsOf
  <2>. QED
    BY <2>1, <2>2 DEF Draft
<1>5. CASE content = <<>>
  <2>1. AddSection(drafts, sections[k]) = drafts
    BY <1>0, <1>5 DEF AddSection
  <2>2. Written(sections, k) = Written(sections, k - 1)
    <3>1. \A s \in 1 .. k : s = k \/ s \in 1 .. k - 1
      BY <1>4
    <3>2. \A s \in 1 .. k - 1 : s \in 1 .. k
      BY <1>4
    <3>. QED
      BY <1>0, <1>5, <3>1, <3>2 DEF Written
  <2>3. DraftsOf(sections, k) = DraftsOf(sections, k - 1)
    BY <2>2 DEF DraftsOf
  <2>. QED
    BY <2>1, <2>3
<1>6. CASE content # <<>>
  <2>1. PICK S \in Nat : S = Slices(content) /\ S # 0
    <3>1. PICK q, n, m : q = Slices(content) /\ n = Len(content) /\ m = MaxChild
      OBVIOUS
    <3>2. q \in Nat /\ q # 0
      BY <1>6, <3>1, SlicesCover
    <3>. QED
      BY <3>1, <3>2
  <2>2. PICK parent : parent = Parent(L, content)
    OBVIOUS
  <2>3. PICK children : children = [i \in 1 .. S |-> Child(L + i, parent, i)]
    OBVIOUS
  <2>4. parent \in Draft /\ parent.content = content /\ parent.kind = "parent"
        /\ parent.ordinal = L /\ parent.parent = -1
    <3>1. Len(content) \in Nat /\ -1 \in Int
      OBVIOUS
    <3>. QED
      BY <1>2, <2>2, <3>1 DEF Parent, Draft
  <2>5. \A i \in 1 .. S : IsChild(children[i], L + i, L, content, i)
    <3>1. ASSUME NEW i \in 1 .. S PROVE IsChild(children[i], L + i, L, content, i)
      <4>1. PICK o \in Nat : o = L + i
        OBVIOUS
      <4>2. i \in 1 .. Slices(content)
        BY <2>1
      <4>3. children[i] = Child(o, Parent(L, content), i)
        BY <2>2, <2>3, <4>1
      <4>. QED
        BY <1>6, <4>1, <4>2, <4>3, ChildHolds
    <3>. QED
      BY <3>1
  <2>6. children \in Seq(Draft) /\ Len(children) = S
    <3>1. \A i \in 1 .. S : children[i] \in Draft
      BY <2>5 DEF IsChild
    <3>2. DOMAIN children = 1 .. S /\ children = [i \in 1 .. S |-> children[i]]
      BY <2>3
    <3>3. children \in [1 .. S -> Draft]
      BY <3>1, <3>2
    <3>. QED
      BY <3>3
  <2>7. PICK more \in Seq(Draft) : more = Append(drafts, parent) \o children
    <3>1. PICK front \in Seq(Draft) : front = Append(drafts, parent)
      <4>1. Append(drafts, parent) \in Seq(Draft)
        BY <1>1, <2>4
      <4>. QED
        BY <4>1
    <3>2. front \o children \in Seq(Draft)
      BY <2>6
    <3>. QED
      BY <3>1, <3>2
  <2>8. more = AddSection(drafts, sections[k])
    BY <1>0, <1>2, <1>6, <2>1, <2>2, <2>3, <2>7 DEF AddSection
  <2>9. /\ Len(more) = L + 1 + S
        /\ \A i \in 1 .. L : more[i] = drafts[i]
        /\ more[L + 1] = parent
        /\ \A i \in 1 .. S : more[L + 1 + i] = children[i]
    <3>1. PICK front \in Seq(Draft) : front = Append(drafts, parent)
      <4>1. Append(drafts, parent) \in Seq(Draft)
        BY <1>1, <2>4
      <4>. QED
        BY <4>1
    <3>2. Len(front) = L + 1 /\ front[L + 1] = parent /\ \A i \in 1 .. L : front[i] = drafts[i]
      BY <1>1, <1>2, <3>1
    <3>3. more = front \o children
      BY <2>7, <3>1
    <3>4. Concat(more, front, children)
      BY <2>6, <3>1, <3>3, ConcatElements
    <3>5. Len(front) = L + 1 /\ Len(children) = S
      BY <2>6, <3>2
    <3>6. Len(more) = L + 1 + S /\ \A i \in 1 .. S : more[L + 1 + i] = children[i]
      BY <3>4, <3>5 DEF Concat
    <3>7. \A i \in 1 .. L + 1 : more[i] = front[i]
      BY <3>4, <3>5 DEF Concat
    <3>8. more[L + 1] = front[L + 1] /\ \A i \in 1 .. L : more[i] = front[i]
      BY <3>7
    <3>. QED
      BY <3>2, <3>6, <3>8
  <2>10. Written(sections, k) = Written(sections, k - 1) \cup {k} /\ k \notin Written(sections, k - 1)
         /\ \A s \in Written(sections, k - 1) : s < k
    <3>1. \A s \in 1 .. k : s = k \/ s \in 1 .. k - 1
      BY <1>4
    <3>2. \A s \in 1 .. k - 1 : s \in 1 .. k /\ s < k
      BY <1>4
    <3>3. k \in 1 .. k
      BY <1>4
    <3>. QED
      BY <1>0, <1>6, <3>1, <3>2, <3>3 DEF Written
  <2>11. ParentsIn(more, sections, Written(sections, k))
    <3>1. PICK W : W = Written(sections, k - 1)
      OBVIOUS
    <3>2. PICK new : new = [s \in W \cup {k} |-> IF s = k THEN L + 1 ELSE at[s]]
      OBVIOUS
    <3>3. new[k] = L + 1 /\ \A s \in W : new[s] = at[s] /\ at[s] \in 1 .. L /\ new[s] \in 1 .. L
      BY <1>3, <2>10, <3>1, <3>2
    <3>4. new \in [W \cup {k} -> 1 .. Len(more)]
      <4>1. \A n \in 1 .. L : n \in 1 .. Len(more)
        BY <2>9
      <4>2. L + 1 \in 1 .. Len(more)
        BY <2>9
      <4>3. \A s \in W \cup {k} : new[s] \in 1 .. Len(more)
        BY <3>3, <4>1, <4>2
      <4>. QED
        BY <3>2, <4>3
    <3>5. \A s \in W \cup {k} : more[new[s]].content = Strip(sections[s])
      <4>1. more[new[k]].content = Strip(sections[k])
        BY <1>0, <2>4, <2>9, <3>3
      <4>2. ASSUME NEW s \in W PROVE more[new[s]].content = Strip(sections[s])
        <5>1. more[new[s]] = drafts[at[s]]
          BY <2>9, <3>3
        <5>. QED
          BY <1>3, <3>1, <5>1
      <4>. QED
        BY <4>1, <4>2
    <3>6. \A s, t \in W \cup {k} : s < t => new[s] < new[t]
      <4>1. ASSUME NEW s \in W, NEW t \in W, s < t PROVE new[s] < new[t]
        BY <1>3, <3>1, <3>3, <4>1
      <4>2. \A s \in W : new[s] < new[k] /\ s < k /\ ~(k < s) /\ ~(k < k)
        <5>1. \A s \in W : s \in Nat /\ s < k
          BY <1>4, <2>10, <3>1 DEF Written
        <5>. QED
          BY <1>4, <3>3, <5>1
      <4>3. ~(k < k)
        BY <1>4
      <4>. QED
        BY <4>1, <4>2, <4>3
    <3>7. \A n \in 1 .. Len(more) : more[n].kind = "parent" <=> \E s \in W \cup {k} : new[s] = n
      <4>. SUFFICES ASSUME NEW n \in 1 .. Len(more)
                    PROVE  more[n].kind = "parent" <=> \E s \in W \cup {k} : new[s] = n
        OBVIOUS
      <4>1. CASE n \in 1 .. L
        <5>1. n # new[k] /\ more[n] = drafts[n]
          BY <2>9, <3>3, <4>1
        <5>2. (\E s \in W \cup {k} : new[s] = n) <=> \E s \in W : at[s] = n
          BY <3>3, <5>1
        <5>. QED
          BY <1>3, <3>1, <4>1, <5>1, <5>2
      <4>2. CASE n = L + 1
        BY <2>4, <2>9, <3>3, <4>2
      <4>3. CASE n \in L + 2 .. L + 1 + S
        <5>1. PICK i \in 1 .. S : n = L + 1 + i
          <6>1. n - (L + 1) \in 1 .. S
            BY <4>3
          <6>. QED
            BY <6>1, <4>3
        <5>2. more[n].kind = "child"
          BY <2>5, <2>9, <5>1 DEF IsChild
        <5>3. \A s \in W \cup {k} : new[s] # n
          BY <3>3, <4>3
        <5>. QED
          BY <5>2, <5>3
      <4>. QED
        BY <2>9, <4>1, <4>2, <4>3
    <3>8. PICK V : V = W \cup {k}
      OBVIOUS
    <3>9. ParentsAt(new, more, sections, V)
      BY <3>5, <3>6, <3>7, <3>8 DEF ParentsAt
    <3>10. ParentsIn(more, sections, V)
      BY <3>4, <3>8, <3>9 DEF ParentsIn
    <3>. QED
      BY <2>10, <3>1, <3>8, <3>10
  <2>12. \A n \in 1 .. Len(more) : \/ n \in 1 .. L /\ more[n] = drafts[n]
                                   \/ n = L + 1 /\ more[n] = parent
                                   \/ \E i \in 1 .. S : n = L + 1 + i /\ more[n] = children[i]
    <3>. SUFFICES ASSUME NEW n \in 1 .. Len(more)
                  PROVE  \/ n \in 1 .. L /\ more[n] = drafts[n]
                         \/ n = L + 1 /\ more[n] = parent
                         \/ \E i \in 1 .. S : n = L + 1 + i /\ more[n] = children[i]
      OBVIOUS
    <3>1. CASE n \in L + 2 .. L + 1 + S
      <4>1. n - (L + 1) \in 1 .. S /\ n = L + 1 + (n - (L + 1))
        BY <3>1
      <4>. QED
        BY <2>9, <4>1
    <3>2. n \in 1 .. L \/ n = L + 1 \/ n \in L + 2 .. L + 1 + S
      BY <2>9
    <3>. QED
      BY <2>9, <3>1, <3>2
  <2>13. \A n \in 1 .. Len(more) : more[n].ordinal = n - 1 /\ more[n].parent < Len(more)
    <3>2. parent.ordinal = L /\ parent.parent = -1
      BY <2>4
    <3>3. \A i \in 1 .. S : children[i].ordinal = L + i /\ children[i].parent = L
      BY <2>5 DEF IsChild
    <3>4. ASSUME NEW n \in 1 .. L PROVE more[n].ordinal = n - 1 /\ more[n].parent < L + 1 + S
      <4>1. PICK p \in Int : p = drafts[n].parent /\ p < L /\ drafts[n].ordinal = n - 1
        BY <1>7
      <4>2. p < L + 1 + S
        BY <4>1
      <4>3. more[n] = drafts[n]
        BY <2>9
      <4>. QED
        BY <4>1, <4>2, <4>3, Zenon
    <3>5. more[L + 1].ordinal = (L + 1) - 1 /\ more[L + 1].parent < L + 1 + S
      BY <2>9, <3>2
    <3>6. ASSUME NEW i \in 1 .. S
          PROVE  more[L + 1 + i].ordinal = (L + 1 + i) - 1 /\ more[L + 1 + i].parent < L + 1 + S
      <4>1. more[L + 1 + i].ordinal = L + i /\ more[L + 1 + i].parent = L
        BY <2>9, <3>3
      <4>. QED
        BY <4>1
    <3>7. Len(more) = L + 1 + S
      BY <2>9
    <3>. QED
      BY <2>12, <3>4, <3>5, <3>6, <3>7
  <2>14. ASSUME NEW n \in 1 .. L, drafts[n].kind = "parent"
         PROVE  \E last \in n + 1 .. Len(more) : TiledUpTo(more, n, last)
    <3>1. PICK last \in n + 1 .. L : TiledUpTo(drafts, n, last)
      BY <1>2, <2>14 DEF DraftsOf
    <3>2. \A i \in n + 1 .. last : i \in 1 .. L /\ more[i] = drafts[i]
      BY <2>9
    <3>3. n + 1 \in n + 1 .. last /\ last \in n + 1 .. last /\ last \in n + 1 .. Len(more)
      BY <2>9
    <3>4. \A i \in n + 1 .. last : i > n + 1 => i - 1 \in n + 1 .. last
      OBVIOUS
    <3>5. ASSUME NEW i \in 1 .. Len(more) PROVE more[i].parent = n - 1 <=> i \in n + 1 .. last
      <4>1. CASE i \in 1 .. L
        BY <1>2, <2>9, <3>1, <4>1 DEF TiledUpTo
      <4>2. CASE i \notin 1 .. L
        <5>1. more[i].parent = -1 \/ more[i].parent = L
          BY ZenonT(60), <2>4, <2>5, <2>12, <4>2 DEF IsChild
        <5>2. more[i].parent # n - 1
          BY <5>1
        <5>3. i \notin n + 1 .. last
          BY <3>2, <4>2
        <5>. QED
          BY <5>2, <5>3
      <4>. QED
        BY <4>1, <4>2
    <3>. QED
      <4>1. more[n] = drafts[n]
        BY <2>9
      <4>2. more[n + 1].start = 0 /\ more[last].end = Len(more[n].content)
        BY <3>1, <3>2, <3>3, <4>1 DEF TiledUpTo
      <4>3. ASSUME NEW i \in n + 1 .. last
            PROVE  /\ i > n + 1 => more[i].start = more[i - 1].end
                   /\ more[i].content = SubSeq(more[n].content, more[i].start + 1, more[i].end)
                   /\ Len(more[i].content) \in 1 .. MaxChild
        <5>1. more[i] = drafts[i] /\ (i > n + 1 => more[i - 1] = drafts[i - 1])
          BY <3>2, <3>4
        <5>. QED
          BY <3>1, <4>1, <5>1 DEF TiledUpTo
      <4>4. TiledUpTo(more, n, last)
        BY <3>5, <4>2, <4>3 DEF TiledUpTo
      <4>. QED
        BY <3>3, <4>4
  <2>15. \E last \in L + 1 + 1 .. Len(more) : TiledUpTo(more, L + 1, last)
    <3>1. L + 1 + S \in L + 1 + 1 .. Len(more)
      BY <2>1, <2>9
    <3>2. ASSUME NEW i \in 1 .. Len(more)
          PROVE  more[i].parent = (L + 1) - 1 <=> i \in L + 1 + 1 .. L + 1 + S
      <4>1. CASE i \in 1 .. L
        <5>1. more[i].parent < L /\ more[i].parent \in Int
          BY <1>7, <2>9, <4>1
        <5>. QED
          BY <4>1, <5>1
      <4>2. CASE i = L + 1
        <5>1. more[i].parent = -1
          BY <2>4, <2>9, <4>2
        <5>2. -1 # (L + 1) - 1 /\ i \notin L + 1 + 1 .. L + 1 + S
          BY <4>2
        <5>. QED
          BY <5>1, <5>2
      <4>3. ASSUME NEW j \in 1 .. S, i = L + 1 + j, more[i] = children[j]
            PROVE  more[i].parent = (L + 1) - 1 <=> i \in L + 1 + 1 .. L + 1 + S
        <5>1. more[i].parent = L
          BY <2>5, <4>3 DEF IsChild
        <5>. QED
          BY <4>3, <5>1
      <4>. QED
        BY <2>12, <4>1, <4>2, <4>3
    <3>3. \A i \in L + 1 + 1 .. L + 1 + S : \E j \in 1 .. S : i = L + 1 + j /\ more[i] = children[j]
      <4>1. ASSUME NEW i \in L + 1 + 1 .. L + 1 + S PROVE i \in 1 .. Len(more) /\ i \notin 1 .. L /\ i # L + 1
        BY <2>9
      <4>. QED
        BY <2>12, <4>1
    <3>4. PICK M \in Nat : M = MaxChild
      BY MaxChildAssumption
    <3>5. more[L + 1 + 1].start = 0
      <4>1. 1 \in 1 .. S
        BY <2>1
      <4>2. children[1].start = (1 - 1) * M
        BY <2>5, <3>4, <4>1 DEF IsChild
      <4>. QED
        BY <2>9, <4>1, <4>2
    <3>6. more[L + 1 + S].end = Len(content)
      <4>1. S \in 1 .. S
        BY <2>1
      <4>. QED
        BY <2>1, <2>5, <2>9, <4>1 DEF IsChild
    <3>7. ASSUME NEW i \in L + 1 + 1 .. L + 1 + S
          PROVE  /\ i > L + 1 + 1 => more[i].start = more[i - 1].end
                 /\ more[i].content = SubSeq(content, more[i].start + 1, more[i].end)
                 /\ Len(more[i].content) \in 1 .. MaxChild
      <4>1. PICK j \in 1 .. S : i = L + 1 + j /\ more[i] = children[j]
        BY <3>3
      <4>2. IsChild(children[j], L + j, L, content, j)
        BY <2>5
      <4>3. ASSUME i > L + 1 + 1 PROVE more[i].start = more[i - 1].end
        <5>1. j - 1 \in 1 .. S /\ i - 1 = L + 1 + (j - 1) /\ j - 1 < S
          <6>1. i = L + 1 + j /\ j # 1
            BY <4>1, <4>3
          <6>. QED
            BY <6>1
        <5>2. IsChild(children[j - 1], L + (j - 1), L, content, j - 1) /\ more[i - 1] = children[j - 1]
          BY <2>5, <2>9, <5>1
        <5>3. children[j - 1].end = (j - 1) * MaxChild
          BY <2>1, <5>1, <5>2 DEF IsChild
        <5>. QED
          BY <4>1, <4>2, <5>2, <5>3 DEF IsChild
      <4>. QED
        BY <4>1, <4>2, <4>3 DEF IsChild
    <3>8. more[L + 1].content = content
      BY <2>4, <2>9
    <3>. QED
      BY <3>1, <3>2, <3>5, <3>6, <3>7, <3>8 DEF TiledUpTo
  <2>16. \A n \in 1 .. Len(more) : more[n].kind = "parent" =>
           \E last \in n + 1 .. Len(more) : TiledUpTo(more, n, last)
    <3>1. \A i \in 1 .. S : children[i].kind # "parent"
      BY <2>5 DEF IsChild
    <3>. QED
      BY <2>12, <2>14, <2>15, <3>1
  <2>17. more \in DraftsOf(sections, k)
    BY <2>11, <2>13, <2>16 DEF DraftsOf
  <2>. QED
    BY <2>8, <2>17
<1>. QED
  BY <1>5, <1>6

LEMMA ChunkHolds ==
  ASSUME NEW sections \in Seq(Seq(STRING))
  PROVE  Chunk(sections) \in DraftsOf(sections, Len(sections))
<1>0. PICK N \in Nat : N = Len(sections)
  <2>1. Len(sections) \in Nat
    OBVIOUS
  <2>. QED
    BY <2>1
<1>. DEFINE V == Seq(Draft)
            Defines(f) == f = [n \in 0 .. N |-> IF n = 0 THEN <<>> ELSE AddSection(f[n - 1], sections[n])]
            all == CHOOSE f : Defines(f)
            I == [n \in 0 .. N |-> DraftsOf(sections, n)]
            H == [n \in 1 .. N |-> [d \in V |-> AddSection(d, sections[n])]]
<1>1. Leads(V, N, <<>>, H, I)
  <2>1. <<>> \in I[0]
    <3>1. Written(sections, 0) = {}
      BY DEF Written
    <3>2. ParentsIn(<<>>, sections, {})
      <4>1. PICK at : at = [s \in {} |-> 0]
        OBVIOUS
      <4>2. at \in [{} -> 1 .. Len(<<>>)]
        BY <4>1
      <4>3. ParentsAt(at, <<>>, sections, {})
        BY DEF ParentsAt
      <4>. QED
        BY <4>2, <4>3 DEF ParentsIn
    <3>3. <<>> \in Seq(Draft) /\ Len(<<>>) = 0
      OBVIOUS
    <3>4. PICK none \in Seq(Draft) : none = <<>>
      BY <3>3
    <3>5. \A n \in 1 .. Len(none) : FALSE
      BY <3>3, <3>4
    <3>6. ParentsIn(none, sections, Written(sections, 0))
      BY <3>1, <3>2, <3>4
    <3>7. none \in DraftsOf(sections, 0)
      BY <3>5, <3>6 DEF DraftsOf
    <3>8. 0 \in 0 .. N /\ I[0] = DraftsOf(sections, 0)
      OBVIOUS
    <3>. QED
      BY <3>4, <3>7, <3>8
  <2>2. \A n \in 0 .. N : I[n] \subseteq V
    BY DEF DraftsOf
  <2>3. ASSUME NEW n \in 1 .. N, NEW d \in I[n - 1] PROVE H[n][d] \in I[n]
    <3>1. n - 1 \in 0 .. N /\ n \in 0 .. N /\ n \in 1 .. Len(sections)
      BY <1>0
    <3>2. d \in DraftsOf(sections, n - 1) /\ d \in V
      BY <2>2, <3>1
    <3>3. AddSection(d, sections[n]) \in DraftsOf(sections, n)
      BY <3>1, <3>2, AddSectionHolds
    <3>4. H[n][d] = AddSection(d, sections[n])
      BY <3>2
    <3>5. I[n] = DraftsOf(sections, n)
      BY <3>1
    <3>. QED
      BY <3>3, <3>4, <3>5
  <2>. HIDE DEF V, H, I
  <2>. QED
    BY <2>1, <2>2, <2>3 DEF Leads
<1>2. PICK f : Follows(f, V, N, <<>>, H, I)
  <2>. HIDE DEF V, H, I
  <2>. QED
    BY <1>1, InvariantIteration
<1>3. f[0] = <<>> /\ \A n \in 1 .. N : f[n] = AddSection(f[n - 1], sections[n])
  <2>1. \A n \in 1 .. N : n - 1 \in 0 .. N
    OBVIOUS
  <2>. HIDE DEF I, V
  <2>. QED
    BY <1>2, <2>1 DEF Follows
<1>4. Defines(f)
  <2>1. ASSUME NEW n \in 0 .. N
        PROVE  f[n] = IF n = 0 THEN <<>> ELSE AddSection(f[n - 1], sections[n])
    <3>1. n = 0 \/ n \in 1 .. N
      OBVIOUS
    <3>. QED
      BY <1>3, <3>1
  <2>. HIDE DEF V, H, I
  <2>. QED
    BY <1>2, <2>1 DEF Follows
<1>5. Defines(all)
  BY <1>4
<1>6. all[N] = f[N]
  <2>. HIDE DEF all, V, H, I
  <2>1. all[0] = <<>> /\ \A n \in 1 .. N : all[n] = AddSection(all[n - 1], sections[n])
    BY <1>5
  <2>2. GoAlike(all, f, N)
    BY <1>3, <2>1 DEF GoAlike
  <2>. QED
    BY <2>2, Agreement
<1>7. Chunk(sections) = all[N]
  BY <1>0 DEF Chunk
<1>8. f[N] \in I[N]
  <2>. HIDE DEF V, H, I
  <2>. QED
    BY <1>2 DEF Follows
<1>. HIDE DEF all
<1>. QED
  BY <1>0, <1>6, <1>7, <1>8

\* ChildrenTileTheirParent, of what Chunk returns.
Tiled(sections, drafts) ==
  LET written == {s \in DOMAIN sections : Strip(sections[s]) # <<>>}
  IN /\ \E at \in [written -> DOMAIN drafts] :
          /\ \A s \in written : drafts[at[s]].content = Strip(sections[s])
          /\ \A s, t \in written : s < t => at[s] < at[t]
          /\ \A n \in DOMAIN drafts : drafts[n].kind = "parent" <=> \E s \in written : at[s] = n
     /\ \A n \in DOMAIN drafts :
          /\ drafts[n].ordinal = n - 1
          /\ drafts[n].kind = "parent" =>
               \E last \in n + 1 .. Len(drafts) :
                 /\ \A i \in DOMAIN drafts : drafts[i].parent = n - 1 <=> i \in n + 1 .. last
                 /\ drafts[n + 1].start = 0 /\ drafts[last].end = Len(drafts[n].content)
                 /\ \A i \in n + 1 .. last :
                      /\ i > n + 1 => drafts[i].start = drafts[i - 1].end
                      /\ drafts[i].content
                           = SubSeq(drafts[n].content, drafts[i].start + 1, drafts[i].end)
                      /\ Len(drafts[i].content) \in 1 .. MaxChild

LEMMA ChildrenTileHolds ==
  ASSUME NEW sections \in Seq(Seq(STRING)), NEW drafts, drafts = Chunk(sections)
  PROVE  Tiled(sections, drafts)
<1>. DEFINE written == {s \in DOMAIN sections : Strip(sections[s]) # <<>>}
<1>1. drafts \in DraftsOf(sections, Len(sections))
  BY ChunkHolds
<1>2. drafts \in Seq(Draft)
  BY <1>1 DEF DraftsOf
<1>3. DOMAIN drafts = 1 .. Len(drafts) /\ DOMAIN sections = 1 .. Len(sections)
  BY <1>2
<1>4. Written(sections, Len(sections)) = written
  BY <1>3 DEF Written
<1>5. ParentsIn(drafts, sections, written)
  BY <1>1, <1>4 DEF DraftsOf
<1>6. \E at \in [written -> DOMAIN drafts] :
        /\ \A s \in written : drafts[at[s]].content = Strip(sections[s])
        /\ \A s, t \in written : s < t => at[s] < at[t]
        /\ \A n \in DOMAIN drafts : drafts[n].kind = "parent" <=> \E s \in written : at[s] = n
  <2>. HIDE DEF written
  <2>. QED
    BY <1>3, <1>5 DEF ParentsIn, ParentsAt
<1>7. ASSUME NEW n \in DOMAIN drafts
      PROVE  /\ drafts[n].ordinal = n - 1
             /\ drafts[n].kind = "parent" =>
                  \E last \in n + 1 .. Len(drafts) : TiledUpTo(drafts, n, last)
  BY <1>1, <1>3 DEF DraftsOf
<1>8. ASSUME NEW n \in DOMAIN drafts
      PROVE  /\ drafts[n].ordinal = n - 1
             /\ drafts[n].kind = "parent" =>
                  \E last \in n + 1 .. Len(drafts) :
                    /\ \A i \in DOMAIN drafts : drafts[i].parent = n - 1 <=> i \in n + 1 .. last
                    /\ drafts[n + 1].start = 0 /\ drafts[last].end = Len(drafts[n].content)
                    /\ \A i \in n + 1 .. last :
                         /\ i > n + 1 => drafts[i].start = drafts[i - 1].end
                         /\ drafts[i].content
                              = SubSeq(drafts[n].content, drafts[i].start + 1, drafts[i].end)
                         /\ Len(drafts[i].content) \in 1 .. MaxChild
  BY <1>3, <1>7 DEF TiledUpTo
<1>. QED
  BY <1>6, <1>8, Zenon DEF Tiled

-------------------------------------------------------------------------------
(* Fusion.                                                                   *)

\* The items of a sequence are finitely many.
LEMMA ToSetFinite ==
  ASSUME NEW T, NEW s \in Seq(T)
  PROVE  IsFiniteSet(ToSet(s)) /\ ToSet(s) \subseteq T
         /\ \A x : x \in ToSet(s) <=> \E i \in 1 .. Len(s) : s[i] = x
<1>1. PICK N \in Nat : N = Len(s) /\ DOMAIN s = 1 .. N
  OBVIOUS
<1>2. PICK D : D = ToSet(s)
  OBVIOUS
<1>3. PICK f : f = [i \in 1 .. N |-> s[i]]
  OBVIOUS
<1>4. D = {s[i] : i \in 1 .. N}
  BY <1>1, <1>2 DEF ToSet
<1>5. f \in Surjection(1 .. N, D)
  <2>1. \A x \in D : \E i \in 1 .. N : f[i] = x
    BY <1>3, <1>4
  <2>2. f \in [1 .. N -> D]
    BY <1>3, <1>4
  <2>. QED
    BY <2>1, <2>2 DEF Surjection
<1>6. IsFiniteSet(D)
  <2>1. IsFiniteSet(1 .. N)
    <3>1. 1 \in Int /\ N \in Int
      OBVIOUS
    <3>. QED
      BY <3>1, FS_Interval
  <2>. QED
    BY <1>5, <2>1, FS_Surjection
<1>7. D \subseteq T
  BY <1>1, <1>4
<1>. QED
  BY <1>1, <1>2, <1>4, <1>6, <1>7

\* The first place of an item.
IsPosition(p, x, s) ==
  /\ p \in 0 .. Len(s) /\ (p = 0 <=> x \notin ToSet(s))
  /\ p # 0 => s[p] = x /\ \A i \in 1 .. p - 1 : s[i] # x

LEMMA PositionHolds ==
  ASSUME NEW T, NEW s \in Seq(T), NEW x
  PROVE  IsPosition(Position(x, s), x, s)
<1>0. PICK N \in Nat : N = Len(s)
  OBVIOUS
<1>1. PICK I : I = {i \in 1 .. Len(s) : s[i] = x}
  OBVIOUS
<1>2. PICK p : p = IF I # {} THEN Min(I) ELSE 0
  OBVIOUS
<1>3. Position(x, s) = p
  BY <1>1, <1>2, Zenon DEF Position, SelectInSeq
<1>4. \A y : y \in ToSet(s) <=> \E i \in 1 .. Len(s) : s[i] = y
  BY ToSetFinite
<1>5. CASE I = {}
  <2>1. p = 0 /\ x \notin ToSet(s)
    BY <1>1, <1>2, <1>4, <1>5
  <2>. QED
    BY <1>0, <1>3, <2>1 DEF IsPosition
<1>6. CASE I # {}
  <2>1. I \in SUBSET Nat /\ \A i \in I : i \in 1 .. N /\ s[i] = x
    <3>1. \A i \in I : i \in 1 .. N /\ s[i] = x
      BY <1>0, <1>1
    <3>. QED
      BY <3>1
  <2>2. p \in I /\ \A i \in I : p <= i
    BY <1>2, <1>6, <2>1, MinExists
  <2>3. p \in 1 .. N /\ s[p] = x
    BY <2>1, <2>2
  <2>4. ASSUME NEW i \in 1 .. p - 1 PROVE s[i] # x
    <3>1. i \in 1 .. Len(s) /\ ~(p <= i)
      BY <1>0, <2>3
    <3>. QED
      BY <1>1, <2>2, <3>1
  <2>5. x \in ToSet(s)
    BY <1>0, <1>4, <2>3
  <2>. QED
    BY <1>0, <1>3, <2>3, <2>4, <2>5 DEF IsPosition
<1>. QED
  BY <1>5, <1>6

\* The first channel with an item.
LEMMA FirstChannelHolds ==
  ASSUME NEW T, NEW channels \in Seq(Seq(T)), NEW x \in Items(channels),
         NEW n, n = FirstChannel(x, channels)
  PROVE  /\ n \in 1 .. Len(channels) /\ x \in ToSet(channels[n])
         /\ \A i \in 1 .. Len(channels) : x \in ToSet(channels[i]) => n <= i
<1>0. PICK N \in Nat : N = Len(channels) /\ DOMAIN channels = 1 .. N
  OBVIOUS
<1>1. PICK I : I = {i \in 1 .. Len(channels) : x \in ToSet(channels[i])}
  OBVIOUS
<1>2. PICK p : p = IF I # {} THEN Min(I) ELSE 0
  OBVIOUS
<1>3. n = p
  BY <1>1, <1>2, Zenon DEF FirstChannel, SelectInSeq
<1>4. \A i \in I : i \in 1 .. N /\ x \in ToSet(channels[i])
  BY <1>0, <1>1
<1>5. I # {}
  BY <1>0, <1>1 DEF Items
<1>6. I \in SUBSET Nat
  BY <1>4
<1>7. p \in I /\ \A i \in I : p <= i
  BY <1>2, <1>5, <1>6, MinExists
<1>8. p \in 1 .. N /\ x \in ToSet(channels[p])
  BY <1>4, <1>7
<1>9. \A i \in 1 .. Len(channels) : x \in ToSet(channels[i]) => p <= i
  BY <1>1, <1>7
<1>. QED
  BY <1>0, <1>3, <1>8, <1>9

\* A share is a number, and an item that is ahead in a channel has no smaller one.
LEMMA SharesOrdered ==
  ASSUME NEW T, NEW s \in Seq(T), NEW x, NEW y,
         y \in ToSet(s) => x \in ToSet(s) /\ Position(x, s) < Position(y, s)
  PROVE  Share(x, s) \in Nat /\ Share(y, s) \in Nat /\ Share(y, s) <= Share(x, s)
<1>0. PICK N \in Nat : N = Len(s)
  OBVIOUS
<1>1. PICK p, q : p = Position(x, s) /\ q = Position(y, s)
  OBVIOUS
<1>2. IsPosition(p, x, s) /\ IsPosition(q, y, s)
  BY <1>1, PositionHolds
<1>3. K \in Nat /\ Scale \in Nat
  BY RankingAssumption
<1>4. \A i \in 1 .. N : /\ IsFiniteSet(ToSet(SubSeq(s, 1, i)))
                        /\ Cardinality(ToSet(SubSeq(s, 1, i))) \in Nat \ {0}
                        /\ \A j \in 1 .. N : i <= j => ToSet(SubSeq(s, 1, i)) \subseteq ToSet(SubSeq(s, 1, j))
  <2>1. ASSUME NEW i \in 1 .. N
        PROVE  /\ IsFiniteSet(ToSet(SubSeq(s, 1, i)))
               /\ Cardinality(ToSet(SubSeq(s, 1, i))) \in Nat \ {0}
               /\ \A x1 : x1 \in ToSet(SubSeq(s, 1, i)) <=> \E k \in 1 .. i : s[k] = x1
    <3>1. PICK f \in Seq(T) : f = SubSeq(s, 1, i) /\ Len(f) = i /\ \A k \in 1 .. i : f[k] = s[k]
      <4>1. SubSeq(s, 1, i) \in Seq(T)
        BY <1>0
      <4>2. Len(SubSeq(s, 1, i)) = i /\ \A k \in 1 .. i : SubSeq(s, 1, i)[k] = s[k]
        BY <1>0
      <4>. QED
        BY <4>1, <4>2
    <3>2. IsFiniteSet(ToSet(f)) /\ \A x1 : x1 \in ToSet(f) <=> \E k \in 1 .. Len(f) : f[k] = x1
      BY ToSetFinite
    <3>3. \A x1 : x1 \in ToSet(f) <=> \E k \in 1 .. i : s[k] = x1
      BY <3>1, <3>2
    <3>4. s[1] \in ToSet(f)
      <4>1. 1 \in 1 .. i
        OBVIOUS
      <4>. QED
        BY <3>3, <4>1
    <3>5. Cardinality(ToSet(f)) \in Nat /\ Cardinality(ToSet(f)) # 0
      BY <3>2, <3>4, FS_CardinalityType, FS_EmptySet
    <3>. QED
      BY <3>1, <3>2, <3>3, <3>5
  <2>2. ASSUME NEW i \in 1 .. N, NEW j \in 1 .. N, i <= j
        PROVE  ToSet(SubSeq(s, 1, i)) \subseteq ToSet(SubSeq(s, 1, j))
    <3>1. \A k \in 1 .. i : k \in 1 .. j
      BY <2>2
    <3>. QED
      BY <2>1, <3>1
  <2>. QED
    BY <2>1, <2>2
<1>5. ASSUME NEW z, NEW i \in 1 .. N, i = Position(z, s)
      PROVE  /\ Rank(z, s) = Cardinality(ToSet(SubSeq(s, 1, i)))
             /\ Share(z, s) = Scale \div (K + Cardinality(ToSet(SubSeq(s, 1, i))))
             /\ Share(z, s) \in Nat
  <2>1. PICK c \in Nat \ {0} : c = Cardinality(ToSet(SubSeq(s, 1, i)))
    BY <1>4
  <2>2. Rank(z, s) = c
    BY <1>5, <2>1 DEF Rank
  <2>3. Share(z, s) = Scale \div (K + c)
    BY <1>5, <2>2 DEF Share
  <2>4. Scale \div (K + c) \in Nat
    <3>1. K + c \in Nat /\ K + c # 0 /\ K + c <= K + c
      BY <1>3
    <3>. QED
      BY <1>3, <3>1, DivAntitone
  <2>. QED
    BY <2>1, <2>2, <2>3, <2>4
<1>6. Share(x, s) \in Nat /\ (p = 0 => Share(x, s) = 0)
  <2>1. CASE p = 0
    BY <1>1, <2>1 DEF Share
  <2>2. CASE p # 0
    <3>1. p \in 1 .. N
      BY <1>0, <1>2, <2>2 DEF IsPosition
    <3>. QED
      BY <1>1, <1>5, <2>2, <3>1
  <2>. QED
    BY <2>1, <2>2
<1>7. CASE q = 0
  <2>1. Share(y, s) = 0
    BY <1>1, <1>7 DEF Share
  <2>. QED
    BY <1>6, <2>1
<1>8. CASE q # 0
  <2>1. p \in 1 .. N /\ q \in 1 .. N /\ p < q
    <3>1. x \in ToSet(s) /\ p < q
      BY <1>1, <1>2, <1>8 DEF IsPosition
    <3>. QED
      BY <1>0, <1>2, <1>8, <3>1 DEF IsPosition
  <2>2. PICK a \in Nat \ {0}, b \in Nat \ {0} :
          a = Cardinality(ToSet(SubSeq(s, 1, p))) /\ b = Cardinality(ToSet(SubSeq(s, 1, q)))
    BY <1>4, <2>1
  <2>3. a <= b
    <3>1. ToSet(SubSeq(s, 1, p)) \subseteq ToSet(SubSeq(s, 1, q)) /\ IsFiniteSet(ToSet(SubSeq(s, 1, q)))
      BY <1>4, <2>1
    <3>. QED
      BY <2>2, <3>1, FS_Subset
  <2>4. Share(x, s) = Scale \div (K + a) /\ Share(y, s) = Scale \div (K + b)
    BY <1>1, <1>5, <2>1, <2>2
  <2>5. PICK c \in Nat, d \in Nat : c = K + a /\ d = K + b /\ c # 0 /\ c <= d
    BY <1>3, <2>3
  <2>6. Scale \div d <= Scale \div c /\ Scale \div c \in Nat /\ Scale \div d \in Nat
    BY <1>3, <2>5, DivAntitone
  <2>. QED
    BY <2>4, <2>5, <2>6
<1>. QED
  BY <1>7, <1>8

\* The sums of the shares.
Scores(f, x, channels) ==
  /\ f \in [0 .. Len(channels) -> Nat] /\ f[0] = 0
  /\ \A n \in 1 .. Len(channels) : f[n] = f[n - 1] + Share(x, channels[n])

LEMMA FusionDefined ==
  ASSUME NEW T, NEW channels \in Seq(Seq(T)), NEW x
  PROVE  \E f : Scores(f, x, channels) /\ Fusion(x, channels) = f[Len(channels)]
<1>0. PICK N \in Nat : N = Len(channels)
  <2>1. Len(channels) \in Nat
    OBVIOUS
  <2>. QED
    BY <2>1
<1>1. \A n \in 1 .. N : Share(x, channels[n]) \in Nat
  <2>1. ASSUME NEW n \in 1 .. N PROVE Share(x, channels[n]) \in Nat
    <3>1. PICK s \in Seq(T) : s = channels[n]
      BY <1>0
    <3>2. CASE x \notin ToSet(s)
      BY <3>1, <3>2, SharesOrdered
    <3>3. CASE x \in ToSet(s)
      <4>1. PICK p : p = Position(x, s)
        OBVIOUS
      <4>2. IsPosition(p, x, s)
        BY <4>1, PositionHolds
      <4>3. PICK y : y \notin ToSet(s)
        <5>1. \E y : y \notin ToSet(s)
          BY NoSetContainsEverything
        <5>. QED
          BY <5>1
      <4>. QED
        BY <3>1, <4>3, SharesOrdered
    <3>. QED
      BY <3>2, <3>3
  <2>. QED
    BY <2>1
<1>. DEFINE Defines(f) == f = [n \in 0 .. N |-> IF n = 0 THEN 0 ELSE f[n - 1] + Share(x, channels[n])]
            score == CHOOSE f : Defines(f)
            I == [n \in 0 .. N |-> Nat]
            H == [n \in 1 .. N |-> [v \in Nat |-> v + Share(x, channels[n])]]
<1>2. Leads(Nat, N, 0, H, I)
  <2>1. ASSUME NEW n \in 1 .. N, NEW v \in I[n - 1] PROVE H[n][v] \in I[n]
    <3>1. n - 1 \in 0 .. N /\ n \in 0 .. N
      OBVIOUS
    <3>2. v \in Nat
      BY <3>1
    <3>3. v + Share(x, channels[n]) \in Nat
      BY <1>1, <3>2
    <3>. QED
      BY <3>1, <3>2, <3>3
  <2>2. 0 \in I[0] /\ \A n \in 0 .. N : I[n] \subseteq Nat
    OBVIOUS
  <2>. HIDE DEF H, I
  <2>. QED
    BY <2>1, <2>2 DEF Leads
<1>3. PICK f : Follows(f, Nat, N, 0, H, I)
  <2>. HIDE DEF H, I
  <2>. QED
    BY <1>2, InvariantIteration
<1>4. f \in [0 .. N -> Nat] /\ f[0] = 0 /\ \A n \in 1 .. N : f[n] = f[n - 1] + Share(x, channels[n])
  <2>1. \A n \in 1 .. N : n - 1 \in 0 .. N
    OBVIOUS
  <2>. HIDE DEF I
  <2>. QED
    BY <1>3, <2>1 DEF Follows
<1>5. Defines(f)
  <2>1. ASSUME NEW n \in 0 .. N
        PROVE  f[n] = IF n = 0 THEN 0 ELSE f[n - 1] + Share(x, channels[n])
    <3>1. n = 0 \/ n \in 1 .. N
      OBVIOUS
    <3>. QED
      BY <1>4, <3>1
  <2>. QED
    BY <1>4, <2>1
<1>6. Defines(score)
  BY <1>5
<1>7. score[N] = f[N]
  <2>. HIDE DEF score
  <2>1. score[0] = 0 /\ \A n \in 1 .. N : score[n] = score[n - 1] + Share(x, channels[n])
    BY <1>6
  <2>2. GoAlike(score, f, N)
    BY <1>4, <2>1 DEF GoAlike
  <2>. QED
    BY <2>2, Agreement
<1>8. Fusion(x, channels) = score[N]
  BY <1>0 DEF Fusion
<1>9. Scores(f, x, channels)
  BY <1>0, <1>4 DEF Scores
<1>. HIDE DEF score
<1>. QED
  BY <1>0, <1>7, <1>8, <1>9

\* x is ahead of y wherever y is.
AheadIn(x, y, s) == y \in ToSet(s) => x \in ToSet(s) /\ Position(x, s) < Position(y, s)

\* Then its score is not the smaller one.
LEMMA ScoresOrdered ==
  ASSUME NEW T, NEW channels \in Seq(Seq(T)), NEW x, NEW y,
         \A n \in 1 .. Len(channels) : AheadIn(x, y, channels[n])
  PROVE  Fusion(x, channels) \in Nat /\ Fusion(y, channels) \in Nat
         /\ Fusion(y, channels) <= Fusion(x, channels)
<1>0. PICK N \in Nat : N = Len(channels)
  <2>1. Len(channels) \in Nat
    OBVIOUS
  <2>. QED
    BY <2>1
<1>1. PICK f : Scores(f, x, channels) /\ Fusion(x, channels) = f[N]
  BY <1>0, FusionDefined
<1>2. PICK g : Scores(g, y, channels) /\ Fusion(y, channels) = g[N]
  BY <1>0, FusionDefined
<1>3. \A n \in 1 .. N : Share(x, channels[n]) \in Nat /\ Share(y, channels[n]) \in Nat
                       /\ Share(y, channels[n]) <= Share(x, channels[n])
  <2>1. ASSUME NEW n \in 1 .. N
        PROVE  Share(x, channels[n]) \in Nat /\ Share(y, channels[n]) \in Nat
               /\ Share(y, channels[n]) <= Share(x, channels[n])
    <3>1. PICK s \in Seq(T) : s = channels[n]
      BY <1>0
    <3>2. y \in ToSet(s) => x \in ToSet(s) /\ Position(x, s) < Position(y, s)
      BY <1>0, <3>1 DEF AheadIn
    <3>. QED
      BY <3>1, <3>2, SharesOrdered
  <2>. QED
    BY <2>1
<1>4. /\ f \in [0 .. N -> Nat] /\ f[0] = 0 /\ \A n \in 1 .. N : f[n] = f[n - 1] + Share(x, channels[n])
      /\ g \in [0 .. N -> Nat] /\ g[0] = 0 /\ \A n \in 1 .. N : g[n] = g[n - 1] + Share(y, channels[n])
  BY <1>0, <1>1, <1>2 DEF Scores
<1>. DEFINE S == {n \in 0 .. N : g[n] <= f[n]}
<1>5. 0 \in S
  BY <1>4
<1>6. ASSUME NEW n \in 0 + 1 .. N, n - 1 \in S PROVE n \in S
  <2>1. n \in 1 .. N /\ n - 1 \in 0 .. N /\ n \in 0 .. N
    OBVIOUS
  <2>2. f[n - 1] \in Nat /\ g[n - 1] \in Nat /\ g[n - 1] <= f[n - 1]
    BY <1>4, <1>6, <2>1
  <2>. QED
    BY <1>3, <1>4, <2>1, <2>2
<1>7. \A n \in 0 .. N : n \in S
  <2>. HIDE DEF S
  <2>. QED
    BY <1>5, <1>6, InductionFrom
<1>. QED
  BY <1>1, <1>2, <1>4, <1>7

\* R orders the members of S.
Orders(R, S) ==
  /\ \A x, y \in S : <<x, y>> \in R => <<y, x>> \notin R
  /\ \A x, y, z \in S : <<x, y>> \in R /\ <<y, z>> \in R => <<x, z>> \in R
  /\ \A x, y \in S : x # y => <<x, y>> \in R \/ <<y, x>> \in R

Preceding(x, R, S) == {y \in S : <<y, x>> \in R}

\* The members of an ordered finite set, each at the place its order gives it.
InOrder(R, S) ==
  [n \in 1 .. Cardinality(S) |-> CHOOSE x \in S : Cardinality(Preceding(x, R, S)) = n - 1]

IsInOrder(out, N, R, S) ==
  /\ out \in [1 .. N -> S] /\ \A x \in S : \E n \in 1 .. N : out[n] = x
  /\ \A i, j \in 1 .. N : out[i] = out[j] => i = j
  /\ \A i, j \in 1 .. N : <<out[i], out[j]>> \in R => i < j

LEMMA Sorting ==
  ASSUME NEW S, IsFiniteSet(S), NEW R, Orders(R, S), NEW out, out = InOrder(R, S)
  PROVE  IsInOrder(out, Cardinality(S), R, S)
<1>0. PICK N \in Nat : N = Cardinality(S)
  BY FS_CardinalityType
<1>1. PICK rank : rank = [x \in S |-> Cardinality(Preceding(x, R, S))]
  OBVIOUS
<1>2. ASSUME NEW x \in S
      PROVE  IsFiniteSet(Preceding(x, R, S)) /\ rank[x] = Cardinality(Preceding(x, R, S))
             /\ rank[x] \in 0 .. N - 1
  <2>1. PICK D : D = Preceding(x, R, S)
    OBVIOUS
  <2>2. x \notin D /\ D \in SUBSET S
    BY <2>1 DEF Preceding, Orders
  <2>3. IsFiniteSet(D) /\ Cardinality(D) <= N /\ (N = Cardinality(D) => S = D) /\ Cardinality(D) \in Nat
    <3>1. IsFiniteSet(D) /\ Cardinality(D) <= Cardinality(S) /\ (Cardinality(S) = Cardinality(D) => S = D)
      BY <2>2, FS_Subset
    <3>2. Cardinality(D) \in Nat
      BY <3>1, FS_CardinalityType
    <3>. QED
      BY <1>0, <3>1, <3>2
  <2>4. Cardinality(D) # N
    BY <2>2, <2>3
  <2>. QED
    BY <1>1, <2>1, <2>3, <2>4
<1>3. ASSUME NEW x \in S, NEW y \in S, <<x, y>> \in R PROVE rank[x] < rank[y]
  <2>1. PICK C, D : C = Preceding(x, R, S) /\ D = Preceding(y, R, S)
    OBVIOUS
  <2>2. C \in SUBSET D /\ x \in D /\ x \notin C
    <3>1. ASSUME NEW z \in C PROVE z \in D
      <4>1. z \in S /\ <<z, x>> \in R
        BY <2>1 DEF Preceding
      <4>2. <<z, y>> \in R
        BY <1>3, <4>1 DEF Orders
      <4>. QED
        BY <2>1, <4>1, <4>2 DEF Preceding
    <3>2. x \in D
      BY <1>3, <2>1 DEF Preceding
    <3>3. x \notin C
      BY <2>1 DEF Preceding, Orders
    <3>. QED
      BY <3>1, <3>2, <3>3
  <2>3. IsFiniteSet(D) /\ rank[x] = Cardinality(C) /\ rank[y] = Cardinality(D)
        /\ rank[x] \in Nat /\ rank[y] \in Nat
    BY <1>2, <2>1
  <2>4. Cardinality(C) <= Cardinality(D) /\ (Cardinality(D) = Cardinality(C) => D = C)
    BY <2>2, <2>3, FS_Subset
  <2>. QED
    BY <2>2, <2>3, <2>4
<1>4. \A x, y \in S : rank[x] = rank[y] => x = y
  <2>1. ASSUME NEW x \in S, NEW y \in S, x # y PROVE rank[x] # rank[y]
    <3>1. rank[x] < rank[y] \/ rank[y] < rank[x]
      BY <1>3, <2>1 DEF Orders
    <3>2. rank[x] \in Nat /\ rank[y] \in Nat
      BY <1>2
    <3>. QED
      BY <3>1, <3>2
  <2>. QED
    BY <2>1
<1>5. rank \in Injection(S, 0 .. N - 1)
  <2>1. rank \in [S -> 0 .. N - 1]
    BY <1>1, <1>2
  <2>. QED
    BY <1>4, <2>1 DEF Injection, IsInjective
<1>6. IsFiniteSet(0 .. N - 1) /\ Cardinality(0 .. N - 1) = N
  <2>1. 0 \in Int /\ N - 1 \in Int
    OBVIOUS
  <2>2. IsFiniteSet(0 .. N - 1) /\ Cardinality(0 .. N - 1) = IF 0 > N - 1 THEN 0 ELSE (N - 1) - 0 + 1
    BY <2>1, FS_Interval
  <2>. QED
    BY <2>2
<1>7. rank \in Surjection(S, 0 .. N - 1)
  BY <1>0, <1>5, <1>6, FS_Injection
<1>8. \A r \in 0 .. N - 1 : \E x \in S : rank[x] = r
  BY <1>7 DEF Surjection
<1>9. ASSUME NEW n \in 1 .. N PROVE out[n] \in S /\ rank[out[n]] = n - 1
  <2>1. n - 1 \in 0 .. N - 1
    OBVIOUS
  <2>2. \E x \in S : Cardinality(Preceding(x, R, S)) = n - 1
    BY <1>2, <1>8, <2>1
  <2>3. out[n] = CHOOSE x \in S : Cardinality(Preceding(x, R, S)) = n - 1
    BY <1>0 DEF InOrder
  <2>4. out[n] \in S /\ Cardinality(Preceding(out[n], R, S)) = n - 1
    BY <2>2, <2>3
  <2>. QED
    BY <1>2, <2>4
<1>10. out \in [1 .. N -> S]
  <2>1. out = [n \in 1 .. N |-> out[n]]
    BY <1>0 DEF InOrder
  <2>. QED
    BY <1>9, <2>1
<1>11. ASSUME NEW x \in S PROVE \E n \in 1 .. N : out[n] = x
  <2>1. PICK n : n = rank[x] + 1
    OBVIOUS
  <2>2. n \in 1 .. N /\ rank[x] = n - 1
    BY <1>2, <2>1
  <2>3. out[n] \in S /\ rank[out[n]] = rank[x]
    BY <1>9, <2>2
  <2>. QED
    BY <1>4, <2>2, <2>3
<1>12. \A i, j \in 1 .. N : out[i] = out[j] => i = j
  <2>1. ASSUME NEW i \in 1 .. N, NEW j \in 1 .. N, out[i] = out[j] PROVE i = j
    <3>1. i - 1 = j - 1
      BY <1>9, <2>1
    <3>. QED
      BY <3>1
  <2>. QED
    BY <2>1
<1>13. \A i, j \in 1 .. N : <<out[i], out[j]>> \in R => i < j
  <2>1. ASSUME NEW i \in 1 .. N, NEW j \in 1 .. N, <<out[i], out[j]>> \in R PROVE i < j
    <3>1. i - 1 < j - 1
      BY <1>3, <1>9, <2>1
    <3>. QED
      BY <3>1
  <2>. QED
    BY <2>1
<1>. QED
  BY <1>0, <1>10, <1>11, <1>12, <1>13 DEF IsInOrder

\* The items found are finitely many.
LEMMA ItemsFinite ==
  ASSUME NEW T, NEW channels \in Seq(Seq(T))
  PROVE  IsFiniteSet(Items(channels))
<1>1. PICK N \in Nat : N = Len(channels) /\ DOMAIN channels = 1 .. N
  OBVIOUS
<1>2. PICK sets : sets = [n \in 1 .. N |-> ToSet(channels[n])]
  OBVIOUS
<1>3. sets \in Seq(SUBSET T) /\ Len(sets) = N
  <2>1. ASSUME NEW n \in 1 .. N PROVE ToSet(channels[n]) \in SUBSET T
    <3>1. PICK s \in Seq(T) : s = channels[n]
      BY <1>1
    <3>. QED
      BY <3>1, ToSetFinite
  <2>. QED
    BY <1>2, <2>1
<1>4. PICK all : all = ToSet(sets)
  OBVIOUS
<1>5. IsFiniteSet(all) /\ \A D : D \in all <=> \E n \in 1 .. Len(sets) : sets[n] = D
  BY <1>3, <1>4, ToSetFinite
<1>6. \A D \in all : IsFiniteSet(D)
  <2>1. ASSUME NEW n \in 1 .. N PROVE IsFiniteSet(ToSet(channels[n]))
    <3>1. PICK s \in Seq(T) : s = channels[n]
      BY <1>1
    <3>. QED
      BY <3>1, ToSetFinite
  <2>. QED
    BY <1>2, <1>3, <1>5, <2>1
<1>7. IsFiniteSet(UNION all)
  BY <1>5, <1>6, FS_UNION
<1>8. Items(channels) = UNION all
  <2>1. all = {ToSet(channels[n]) : n \in 1 .. N}
    BY <1>2, <1>3, <1>5
  <2>. QED
    BY <1>1, <2>1 DEF Items
<1>. QED
  BY <1>7, <1>8

\* What SeenBefore orders the items by.
LEMMA SeenBeforeOrders ==
  ASSUME NEW T, NEW channels \in Seq(Seq(T))
  PROVE  /\ \A x, y \in Items(channels) : SeenBefore(x, y, channels) => ~SeenBefore(y, x, channels)
         /\ \A x, y, z \in Items(channels) :
              SeenBefore(x, y, channels) /\ SeenBefore(y, z, channels) => SeenBefore(x, z, channels)
         /\ \A x, y \in Items(channels) :
              x # y => SeenBefore(x, y, channels) \/ SeenBefore(y, x, channels)
<1>0. PICK N \in Nat : N = Len(channels)
  <2>1. Len(channels) \in Nat
    OBVIOUS
  <2>. QED
    BY <2>1
<1>1. PICK first : first = [x \in Items(channels) |-> FirstChannel(x, channels)]
  OBVIOUS
<1>2. PICK place : place = [x \in Items(channels) |-> Position(x, channels[first[x]])]
  OBVIOUS
<1>3. ASSUME NEW x \in Items(channels)
      PROVE  /\ first[x] = FirstChannel(x, channels) /\ first[x] \in Nat
             /\ place[x] = Position(x, channels[first[x]]) /\ place[x] \in Nat
             /\ \A y \in Items(channels) : first[x] = first[y] /\ place[x] = place[y] => x = y
  <2>1. PICK n : n = FirstChannel(x, channels)
    OBVIOUS
  <2>2. n \in 1 .. N /\ x \in ToSet(channels[n])
    BY <1>0, <2>1, FirstChannelHolds
  <2>3. PICK s \in Seq(T) : s = channels[n]
    BY <1>0, <2>2
  <2>4. PICK p : p = Position(x, s)
    OBVIOUS
  <2>5. IsPosition(p, x, s)
    BY <2>4, PositionHolds
  <2>6. p \in 1 .. Len(s) /\ s[p] = x
    BY <2>2, <2>3, <2>5 DEF IsPosition
  <2>7. first[x] = n /\ place[x] = p
    BY <1>1, <1>2, <2>1, <2>3, <2>4
  <2>8. ASSUME NEW y \in Items(channels), first[x] = first[y], place[x] = place[y] PROVE x = y
    <3>1. FirstChannel(y, channels) = n
      BY <1>1, <2>7, <2>8
    <3>2. y \in ToSet(s)
      BY <2>3, <3>1, FirstChannelHolds
    <3>3. Position(y, s) = p
      BY <1>2, <2>3, <2>7, <2>8
    <3>4. IsPosition(p, y, s)
      BY <3>3, PositionHolds
    <3>5. s[p] = y
      BY <3>2, <3>4 DEF IsPosition
    <3>. QED
      BY <2>6, <3>5
  <2>. QED
    BY <2>1, <2>2, <2>3, <2>4, <2>6, <2>7, <2>8
<1>4. \A x, y \in Items(channels) :
        SeenBefore(x, y, channels) <=> first[x] < first[y] \/ (first[x] = first[y] /\ place[x] < place[y])
  <2>1. ASSUME NEW x \in Items(channels), NEW y \in Items(channels)
        PROVE  SeenBefore(x, y, channels) <=> first[x] < first[y] \/ (first[x] = first[y] /\ place[x] < place[y])
    <3>1. first[x] = FirstChannel(x, channels) /\ first[y] = FirstChannel(y, channels)
          /\ place[x] = Position(x, channels[first[x]]) /\ place[y] = Position(y, channels[first[y]])
      BY <1>3
    <3>. QED
      BY <3>1 DEF SeenBefore
  <2>. QED
    BY <2>1
<1>5. \A x \in Items(channels) : first[x] \in Nat /\ place[x] \in Nat
  BY <1>3
<1>6. \A x, y \in Items(channels) : SeenBefore(x, y, channels) => ~SeenBefore(y, x, channels)
  BY <1>4, <1>5
<1>7. \A x, y, z \in Items(channels) :
        SeenBefore(x, y, channels) /\ SeenBefore(y, z, channels) => SeenBefore(x, z, channels)
  BY <1>4, <1>5
<1>8. \A x, y \in Items(channels) : x # y => SeenBefore(x, y, channels) \/ SeenBefore(y, x, channels)
  BY <1>3, <1>4, <1>5
<1>. QED
  BY <1>6, <1>7, <1>8

\* The order of the result.
ResultOrder(channels) ==
  {pair \in Items(channels) \X Items(channels) : Before(pair[1], pair[2], channels)}

LEMMA BeforeOrders ==
  ASSUME NEW T, NEW channels \in Seq(Seq(T))
  PROVE  Orders(ResultOrder(channels), Items(channels))
<1>1. PICK score : score = [x \in Items(channels) |-> Fusion(x, channels)]
  OBVIOUS
<1>2. \A x \in Items(channels) : score[x] = Fusion(x, channels) /\ score[x] \in Nat
  <2>1. ASSUME NEW x \in Items(channels) PROVE Fusion(x, channels) \in Nat
    <3>1. PICK f : Scores(f, x, channels) /\ Fusion(x, channels) = f[Len(channels)]
      BY FusionDefined
    <3>2. Len(channels) \in 0 .. Len(channels)
      OBVIOUS
    <3>. QED
      BY <3>1, <3>2 DEF Scores
  <2>. QED
    BY <1>1, <2>1
<1>3. \A x, y \in Items(channels) :
        <<x, y>> \in ResultOrder(channels)
          <=> score[x] > score[y] \/ (score[x] = score[y] /\ SeenBefore(x, y, channels))
  BY <1>2 DEF ResultOrder, Before
<1>4. PICK seen : seen = [x \in Items(channels) |-> {y \in Items(channels) : SeenBefore(x, y, channels)}]
  OBVIOUS
<1>5. \A x, y \in Items(channels) : SeenBefore(x, y, channels) <=> y \in seen[x]
  BY <1>4
<1>6. /\ \A x, y \in Items(channels) : y \in seen[x] => x \notin seen[y]
      /\ \A x, y, z \in Items(channels) : y \in seen[x] /\ z \in seen[y] => z \in seen[x]
      /\ \A x, y \in Items(channels) : x # y => y \in seen[x] \/ x \in seen[y]
  BY <1>5, SeenBeforeOrders
<1>7. \A x, y \in Items(channels) :
        <<x, y>> \in ResultOrder(channels) <=> score[x] > score[y] \/ (score[x] = score[y] /\ y \in seen[x])
  BY <1>3, <1>5
<1>. QED
  BY <1>2, <1>6, <1>7 DEF Orders

\* FusionIsMonotone of what Fuse returns.
LEMMA FusionHolds ==
  ASSUME NEW T, NEW channels \in Seq(Seq(T)), NEW out, out = Fuse(channels)
  PROVE  /\ ToSet(out) = Items(channels) /\ Len(out) = Cardinality(Items(channels))
         /\ \A x, y \in Items(channels) :
              x # y /\ (\A n \in 1 .. Len(channels) : AheadIn(x, y, channels[n]))
                => Position(x, out) < Position(y, out)
<1>0. PICK S, R : S = Items(channels) /\ R = ResultOrder(channels)
  OBVIOUS
<1>1. IsFiniteSet(S) /\ Orders(R, S)
  BY <1>0, ItemsFinite, BeforeOrders
<1>2. PICK N \in Nat : N = Cardinality(S)
  BY <1>1, FS_CardinalityType
<1>3. \A x \in S : Preceding(x, R, S) = {y \in S : Before(y, x, channels)}
  BY <1>0 DEF Preceding, ResultOrder
<1>4. out = InOrder(R, S)
  <2>1. out = [n \in 1 .. Cardinality(S) |->
                 CHOOSE x \in S : Cardinality({y \in S : Before(y, x, channels)}) = n - 1]
    <3>1. out = [n \in 1 .. Cardinality(Items(channels)) |->
                   CHOOSE x \in Items(channels) :
                     Cardinality({y \in Items(channels) : Before(y, x, channels)}) = n - 1]
      BY Zenon DEF Fuse
    <3>. QED
      BY <1>0, <3>1, Zenon
  <2>. DEFINE Old(n) == CHOOSE x \in S : Cardinality({y \in S : Before(y, x, channels)}) = n - 1
              New(n) == CHOOSE x \in S : Cardinality(Preceding(x, R, S)) = n - 1
  <2>2. ASSUME NEW n \in 1 .. Cardinality(S) PROVE Old(n) = New(n)
    <3>1. \A x : (x \in S /\ Cardinality({y \in S : Before(y, x, channels)}) = n - 1)
                 <=> (x \in S /\ Cardinality(Preceding(x, R, S)) = n - 1)
      BY <1>3
    <3>. QED
      BY <3>1
  <2>. QED
    BY <2>1, <2>2 DEF InOrder
<1>5. /\ out \in [1 .. N -> S] /\ \A x \in S : \E n \in 1 .. N : out[n] = x
      /\ \A i, j \in 1 .. N : out[i] = out[j] => i = j
      /\ \A i, j \in 1 .. N : <<out[i], out[j]>> \in R => i < j
  BY <1>1, <1>2, <1>4, Sorting DEF IsInOrder
<1>6. out \in Seq(S) /\ Len(out) = N
  BY <1>5
<1>7. ToSet(out) = S
  <2>1. \A x : x \in ToSet(out) <=> \E n \in 1 .. N : out[n] = x
    BY <1>6, ToSetFinite
  <2>2. \A n \in 1 .. N : out[n] \in S
    BY <1>5
  <2>3. \A x : x \in ToSet(out) <=> x \in S
    <3>1. ASSUME NEW x \in S PROVE x \in ToSet(out)
      BY <1>5, <2>1
    <3>2. ASSUME NEW x \in ToSet(out) PROVE x \in S
      BY <2>1, <2>2
    <3>. QED
      BY <3>1, <3>2
  <2>. QED
    BY <2>3
<1>8. ASSUME NEW x \in S PROVE Position(x, out) \in 1 .. N /\ out[Position(x, out)] = x
  <2>1. PICK p : p = Position(x, out)
    OBVIOUS
  <2>2. IsPosition(p, x, out)
    BY <1>6, <2>1, PositionHolds
  <2>. QED
    BY <1>6, <1>7, <2>1, <2>2 DEF IsPosition
<1>9. ASSUME NEW x \in S, NEW y \in S, x # y, \A n \in 1 .. Len(channels) : AheadIn(x, y, channels[n])
      PROVE  Position(x, out) < Position(y, out)
  <2>1. Fusion(x, channels) \in Nat /\ Fusion(y, channels) \in Nat
        /\ Fusion(y, channels) <= Fusion(x, channels)
    BY <1>9, ScoresOrdered
  <2>2. SeenBefore(x, y, channels)
    <3>1. PICK m, n : m = FirstChannel(x, channels) /\ n = FirstChannel(y, channels)
      OBVIOUS
    <3>2. /\ m \in 1 .. Len(channels) /\ x \in ToSet(channels[m])
          /\ \A i \in 1 .. Len(channels) : x \in ToSet(channels[i]) => m <= i
      BY <1>0, <3>1, FirstChannelHolds
    <3>3. n \in 1 .. Len(channels) /\ y \in ToSet(channels[n])
      BY <1>0, <3>1, FirstChannelHolds
    <3>4. x \in ToSet(channels[n]) /\ Position(x, channels[n]) < Position(y, channels[n])
      BY <1>9, <3>3 DEF AheadIn
    <3>5. m <= n /\ m \in Nat /\ n \in Nat
      BY <3>2, <3>3, <3>4
    <3>6. m < n \/ m = n
      BY <3>5
    <3>. QED
      BY <3>1, <3>4, <3>6 DEF SeenBefore
  <2>3. Fusion(x, channels) > Fusion(y, channels) \/ Fusion(x, channels) = Fusion(y, channels)
    BY <2>1
  <2>4. Before(x, y, channels)
    BY <2>2, <2>3 DEF Before
  <2>5. <<x, y>> \in R
    BY <1>0, <2>4 DEF ResultOrder
  <2>. QED
    BY <1>5, <1>8, <2>5
<1>. QED
  BY <1>0, <1>2, <1>6, <1>7, <1>9

-------------------------------------------------------------------------------
(* The citation filter.                                                      *)

\* The characters of a text after the a-th up to the b-th.
Part(t, a, b) == SubSeq(t, a + 1, b)

IsPart(p, t, a, b) == Len(p) = b - a /\ \A k \in 1 .. b - a : p[k] = t[a + k]

LEMMA PartHolds ==
  ASSUME NEW T, NEW t \in Seq(T), NEW b \in 0 .. Len(t), NEW a \in 0 .. b, NEW p, p = Part(t, a, b)
  PROVE  p \in Seq(T) /\ IsPart(p, t, a, b)
<1>1. PICK N \in Nat : N = Len(t)
  OBVIOUS
<1>2. CASE a = b
  <2>1. SubSeq(t, a + 1, b) = <<>>
    BY <1>1, <1>2
  <2>. QED
    BY <1>2, <2>1 DEF Part, IsPart
<1>3. CASE a < b
  <2>1. a + 1 \in 1 .. N /\ b \in 1 .. N /\ a + 1 <= b
    BY <1>1, <1>3
  <2>2. SubSeq(t, a + 1, b) \in Seq(T) /\ Len(SubSeq(t, a + 1, b)) = b - a
    BY <1>1, <2>1
  <2>3. \A k \in 1 .. b - a : SubSeq(t, a + 1, b)[k] = t[a + k]
    BY <1>1, <2>1
  <2>. QED
    BY <2>2, <2>3 DEF Part, IsPart
<1>. QED
  BY <1>2, <1>3

LEMMA PartOfPart ==
  ASSUME NEW T, NEW t \in Seq(T), NEW b \in 0 .. Len(t), NEW a \in 0 .. b,
         NEW j \in 0 .. b - a, NEW i \in 0 .. j
  PROVE  Part(Part(t, a, b), i, j) = Part(t, a + i, a + j)
<1>1. PICK N \in Nat : N = Len(t)
  OBVIOUS
<1>2. PICK p, q, r : p = Part(t, a, b) /\ q = Part(p, i, j) /\ r = Part(t, a + i, a + j)
  OBVIOUS
<1>3. p \in Seq(T) /\ IsPart(p, t, a, b)
  BY <1>2, PartHolds
<1>4. q \in Seq(T) /\ IsPart(q, p, i, j)
  <2>1. j \in 0 .. Len(p) /\ i \in 0 .. j
    BY <1>3 DEF IsPart
  <2>. QED
    BY <1>2, <1>3, <2>1, PartHolds
<1>5. r \in Seq(T) /\ IsPart(r, t, a + i, a + j)
  <2>1. a + j \in 0 .. Len(t) /\ a + i \in 0 .. a + j
    BY <1>1
  <2>. QED
    BY <1>2, <2>1, PartHolds
<1>6. ASSUME NEW k \in 1 .. j - i PROVE q[k] = r[k]
  <2>1. i + k \in 1 .. b - a /\ a + (i + k) = a + i + k /\ k \in 1 .. (a + j) - (a + i)
    OBVIOUS
  <2>2. q[k] = p[i + k]
    BY <1>4 DEF IsPart
  <2>3. p[i + k] = t[a + (i + k)]
    BY <1>3, <2>1 DEF IsPart
  <2>4. r[k] = t[a + i + k]
    BY <1>5, <2>1 DEF IsPart
  <2>. QED
    BY <2>1, <2>2, <2>3, <2>4
<1>7. q = r
  <2>1. Len(q) = j - i /\ Len(r) = j - i
    BY <1>4, <1>5 DEF IsPart
  <2>. QED
    BY <1>4, <1>5, <1>6, <2>1, SeqEqual
<1>. QED
  BY <1>2, <1>7

LEMMA PartsJoin ==
  ASSUME NEW T, NEW t \in Seq(T), NEW c \in 0 .. Len(t), NEW b \in 0 .. c, NEW a \in 0 .. b
  PROVE  Part(t, a, b) \o Part(t, b, c) = Part(t, a, c)
<1>1. PICK N \in Nat : N = Len(t)
  OBVIOUS
<1>2. PICK p, q, r, s : p = Part(t, a, b) /\ q = Part(t, b, c) /\ r = Part(t, a, c) /\ s = p \o q
  OBVIOUS
<1>3. p \in Seq(T) /\ IsPart(p, t, a, b)
  <2>1. b \in 0 .. Len(t)
    OBVIOUS
  <2>. QED
    BY <1>2, <2>1, PartHolds
<1>4. q \in Seq(T) /\ IsPart(q, t, b, c)
  BY <1>2, PartHolds
<1>5. r \in Seq(T) /\ IsPart(r, t, a, c)
  <2>1. a \in 0 .. c
    OBVIOUS
  <2>. QED
    BY <1>2, <2>1, PartHolds
<1>6. s \in Seq(T) /\ Concat(s, p, q)
  BY <1>2, <1>3, <1>4, ConcatElements
<1>7. Len(p) = b - a /\ Len(q) = c - b /\ Len(r) = c - a /\ Len(s) = c - a
  <2>1. Len(p) = b - a /\ Len(q) = c - b /\ Len(r) = c - a
    BY <1>3, <1>4, <1>5 DEF IsPart
  <2>2. Len(s) = Len(p) + Len(q)
    BY <1>6 DEF Concat
  <2>. QED
    BY <2>1, <2>2
<1>8. ASSUME NEW k \in 1 .. c - a PROVE s[k] = r[k]
  <2>1. r[k] = t[a + k]
    BY <1>5 DEF IsPart
  <2>2. CASE k \in 1 .. b - a
    <3>1. s[k] = p[k] /\ p[k] = t[a + k]
      BY <1>3, <1>6, <1>7, <2>2 DEF IsPart, Concat
    <3>. QED
      BY <2>1, <3>1
  <2>3. CASE k > b - a
    <3>1. PICK i \in 1 .. c - b : (b - a) + i = k /\ b + i = a + k
      <4>1. k - (b - a) \in 1 .. c - b
        BY <2>3
      <4>. QED
        BY <4>1
    <3>2. s[(b - a) + i] = q[i]
      BY <1>6, <1>7 DEF Concat
    <3>3. q[i] = t[b + i]
      BY <1>4 DEF IsPart
    <3>. QED
      BY <2>1, <3>1, <3>2, <3>3
  <2>. QED
    BY <2>2, <2>3
<1>9. s = r
  BY <1>5, <1>6, <1>7, <1>8, SeqEqual
<1>. QED
  BY <1>2, <1>9

\* What Without keeps of the first characters.
Remains(text, markers) ==
  CHOOSE kept : kept = [n \in 0 .. Len(text) |->
                          IF n = 0 THEN <<>>
                          ELSE IF \E m \in markers : n \in m[1] .. m[2] THEN kept[n - 1]
                          ELSE Append(kept[n - 1], text[n])]

Covered(n, markers) == \E m \in markers : n \in m[1] .. m[2]

KeepsOf(kept, T, text, markers) ==
  /\ kept \in [0 .. Len(text) -> Seq(T)] /\ kept[0] = <<>>
  /\ \A n \in 1 .. Len(text) :
       /\ Covered(n, markers) => kept[n] = kept[n - 1]
       /\ ~Covered(n, markers) => kept[n] = Append(kept[n - 1], text[n])

LEMMA KeptDefined ==
  ASSUME NEW T, NEW text \in Seq(T), NEW markers
  PROVE  KeepsOf(Remains(text, markers), T, text, markers)
         /\ Without(text, markers) = Remains(text, markers)[Len(text)]
<1>0. PICK N \in Nat : N = Len(text)
  OBVIOUS
<1>. DEFINE Grown(n, v) == IF Covered(n, markers) THEN v ELSE Append(v, text[n])
            Defines(f) == f = [n \in 0 .. N |-> IF n = 0 THEN <<>>
                                                ELSE IF \E m \in markers : n \in m[1] .. m[2] THEN f[n - 1]
                                                ELSE Append(f[n - 1], text[n])]
            kept == CHOOSE f : Defines(f)
            V == Seq(T)
            I == [n \in 0 .. N |-> V]
            H == [n \in 1 .. N |-> [v \in V |-> Grown(n, v)]]
<1>1. Leads(V, N, <<>>, H, I)
  <2>1. ASSUME NEW n \in 1 .. N, NEW v \in I[n - 1] PROVE H[n][v] \in I[n]
    <3>1. n - 1 \in 0 .. N /\ n \in 0 .. N /\ text[n] \in T
      BY <1>0
    <3>2. v \in Seq(T)
      BY <3>1
    <3>3. Grown(n, v) \in Seq(T)
      BY <3>1, <3>2
    <3>4. H[n][v] = Grown(n, v)
      BY <3>2
    <3>. QED
      BY <3>1, <3>3, <3>4
  <2>2. <<>> \in I[0] /\ \A n \in 0 .. N : I[n] \subseteq V
    OBVIOUS
  <2>. HIDE DEF V, H, I
  <2>. QED
    BY <2>1, <2>2 DEF Leads
<1>2. PICK f : Follows(f, V, N, <<>>, H, I)
  <2>. HIDE DEF V, H, I
  <2>. QED
    BY <1>1, InvariantIteration
<1>3. f \in [0 .. N -> Seq(T)] /\ f[0] = <<>> /\ \A n \in 1 .. N : f[n] = Grown(n, f[n - 1])
  <2>1. \A n \in 1 .. N : n - 1 \in 0 .. N
    OBVIOUS
  <2>2. \A n \in 1 .. N : f[n - 1] \in V /\ f[n] = H[n][f[n - 1]]
    <3>. HIDE DEF V, H, I
    <3>. QED
      BY <1>2, <2>1 DEF Follows
  <2>3. \A n \in 1 .. N : f[n] = Grown(n, f[n - 1])
    <3>. HIDE DEF Grown
    <3>. QED
      BY <2>2
  <2>4. f \in [0 .. N -> V] /\ f[0] = <<>>
    <3>. HIDE DEF V, H, I
    <3>. QED
      BY <1>2 DEF Follows
  <2>. HIDE DEF Grown
  <2>. QED
    BY <2>3, <2>4
<1>4. Defines(f)
  <2>1. ASSUME NEW n \in 0 .. N
        PROVE  f[n] = IF n = 0 THEN <<>>
                      ELSE IF \E m \in markers : n \in m[1] .. m[2] THEN f[n - 1]
                      ELSE Append(f[n - 1], text[n])
    <3>1. n = 0 \/ n \in 1 .. N
      OBVIOUS
    <3>. QED
      BY <1>3, <3>1 DEF Covered
  <2>. QED
    BY <1>3, <2>1
<1>5. Defines(kept)
  BY <1>4
<1>6. kept = f
  <2>. HIDE DEF kept
  <2>1. kept[0] = <<>> /\ \A n \in 1 .. N : kept[n] = Grown(n, kept[n - 1])
    <3>1. kept[0] = <<>>
      BY <1>5
    <3>2. ASSUME NEW n \in 1 .. N PROVE kept[n] = Grown(n, kept[n - 1])
      <4>1. n \in 0 .. N /\ n # 0
        OBVIOUS
      <4>2. kept[n] = IF \E m \in markers : n \in m[1] .. m[2] THEN kept[n - 1]
                      ELSE Append(kept[n - 1], text[n])
        BY <1>5, <4>1
      <4>. QED
        BY <4>2, Zenon DEF Covered
    <3>. QED
      BY <3>1, <3>2
  <2>2. GoAlike(kept, f, N)
    <3>. HIDE DEF Grown
    <3>. QED
      BY <1>3, <2>1 DEF GoAlike
  <2>3. \A n \in 0 .. N : kept[n] = f[n]
    BY <2>2, Agreement
  <2>4. kept = [n \in 0 .. N |-> kept[n]] /\ f = [n \in 0 .. N |-> f[n]]
    BY <1>3, <1>5
  <2>. QED
    BY <2>3, <2>4
<1>7. Remains(text, markers) = kept /\ Without(text, markers) = kept[N]
  BY <1>0, Zenon DEF Remains, Without
<1>8. KeepsOf(f, T, text, markers)
  BY <1>0, <1>3 DEF KeepsOf
<1>. HIDE DEF kept
<1>. QED
  BY <1>0, <1>6, <1>7, <1>8

\* Places in a text, each after its first character.
Spans(N) == {m \in (1 .. N) \X (1 .. N) : m[1] < m[2]}

\* Markers that begin later do not matter.
LEMMA KeptAgree ==
  ASSUME NEW T, NEW t \in Seq(T), NEW g \in SUBSET Spans(Len(t)), NEW m \in Spans(Len(t)),
         NEW a \in 0 .. Len(t), a < m[1]
  PROVE  Remains(t, g \cup {m})[a] = Remains(t, g)[a]
<1>1. PICK N \in Nat : N = Len(t)
  OBVIOUS
<1>2. PICK h : h = g \cup {m}
  OBVIOUS
<1>3. PICK f, k : f = Remains(t, g) /\ k = Remains(t, h)
  OBVIOUS
<1>4. KeepsOf(f, T, t, g) /\ KeepsOf(k, T, t, h)
  BY <1>3, KeptDefined
<1>5. m[1] \in Nat
  BY <1>1 DEF Spans
<1>6. \A n \in 1 .. a : n \in 1 .. N /\ (Covered(n, g) <=> Covered(n, h))
  <2>1. ASSUME NEW n \in 1 .. a PROVE n \in 1 .. N /\ n \notin m[1] .. m[2]
    BY <1>1, <1>5
  <2>. QED
    BY <1>2, <2>1 DEF Covered
<1>7. GoAlike(k, f, a)
  <2>1. ASSUME NEW n \in 1 .. a, k[n - 1] = f[n - 1] PROVE k[n] = f[n]
    <3>1. n \in 1 .. Len(t) /\ (Covered(n, g) <=> Covered(n, h))
      BY <1>1, <1>6
    <3>2. CASE Covered(n, g)
      BY <1>4, <2>1, <3>1, <3>2 DEF KeepsOf
    <3>3. CASE ~Covered(n, g)
      <4>1. f[n] = Append(f[n - 1], t[n]) /\ k[n] = Append(k[n - 1], t[n])
        BY <1>4, <3>1, <3>3 DEF KeepsOf
      <4>. QED
        BY <2>1, <4>1
    <3>. QED
      BY <3>2, <3>3
  <2>2. k[0] = f[0]
    BY <1>4 DEF KeepsOf
  <2>. QED
    BY <2>1, <2>2 DEF GoAlike
<1>8. a \in Nat
  BY <1>1
<1>. QED
  BY <1>2, <1>3, <1>7, <1>8, Agreement

\* Characters after all markers are kept.
LEMMA KeptAdds ==
  ASSUME NEW T, NEW t \in Seq(T), NEW g \in SUBSET Spans(Len(t)),
         NEW b \in 0 .. Len(t), NEW a \in 0 .. b, \A m \in g : m[2] <= a
  PROVE  Remains(t, g)[a] \in Seq(T) /\ Remains(t, g)[b] = Remains(t, g)[a] \o Part(t, a, b)
<1>1. PICK N \in Nat : N = Len(t)
  OBVIOUS
<1>2. PICK f : f = Remains(t, g)
  OBVIOUS
<1>3. KeepsOf(f, T, t, g)
  BY <1>2, KeptDefined
<1>4. \A n \in 0 .. N : f[n] \in Seq(T)
  BY <1>1, <1>3 DEF KeepsOf
<1>5. ASSUME NEW n \in a + 1 .. b PROVE n \in 1 .. N /\ f[n] = Append(f[n - 1], t[n])
  <2>1. n \in 1 .. Len(t)
    OBVIOUS
  <2>2. ASSUME NEW m \in g PROVE n \notin m[1] .. m[2]
    <3>1. m[2] \in Nat /\ m[1] \in Nat /\ m[2] <= a
      BY <1>1 DEF Spans
    <3>. QED
      BY <3>1
  <2>3. ~Covered(n, g)
    BY <2>2 DEF Covered
  <2>. QED
    BY <1>1, <1>3, <2>1, <2>3 DEF KeepsOf
<1>6. f[a] \in Seq(T)
  BY <1>1, <1>4
<1>. DEFINE S == {n \in a .. b : f[n] = f[a] \o Part(t, a, n)}
<1>7. a \in S
  <2>1. PICK none : none = Part(t, a, a)
    OBVIOUS
  <2>2. none \in Seq(T) /\ IsPart(none, t, a, a)
    <3>1. a \in 0 .. Len(t) /\ a \in 0 .. a
      OBVIOUS
    <3>. QED
      BY <2>1, <3>1, PartHolds
  <2>3. Len(none) = 0
    BY <2>2 DEF IsPart
  <2>4. none = <<>>
    BY <2>2, <2>3
  <2>5. f[a] \o none = f[a]
    BY <1>6, <2>4
  <2>. QED
    BY <2>1, <2>5
<1>8. ASSUME NEW n \in a + 1 .. b, n - 1 \in S PROVE n \in S
  <2>1. PICK p, q, c : p = Part(t, a, n - 1) /\ q = Part(t, a, n) /\ c = Part(t, n - 1, n)
    OBVIOUS
  <2>2. n \in 0 .. Len(t) /\ n - 1 \in 0 .. n /\ n - 1 \in 0 .. Len(t) /\ a \in 0 .. n - 1
    BY <1>1, <1>5
  <2>3. p \in Seq(T) /\ c \in Seq(T) /\ IsPart(c, t, n - 1, n)
    BY <2>1, <2>2, PartHolds
  <2>4. p \o c = q
    BY <2>1, <2>2, PartsJoin
  <2>5. c = <<t[n]>>
    <3>1. Len(c) = 1 /\ c[1] = t[n]
      <4>1. n - (n - 1) = 1 /\ (n - 1) + 1 = n /\ 1 \in 1 .. n - (n - 1)
        OBVIOUS
      <4>. QED
        BY <2>3, <4>1 DEF IsPart
    <3>2. t[n] \in T
      BY <1>5
    <3>3. <<t[n]>> \in Seq(T) /\ Len(<<t[n]>>) = 1 /\ <<t[n]>>[1] = t[n]
      BY <3>2
    <3>. QED
      BY <2>3, <3>1, <3>3, SeqEqual
  <2>6. f[n - 1] = f[a] \o p
    BY <1>8, <2>1
  <2>7. f[n] = Append(f[a] \o p, t[n])
    BY <1>5, <2>6
  <2>8. t[n] \in T
    BY <1>5
  <2>9. Append(f[a] \o p, t[n]) = f[a] \o (p \o <<t[n]>>)
    <3>1. PICK u \in Seq(T) : u = f[a]
      BY <1>6
    <3>2. PICK v \in Seq(T) : v = p
      BY <2>3
    <3>3. PICK d \in T : d = t[n]
      BY <2>8
    <3>4. <<d>> \in Seq(T) /\ u \o v \in Seq(T)
      OBVIOUS
    <3>5. PICK w \in Seq(T) : w = u \o v
      BY <3>4
    <3>6. PICK x, y : x = Append(w, d) /\ y = w \o <<d>>
      OBVIOUS
    <3>7. y \in Seq(T) /\ Len(y) = Len(w) + 1 /\ y[Len(w) + 1] = d
          /\ \A i \in 1 .. Len(w) : y[i] = w[i]
      <4>1. y \in Seq(T) /\ Concat(y, w, <<d>>)
        BY <3>4, <3>6, ConcatElements
      <4>2. Len(<<d>>) = 1 /\ <<d>>[1] = d /\ 1 \in 1 .. 1
        OBVIOUS
      <4>. QED
        BY <4>1, <4>2 DEF Concat
    <3>8. x \in Seq(T) /\ Len(x) = Len(w) + 1 /\ x[Len(w) + 1] = d /\ \A i \in 1 .. Len(w) : x[i] = w[i]
      BY <3>6
    <3>9. x = y
      <4>1. \A i \in 1 .. Len(x) : x[i] = y[i]
        <5>1. \A i \in 1 .. Len(w) + 1 : i = Len(w) + 1 \/ i \in 1 .. Len(w)
          OBVIOUS
        <5>. QED
          BY <3>7, <3>8, <5>1
      <4>. QED
        BY <3>7, <3>8, <4>1, SeqEqual
    <3>10. (u \o v) \o <<d>> = u \o (v \o <<d>>)
      BY <3>4, ConcatAssociative
    <3>. QED
      BY <3>1, <3>2, <3>3, <3>5, <3>6, <3>9, <3>10
  <2>10. n \in a .. b
    OBVIOUS
  <2>. QED
    BY <2>1, <2>4, <2>5, <2>7, <2>9, <2>10
<1>9. \A n \in a .. b : n \in S
  <2>1. a \in Nat /\ b \in Nat
    BY <1>1
  <2>. HIDE DEF S
  <2>. QED
    BY <1>7, <1>8, <2>1, InductionFrom
<1>10. b \in S
  <2>1. b \in a .. b
    OBVIOUS
  <2>. QED
    BY <1>9, <2>1
<1>. QED
  BY <1>2, <1>6, <1>10

\* The characters of a marker are not.
LEMMA KeptSkips ==
  ASSUME NEW T, NEW t \in Seq(T), NEW g \in SUBSET Spans(Len(t)), NEW m \in g
  PROVE  Remains(t, g)[m[2]] = Remains(t, g)[m[1] - 1]
<1>1. PICK N \in Nat : N = Len(t)
  OBVIOUS
<1>2. PICK f : f = Remains(t, g)
  OBVIOUS
<1>3. KeepsOf(f, T, t, g)
  BY <1>2, KeptDefined
<1>4. PICK q \in 1 .. N, e \in 1 .. N : q = m[1] /\ e = m[2] /\ q < e
  BY <1>1 DEF Spans
<1>5. ASSUME NEW n \in q .. e PROVE f[n] = f[n - 1]
  <2>1. n \in 1 .. Len(t) /\ Covered(n, g)
    BY <1>1, <1>4 DEF Covered
  <2>. QED
    BY <1>3, <2>1 DEF KeepsOf
<1>. DEFINE S == {n \in q - 1 .. e : f[n] = f[q - 1]}
<1>6. q - 1 \in S
  <2>1. q - 1 \in q - 1 .. e
    BY <1>4
  <2>. QED
    BY <2>1
<1>7. ASSUME NEW n \in (q - 1) + 1 .. e, n - 1 \in S PROVE n \in S
  BY <1>5, <1>7
<1>8. \A n \in q - 1 .. e : n \in S
  <2>1. q - 1 \in Nat /\ e \in Nat
    OBVIOUS
  <2>. HIDE DEF S
  <2>. QED
    BY <1>6, <1>7, <2>1, InductionFrom
<1>9. e \in S
  <2>1. e \in q - 1 .. e
    BY <1>4
  <2>. QED
    BY <1>8, <2>1
<1>. QED
  BY <1>2, <1>4, <1>9

LEMMA FindHolds ==
  ASSUME NEW T, NEW s \in Seq(T), NEW c, NEW p, p = Find(s, c)
  PROVE  /\ p \in 0 .. Len(s)
         /\ p = 0 => \A i \in 1 .. Len(s) : s[i] # c
         /\ p # 0 => s[p] = c /\ \A i \in 1 .. p - 1 : s[i] # c
<1>1. p = Position(c, s)
  BY Zenon DEF Find, Position
<1>2. IsPosition(p, c, s)
  BY <1>1, PositionHolds
<1>3. \A x : x \in ToSet(s) <=> \E i \in 1 .. Len(s) : s[i] = x
  BY ToSetFinite
<1>. QED
  BY <1>2, <1>3 DEF IsPosition

Progress == [out : Seq(STRING), pending : Seq(STRING)]

\* From a to b, a pass of the loop takes all without a bracket ...
TakesAll(s, r, t, a, b) ==
  /\ \A k \in a + 1 .. b : t[k] # "["
  /\ r.out = s.out \o Part(t, a, b) /\ r.pending = Part(t, b, b)

Opens(t, a, b, q) == q \in a + 1 .. b /\ t[q] = "[" /\ \A k \in a + 1 .. q - 1 : t[k] # "["

\* ... or all up to an open bracket at q ...
Waits(s, r, t, a, b, q) ==
  /\ \A k \in q .. b : t[k] # "]"
  /\ r.out = s.out \o Part(t, a, q - 1) /\ r.pending = Part(t, q - 1, b)

\* ... or an open bracket that is too long ...
Releases(s, r, t, a, b, q) ==
  /\ \A k \in q .. b : t[k] # "]"
  /\ (b - q) + 1 > HoldBack
  /\ r.out = s.out \o Part(t, a, q) /\ r.pending = Part(t, q, b)

\* ... or a candidate.
Decides(s, r, t, a, b, q, e, c) ==
  /\ e \in q + 1 .. b /\ t[e] = "]" /\ \A k \in q .. e - 1 : t[k] # "]"
  /\ r.pending = Part(t, e, b)
  /\ r.out = IF Passes(Part(t, q - 1, e), c) THEN s.out \o Part(t, a, e) ELSE s.out \o Part(t, a, q - 1)

Moves(s, r, t, a, b, c) ==
  \/ TakesAll(s, r, t, a, b)
  \/ \E q : /\ Opens(t, a, b, q)
            /\ \/ Waits(s, r, t, a, b, q)
               \/ Releases(s, r, t, a, b, q)
               \/ \E e : Decides(s, r, t, a, b, q, e, c)

LEMMA PassMoves ==
  ASSUME NEW t \in Seq(STRING), NEW b \in 0 .. Len(t), NEW a \in 0 .. b, NEW c \in Nat,
         NEW s \in Progress, s.pending = Part(t, a, b), NEW r, r = LoopPass(s, c)
  PROVE  r \in Progress /\ Moves(s, r, t, a, b, c)
<1>1. PICK N \in Nat : N = Len(t)
  OBVIOUS
<1>2. PICK p : p = s.pending
  OBVIOUS
<1>3. p \in Seq(STRING) /\ IsPart(p, t, a, b) /\ s.out \in Seq(STRING)
  BY <1>2, PartHolds DEF Progress
<1>4. PICK o \in Seq(STRING) : o = s.out
  BY <1>3
<1>5. Len(p) = b - a /\ b - a \in Nat
  BY <1>1, <1>3 DEF IsPart
<1>6. PICK start : start = Find(p, "[")
  OBVIOUS
<1>7. /\ start \in 0 .. b - a
      /\ start = 0 => \A i \in 1 .. b - a : p[i] # "["
      /\ start # 0 => p[start] = "[" /\ \A i \in 1 .. start - 1 : p[i] # "["
  BY <1>3, <1>5, <1>6, FindHolds
<1>8. \A k \in a + 1 .. b : \E i \in 1 .. b - a : k = a + i /\ t[k] = p[i]
  <2>1. ASSUME NEW k \in a + 1 .. b PROVE \E i \in 1 .. b - a : k = a + i /\ t[k] = p[i]
    <3>1. k - a \in 1 .. b - a /\ k = a + (k - a)
      BY <1>1
    <3>. QED
      BY <1>3, <3>1 DEF IsPart
  <2>. QED
    BY <2>1
<1>9. CASE start = 0
  <2>1. r = [out |-> s.out \o p, pending |-> <<>>]
    BY <1>2, <1>6, <1>9 DEF LoopPass
  <2>2. \A k \in a + 1 .. b : t[k] # "["
    BY <1>7, <1>8, <1>9
  <2>3. Part(t, b, b) = <<>>
    <3>1. b \in 0 .. Len(t) /\ b \in 0 .. b
      BY <1>1
    <3>2. PICK none : none = Part(t, b, b)
      OBVIOUS
    <3>3. none \in Seq(STRING) /\ Len(none) = b - b
      BY <3>1, <3>2, PartHolds DEF IsPart
    <3>. QED
      BY <1>1, <3>2, <3>3
  <2>4. r \in Progress
    <3>1. o \o p \in Seq(STRING) /\ <<>> \in Seq(STRING)
      BY <1>3
    <3>. QED
      BY <1>4, <2>1, <3>1 DEF Progress
  <2>5. TakesAll(s, r, t, a, b)
    BY <1>2, <2>1, <2>2, <2>3 DEF TakesAll
  <2>. QED
    BY <2>4, <2>5 DEF Moves
<1>10. CASE start # 0
  <2>1. PICK q \in Nat : q = a + start
    BY <1>1, <1>7
  <2>2. start \in 1 .. b - a /\ q \in a + 1 .. b /\ q - 1 = a + (start - 1) /\ q - 1 \in a .. b
    BY <1>1, <1>7, <1>10, <2>1
  <2>3. Opens(t, a, b, q)
    <3>1. t[q] = "["
      BY <1>3, <1>7, <1>10, <2>1, <2>2 DEF IsPart
    <3>2. ASSUME NEW k \in a + 1 .. q - 1 PROVE t[k] # "["
      <4>1. k \in a + 1 .. b
        BY <1>1, <2>2
      <4>2. PICK i \in 1 .. b - a : k = a + i /\ t[k] = p[i]
        BY <1>8, <4>1
      <4>3. i \in 1 .. start - 1
        BY <1>1, <1>5, <2>1, <2>2, <4>2
      <4>. QED
        BY <1>7, <1>10, <4>2, <4>3
    <3>. QED
      BY <2>2, <3>1, <3>2 DEF Opens
  <2>4. PICK text, opened : text = SubSeq(p, 1, start - 1) /\ opened = SubSeq(p, start, Len(p))
    OBVIOUS
  <2>5. text = Part(t, a, q - 1)
    <3>1. text = Part(p, 0, start - 1)
      BY <2>4 DEF Part
    <3>2. start - 1 \in 0 .. b - a /\ 0 \in 0 .. start - 1 /\ a + 0 = a
      BY <1>1, <1>5, <2>2
    <3>3. Part(p, 0, start - 1) = Part(t, a + 0, a + (start - 1))
      BY <1>2, <3>2, PartOfPart
    <3>. QED
      BY <2>2, <3>1, <3>2, <3>3
  <2>6. opened = Part(t, q - 1, b)
    <3>1. opened = Part(p, start - 1, b - a)
      <4>1. (start - 1) + 1 = start
        BY <1>7
      <4>. QED
        BY <1>5, <2>4, <4>1 DEF Part
    <3>2. b - a \in 0 .. b - a /\ start - 1 \in 0 .. b - a /\ a + (b - a) = b
      BY <1>1, <1>5, <2>2
    <3>3. Part(p, start - 1, b - a) = Part(t, a + (start - 1), a + (b - a))
      BY <1>2, <3>2, PartOfPart
    <3>. QED
      BY <2>2, <3>1, <3>2, <3>3
  <2>7. q - 1 \in 0 .. b /\ q - 1 \in 0 .. Len(t) /\ a \in 0 .. q - 1 /\ q - 1 \in Nat /\ q \in 0 .. b /\ a \in 0 .. q
        /\ q \in 0 .. Len(t) /\ q - 1 \in 0 .. q
    BY <1>1, <2>2
  <2>8. text \in Seq(STRING) /\ opened \in Seq(STRING) /\ IsPart(opened, t, q - 1, b)
    BY <2>5, <2>6, <2>7, PartHolds
  <2>9. Len(opened) = (b - q) + 1 /\ Len(opened) \in Nat /\ Len(opened) # 0
    <3>1. Len(opened) = b - (q - 1)
      BY <2>8 DEF IsPart
    <3>. QED
      BY <1>1, <2>2, <3>1
  <2>10. PICK end : end = Find(opened, "]")
    OBVIOUS
  <2>11. /\ end \in 0 .. Len(opened)
         /\ end = 0 => \A i \in 1 .. Len(opened) : opened[i] # "]"
         /\ end # 0 => opened[end] = "]" /\ \A i \in 1 .. end - 1 : opened[i] # "]"
    BY <2>8, <2>10, FindHolds
  <2>12. \A k \in q .. b : \E i \in 1 .. Len(opened) : k = (q - 1) + i /\ t[k] = opened[i]
    <3>1. ASSUME NEW k \in q .. b PROVE \E i \in 1 .. Len(opened) : k = (q - 1) + i /\ t[k] = opened[i]
      <4>1. k - (q - 1) \in 1 .. Len(opened) /\ k = (q - 1) + (k - (q - 1)) /\ k - (q - 1) \in 1 .. b - (q - 1)
        BY <1>1, <2>9
      <4>. QED
        BY <2>8, <4>1 DEF IsPart
    <3>. QED
      BY <3>1
  <2>13. TooLong(opened) <=> (b - q) + 1 > HoldBack
    BY <2>9 DEF TooLong
  <2>14. o \o text \in Seq(STRING)
    BY <2>8
  <2>15. CASE end = 0
    <3>1. \A k \in q .. b : t[k] # "]"
      BY <2>11, <2>12, <2>15
    <3>2. CASE ~TooLong(opened)
      <4>1. r = [out |-> s.out \o text, pending |-> opened]
        BY <1>2, <1>6, <1>7, <1>10, <2>4, <2>10, <2>15, <3>2 DEF LoopPass
      <4>2. Waits(s, r, t, a, b, q)
        <5>0. r.out = o \o text
          BY <1>4, <4>1
        <5>1. r.out = s.out \o Part(t, a, q - 1)
          BY <1>4, <2>5, <5>0
        <5>2. r.pending = Part(t, q - 1, b)
          BY <2>6, <4>1
        <5>. QED
          BY <3>1, <5>1, <5>2 DEF Waits
      <4>3. r \in Progress
        BY <1>4, <2>8, <2>14, <4>1 DEF Progress
      <4>. QED
        BY <2>3, <4>2, <4>3 DEF Moves
    <3>3. CASE TooLong(opened)
      <4>1. r = [out |-> s.out \o text \o <<"[">>, pending |-> Tail(opened)]
        BY <1>2, <1>6, <1>7, <1>10, <2>4, <2>10, <2>15, <3>3 DEF LoopPass
      <4>2. Tail(opened) = Part(t, q, b)
        <5>1. opened # <<>>
          BY <2>9
        <5>2. Tail(opened) = SubSeq(opened, 2, Len(opened))
          BY <2>8, <5>1, TailIsSubSeq
        <5>3. Tail(opened) = Part(opened, 1, Len(opened))
          BY <5>2 DEF Part
        <5>4. Len(opened) \in 0 .. b - (q - 1) /\ 1 \in 0 .. Len(opened) /\ (q - 1) + 1 = q /\ (q - 1) + Len(opened) = b
          BY <1>1, <2>7, <2>9
        <5>5. Part(opened, 1, Len(opened)) = Part(t, (q - 1) + 1, (q - 1) + Len(opened))
          BY <2>6, <2>7, <5>4, PartOfPart
        <5>. QED
          BY <5>3, <5>4, <5>5
      <4>3. <<"[">> = Part(t, q - 1, q)
        <5>1. PICK one : one = Part(t, q - 1, q)
          OBVIOUS
        <5>2. one \in Seq(STRING) /\ IsPart(one, t, q - 1, q)
          BY <2>7, <5>1, PartHolds
        <5>3. Len(one) = 1 /\ one[1] = "["
          <6>1. q - (q - 1) = 1 /\ (q - 1) + 1 = q /\ 1 \in 1 .. q - (q - 1) /\ t[q] = "["
            BY <2>3 DEF Opens
          <6>. QED
            BY <5>2, <6>1 DEF IsPart
        <5>. QED
          BY <5>1, <5>2, <5>3
      <4>4. s.out \o text \o <<"[">> = s.out \o Part(t, a, q)
        <5>1. PICK one \in Seq(STRING) : one = <<"[">>
          BY <2>7, <4>3, PartHolds
        <5>2. (o \o text) \o one = o \o (text \o one)
          <6>1. o \in Seq(STRING) /\ text \in Seq(STRING) /\ one \in Seq(STRING)
            BY <2>8
          <6>. QED
            BY ONLY <6>1, ConcatAssociative
        <5>3. text \o one = Part(t, a, q)
          BY <2>5, <2>7, <4>3, <5>1, PartsJoin
        <5>. QED
          BY <1>4, <5>1, <5>2, <5>3
      <4>5. Releases(s, r, t, a, b, q)
        <5>0. r.out = (o \o text) \o <<"[">>
          BY <1>4, <4>1
        <5>1. r.out = s.out \o Part(t, a, q)
          BY <1>4, <4>4, <5>0
        <5>2. r.pending = Part(t, q, b)
          BY <4>1, <4>2
        <5>3. (b - q) + 1 > HoldBack
          BY <2>13, <3>3
        <5>. QED
          BY <3>1, <5>1, <5>2, <5>3 DEF Releases
      <4>6. r \in Progress
        <5>1. PICK more : more = Part(t, a, q)
          OBVIOUS
        <5>2. more \in Seq(STRING)
          BY <2>7, <5>1, PartHolds
        <5>3. o \o more \in Seq(STRING)
          BY <5>2
        <5>4. PICK rest : rest = Part(t, q, b)
          OBVIOUS
        <5>5. rest \in Seq(STRING)
          BY <2>7, <5>4, PartHolds
        <5>6. r = [out |-> o \o more, pending |-> rest]
          BY <1>4, <4>1, <4>2, <4>4, <5>1, <5>4
        <5>. QED
          BY <5>3, <5>5, <5>6 DEF Progress
      <4>. QED
        BY <2>3, <4>5, <4>6 DEF Moves
    <3>. QED
      BY <3>2, <3>3
  <2>16. CASE end # 0
    <3>1. PICK e \in Nat : e = (q - 1) + end
      BY <2>7, <2>11
    <3>2. end \in 1 .. Len(opened) /\ e \in q .. b /\ t[e] = "]"
      <4>1. end \in 1 .. Len(opened) /\ e \in q .. b /\ end \in 1 .. b - (q - 1)
        BY <1>1, <2>7, <2>9, <2>11, <2>16, <3>1
      <4>2. t[e] = "]"
        BY <2>8, <2>11, <2>16, <3>1, <4>1 DEF IsPart
      <4>. QED
        BY <4>1, <4>2
    <3>3. e \in q + 1 .. b
      <4>1. e # q
        BY <2>3, <3>2 DEF Opens
      <4>. QED
        BY <1>1, <3>2, <4>1
    <3>4. ASSUME NEW k \in q .. e - 1 PROVE t[k] # "]"
      <4>1. k \in q .. b
        BY <1>1, <3>2
      <4>2. PICK i \in 1 .. Len(opened) : k = (q - 1) + i /\ t[k] = opened[i]
        BY <2>12, <4>1
      <4>3. i \in 1 .. end - 1
        BY <2>7, <2>9, <3>1, <3>2, <4>2
      <4>. QED
        BY <2>11, <2>16, <4>2, <4>3
    <3>5. PICK candidate, rest : candidate = SubSeq(opened, 1, end) /\ rest = SubSeq(opened, end + 1, Len(opened))
      OBVIOUS
    <3>6. candidate = Part(t, q - 1, e)
      <4>1. candidate = Part(opened, 0, end)
        BY <3>5 DEF Part
      <4>2. end \in 0 .. b - (q - 1) /\ 0 \in 0 .. end /\ (q - 1) + 0 = q - 1
        BY <1>1, <2>7, <2>9, <3>2
      <4>3. Part(opened, 0, end) = Part(t, (q - 1) + 0, (q - 1) + end)
        BY <2>6, <2>7, <4>2, PartOfPart
      <4>. QED
        BY <3>1, <4>1, <4>2, <4>3
    <3>7. rest = Part(t, e, b)
      <4>1. rest = Part(opened, end, Len(opened))
        BY <3>5 DEF Part
      <4>2. Len(opened) \in 0 .. b - (q - 1) /\ end \in 0 .. Len(opened) /\ (q - 1) + Len(opened) = b
        BY <1>1, <2>7, <2>9, <3>2
      <4>3. Part(opened, end, Len(opened)) = Part(t, (q - 1) + end, (q - 1) + Len(opened))
        BY <2>6, <2>7, <4>2, PartOfPart
      <4>. QED
        BY <3>1, <4>1, <4>2, <4>3
    <3>8. r = [out |-> s.out \o text \o (IF Passes(candidate, c) THEN candidate ELSE <<>>), pending |-> rest]
      <4>1. start > 0 /\ end > 0 /\ ~(start = 0) /\ ~(end = 0)
        BY <1>7, <1>10, <2>11, <2>16
      <4>. QED
        BY <1>2, <1>6, <2>4, <2>10, <3>5, <4>1 DEF LoopPass
    <3>9. e \in 0 .. b /\ e \in 0 .. Len(t) /\ q - 1 \in 0 .. e /\ a \in 0 .. e
      BY <1>1, <2>7, <3>3
    <3>10. candidate \in Seq(STRING) /\ rest \in Seq(STRING)
      BY <3>6, <3>7, <3>9, PartHolds
    <3>11. (o \o text) \o candidate = o \o Part(t, a, e)
      <4>1. (o \o text) \o candidate = o \o (text \o candidate)
        <5>1. o \in Seq(STRING) /\ text \in Seq(STRING) /\ candidate \in Seq(STRING)
          BY <2>8, <3>10
        <5>. QED
          BY ONLY <5>1, ConcatAssociative
      <4>2. text \o candidate = Part(t, a, e)
        BY <2>5, <2>7, <3>6, <3>9, PartsJoin
      <4>. QED
        BY <4>1, <4>2
    <3>12. (o \o text) \o <<>> = o \o text
      BY <2>14, ConcatEmptySeq
    <3>13. r.pending = Part(t, e, b)
           /\ r.out = IF Passes(Part(t, q - 1, e), c) THEN s.out \o Part(t, a, e) ELSE s.out \o Part(t, a, q - 1)
      <4>1. r.pending = Part(t, e, b)
        BY <3>7, <3>8
      <4>2. CASE Passes(candidate, c)
        <5>1. r.out = (o \o text) \o candidate
          BY <1>4, <3>8, <4>2
        <5>. QED
          BY <1>4, <3>6, <3>11, <4>1, <4>2, <5>1
      <4>3. CASE ~Passes(candidate, c)
        <5>1. r.out = (o \o text) \o <<>>
          BY <1>4, <3>8, <4>3
        <5>2. r.out = s.out \o Part(t, a, q - 1)
          BY <1>4, <2>5, <3>12, <5>1
        <5>. QED
          BY <3>6, <4>1, <4>3, <5>2
      <4>. QED
        BY <4>2, <4>3
    <3>14. Decides(s, r, t, a, b, q, e, c)
      BY <3>2, <3>3, <3>4, <3>13 DEF Decides
    <3>15. r \in Progress
      <4>1. (o \o text) \o candidate \in Seq(STRING)
        BY <2>14, <3>10
      <4>2. r = [out |-> IF Passes(candidate, c) THEN (o \o text) \o candidate ELSE o \o text, pending |-> rest]
        BY <1>4, <3>8, <3>12
      <4>3. PICK w \in Seq(STRING) : w = IF Passes(candidate, c) THEN (o \o text) \o candidate ELSE o \o text
        <5>1. CASE Passes(candidate, c)
          BY <4>1, <5>1
        <5>2. CASE ~Passes(candidate, c)
          BY <2>14, <5>2
        <5>. QED
          BY <5>1, <5>2
      <4>4. r = [out |-> w, pending |-> rest]
        BY <4>2, <4>3
      <4>. QED
        BY <3>10, <4>4 DEF Progress
    <3>. QED
      BY <2>3, <3>14, <3>15 DEF Moves
  <2>. QED
    BY <2>15, <2>16
<1>. QED
  BY <1>9, <1>10

LEMMA DigitsAreNoBrackets ==
  "]" \notin ToSet(Digits)
<1>1. DOMAIN Digits = 1 .. 10
  BY DEF Digits
<1>2. \A i \in 1 .. 10 : Digits[i] # "]"
  <2>1. /\ Digits[1] = "0" /\ Digits[2] = "1" /\ Digits[3] = "2" /\ Digits[4] = "3" /\ Digits[5] = "4"
        /\ Digits[6] = "5" /\ Digits[7] = "6" /\ Digits[8] = "7" /\ Digits[9] = "8" /\ Digits[10] = "9"
    BY DEF Digits
  <2>2. \A i \in 1 .. 10 : \/ i = 1 \/ i = 2 \/ i = 3 \/ i = 4 \/ i = 5 \/ i = 6 \/ i = 7 \/ i = 8 \/ i = 9 \/ i = 10
    OBVIOUS
  <2>. QED
    BY <2>1, <2>2
<1>. QED
  BY <1>1, <1>2, Zenon DEF ToSet

\* Where a marker is: between brackets, and short.
IsPlace(m, t) ==
  /\ m \in Spans(Len(t))
  /\ t[m[1]] = "[" /\ t[m[2]] = "]" /\ m[2] - m[1] <= 4
  /\ \A k \in m[1] .. m[2] - 1 : t[k] # "]"

LEMMA MarkerHolds ==
  ASSUME NEW t \in Seq(STRING), NEW m \in Markers(t)
  PROVE  IsPlace(m, t)
<1>1. PICK N \in Nat : N = Len(t)
  OBVIOUS
<1>2. m \in (1 .. N) \X (1 .. N) /\ m[1] < m[2] /\ IsMarker(SubSeq(t, m[1], m[2]))
  BY <1>1 DEF Markers
<1>3. PICK q \in 1 .. N, e \in 1 .. N : q = m[1] /\ e = m[2] /\ q < e
  BY <1>2
<1>11. q < e
  BY <1>3
<1>12. PICK L \in Nat : L = e - (q - 1) /\ 2 <= L /\ L = (e - q) + 1
  BY <1>11
<1>13. \A i : i \in 1 .. e - (q - 1) <=> i \in 1 .. L
  BY <1>12
<1>14. \A i \in Int : (q - 1) + i = e <=> i = L
  BY <1>12
<1>4. PICK p : p = Part(t, q - 1, e)
  OBVIOUS
<1>5. p = SubSeq(t, q, e) /\ IsMarker(p)
  <2>1. (q - 1) + 1 = q
    OBVIOUS
  <2>. QED
    BY <1>2, <1>3, <1>4, <2>1 DEF Part
<1>6. p \in Seq(STRING) /\ IsPart(p, t, q - 1, e)
  <2>1. e \in 0 .. Len(t) /\ q - 1 \in 0 .. e
    BY <1>1, <1>3
  <2>. QED
    BY <1>4, <2>1, PartHolds
<1>7. Len(p) = e - (q - 1) /\ Len(p) \in 3 .. 5 /\ p[1] = "[" /\ p[Len(p)] = "]"
      /\ \A i \in 2 .. Len(p) - 1 : p[i] \in ToSet(Digits)
  BY <1>5, <1>6 DEF IsPart, IsMarker
<1>8. t[q] = "[" /\ t[e] = "]"
  <2>1. 1 \in 1 .. e - (q - 1) /\ L \in 1 .. e - (q - 1)
    BY <1>12, <1>13
  <2>2. (q - 1) + 1 = q /\ (q - 1) + L = e
    BY <1>12
  <2>3. p[1] = t[q] /\ p[L] = t[e]
    BY <1>6, <2>1, <2>2 DEF IsPart
  <2>. QED
    BY <1>7, <1>12, <2>3
<1>9. ASSUME NEW k \in q .. e - 1 PROVE t[k] # "]"
  <2>1. CASE k = q
    BY <1>8, <2>1
  <2>2. CASE k # q
    <3>1. PICK i \in 2 .. Len(p) - 1 : i = k - (q - 1)
      <4>1. k - (q - 1) \in 2 .. L - 1
        BY <1>12, <2>2
      <4>. QED
        BY <1>7, <1>12, <4>1
    <3>2. i \in 1 .. e - (q - 1) /\ (q - 1) + i = k
      <4>1. i \in 2 .. L - 1
        BY <1>7, <1>12
      <4>. QED
        BY <1>12, <3>1, <4>1
    <3>3. p[i] = t[k]
      BY <1>6, <3>2 DEF IsPart
    <3>4. p[i] \in ToSet(Digits)
      BY <1>7, <3>1
    <3>. QED
      BY <3>3, <3>4, DigitsAreNoBrackets
  <2>. QED
    BY <2>1, <2>2
<1>10. e - q <= 4
  BY <1>7, <1>12
<1>. QED
  BY <1>1, <1>2, <1>3, <1>8, <1>9, <1>10 DEF IsPlace, Spans

\* The filter has decided on the first a characters of t, and left out the markers g.
Judged(s, a, g, t, U, b) ==
  /\ a \in 0 .. b /\ g \in SUBSET U /\ \A m \in g : m[2] <= a
  /\ s.pending = Part(t, a, b) /\ s.out = Remains(t, g)[a]

\* In a flat text none of U is left among them.
Thorough(a, g, t, U) ==
  Flat(t) => \A m \in U : (m[2] <= a => m \in g) /\ (m[1] <= a => m[2] <= a)

Clear(t, a, b) == \A k \in a + 1 .. b : t[k] # "]"

Filtered(s, a, g, t, U, A, b) == Judged(s, a, g, t, U, b) /\ Thorough(a, g, t, U) /\ Clear(t, a, A)

\* U has the markers that end in the piece after A and name none of c sources.
Knows(U, t, A, b, c) ==
  /\ U \subseteq Markers(t)
  /\ \A m \in Markers(t) :
       m[2] \in A + 1 .. b => (m \in U <=> Number(SubSeq(t, m[1], m[2])) \notin 1 .. c)

\* No marker of U begins after a, up to x.
NoneBegins(a, x, U) == \A m \in U : ~(m[1] \in a + 1 .. x)

LEMMA StaysThorough ==
  ASSUME NEW t \in Seq(STRING), NEW U \in SUBSET Markers(t), NEW g, NEW x \in Nat, NEW a \in 0 .. x,
         Thorough(a, g, t, U), Flat(t) => NoneBegins(a, x, U)
  PROVE  Thorough(x, g, t, U)
<1>1. PICK N \in Nat : N = Len(t)
  OBVIOUS
<1>2. SUFFICES ASSUME Flat(t), NEW m \in U
               PROVE  (m[2] <= x => m \in g) /\ (m[1] <= x => m[2] <= x)
  BY Zenon DEF Thorough
<1>3. IsPlace(m, t)
  BY MarkerHolds
<1>4. PICK q \in Nat, e \in Nat : q = m[1] /\ e = m[2] /\ q < e
  BY <1>1, <1>3 DEF IsPlace, Spans
<1>5. ~(q \in a + 1 .. x)
  BY <1>2, <1>4 DEF NoneBegins
<1>6. (e <= a => m \in g) /\ (q <= a => e <= a)
  BY <1>2, <1>4 DEF Thorough
<1>7. (e <= x => m \in g) /\ (q <= x => e <= x)
  BY <1>4, <1>5, <1>6
<1>. QED
  BY <1>4, <1>7

\* Going on to x without leaving anything out.
LEMMA GoesOn ==
  ASSUME NEW t \in Seq(STRING), NEW U \in SUBSET Markers(t), NEW b \in 0 .. Len(t), NEW A \in 0 .. b,
         NEW s, NEW r, NEW a, NEW g, Filtered(s, a, g, t, U, A, b), NEW x \in a .. b,
         r.out = s.out \o Part(t, a, x), r.pending = Part(t, x, b), Flat(t) => NoneBegins(a, x, U)
  PROVE  Filtered(r, x, g, t, U, A, b)
<1>1. PICK N \in Nat : N = Len(t)
  OBVIOUS
<1>2. a \in 0 .. b /\ x \in 0 .. b /\ a \in 0 .. x /\ x \in 0 .. Len(t) /\ x \in Nat
  BY <1>1 DEF Filtered, Judged
<1>3. g \in SUBSET U /\ \A m \in g : m[2] <= a
  BY DEF Filtered, Judged
<1>4. g \in SUBSET Spans(Len(t))
  BY <1>3, MarkerHolds DEF IsPlace
<1>5. r.out = Remains(t, g)[x]
  <2>1. Remains(t, g)[x] = Remains(t, g)[a] \o Part(t, a, x)
    BY <1>2, <1>3, <1>4, KeptAdds
  <2>2. s.out = Remains(t, g)[a]
    BY DEF Filtered, Judged
  <2>3. PICK o, k : o = s.out /\ k = Part(t, a, x)
    OBVIOUS
  <2>4. r.out = o \o k
    BY <2>3
  <2>. QED
    BY <2>1, <2>2, <2>3, <2>4
<1>6. \A m \in g : m[2] <= x
  <2>1. ASSUME NEW m \in g PROVE m[2] <= x
    <3>1. m[2] \in Nat /\ m[2] <= a
      BY <1>1, <1>3, <1>4 DEF Spans
    <3>. QED
      BY <1>2, <3>1
  <2>. QED
    BY <2>1
<1>7. Judged(r, x, g, t, U, b)
  BY <1>2, <1>3, <1>5, <1>6 DEF Judged
<1>8. Thorough(x, g, t, U)
  <2>1. Thorough(a, g, t, U)
    BY DEF Filtered
  <2>. QED
    BY <1>2, <2>1, StaysThorough
<1>9. Clear(t, x, A)
  <2>1. \A k \in x + 1 .. A : k \in a + 1 .. A
    BY <1>1, <1>2
  <2>. QED
    BY <2>1 DEF Filtered, Clear
<1>. QED
  BY <1>7, <1>8, <1>9 DEF Filtered

\* The first bracket after a is at q, and the one that closes it at e.
Candidate(t, a, b, q, e) ==
  /\ Opens(t, a, b, q)
  /\ e \in q + 1 .. b /\ t[e] = "]" /\ \A k \in q .. e - 1 : t[k] # "]"

\* In a flat text no other marker begins before it ends.
LEMMA CandidateIsAlone ==
  ASSUME NEW t \in Seq(STRING), NEW b \in 0 .. Len(t), NEW a \in 0 .. b, NEW q, NEW e,
         Candidate(t, a, b, q, e), Flat(t), NEW m \in Markers(t), m[1] \in a + 1 .. e
  PROVE  m = <<q, e>>
<1>1. PICK N \in Nat : N = Len(t)
  OBVIOUS
<1>2. IsPlace(m, t)
  BY MarkerHolds
<1>3. PICK i \in 1 .. N, j \in 1 .. N : i = m[1] /\ j = m[2] /\ m = <<i, j>>
  BY <1>1, <1>2 DEF IsPlace, Spans
<1>4. i < j /\ t[i] = "[" /\ t[j] = "]" /\ \A k \in i .. j - 1 : t[k] # "]"
  BY <1>2, <1>3 DEF IsPlace, Spans
<1>5. /\ q \in a + 1 .. b /\ t[q] = "[" /\ \A k \in a + 1 .. q - 1 : t[k] # "["
      /\ e \in q + 1 .. b /\ t[e] = "]" /\ \A k \in q .. e - 1 : t[k] # "]"
  BY DEF Candidate, Opens
<1>6. a \in Nat /\ b \in Nat /\ b <= N /\ q \in Nat /\ e \in Nat /\ i \in a + 1 .. e
  BY <1>1, <1>3, <1>5
<1>7. i \notin a + 1 .. q - 1
  BY <1>4, <1>5
<1>8. i = q
  <2>1. SUFFICES ASSUME q < i PROVE FALSE
    BY <1>6, <1>7
  <2>2. q \in 1 .. Len(t) /\ i \in 1 .. Len(t)
    BY <1>1, <1>5, <1>6
  <2>3. PICK k \in q .. i : t[k] = "]"
    BY <1>4, <1>5, <2>1, <2>2 DEF Flat
  <2>4. k # i
    BY <1>4, <2>3
  <2>5. k \in q .. e - 1
    BY <1>6, <2>1, <2>4
  <2>. QED
    BY <1>5, <2>3, <2>5
<1>9. j = e
  <2>1. CASE j < e
    <3>1. j \in q .. e - 1
      BY <1>4, <1>6, <1>8, <2>1
    <3>. QED
      BY <1>4, <1>5, <3>1
  <2>2. CASE e < j
    <3>1. e \in i .. j - 1
      BY <1>6, <1>8, <2>2
    <3>. QED
      BY <1>4, <1>5, <3>1
  <2>. QED
    BY <1>6, <2>1, <2>2
<1>. QED
  BY <1>3, <1>8, <1>9

\* Going on to e and leaving the marker at q out.
LEMMA LeavesOut ==
  ASSUME NEW t \in Seq(STRING), NEW U \in SUBSET Markers(t), NEW b \in 0 .. Len(t), NEW A \in 0 .. b,
         NEW s, NEW r, NEW a, NEW g, Filtered(s, a, g, t, U, A, b),
         NEW q, NEW e, Candidate(t, a, b, q, e), <<q, e>> \in U,
         r.out = s.out \o Part(t, a, q - 1), r.pending = Part(t, e, b)
  PROVE  Filtered(r, e, g \cup {<<q, e>>}, t, U, A, b)
<1>1. PICK N \in Nat : N = Len(t)
  OBVIOUS
<1>2. q \in a + 1 .. b /\ e \in q + 1 .. b /\ a \in 0 .. b
  BY DEF Candidate, Opens, Filtered, Judged
<1>3. /\ q \in Nat /\ e \in Nat /\ e \in 0 .. b /\ e \in 0 .. Len(t) /\ q - 1 \in 0 .. Len(t) /\ a \in 0 .. q - 1
      /\ q - 1 < q /\ a \in 0 .. e
  BY <1>1, <1>2
<1>4. PICK m, h : m = <<q, e>> /\ h = g \cup {m}
  OBVIOUS
<1>5. m \in U /\ m \in Markers(t) /\ m[1] = q /\ m[2] = e
  BY <1>4
<1>6. g \in SUBSET U /\ \A n \in g : n[2] <= a
  BY DEF Filtered, Judged
<1>7. U \in SUBSET Spans(Len(t))
  BY MarkerHolds DEF IsPlace
<1>8. g \in SUBSET Spans(Len(t)) /\ h \in SUBSET Spans(Len(t)) /\ h \in SUBSET U /\ m \in h /\ m \in Spans(Len(t))
  BY <1>4, <1>5, <1>6, <1>7
<1>9. r.out = Remains(t, h)[e]
  <2>1. Remains(t, g)[q - 1] = Remains(t, g)[a] \o Part(t, a, q - 1)
    BY <1>3, <1>6, <1>8, KeptAdds
  <2>2. s.out = Remains(t, g)[a]
    BY DEF Filtered, Judged
  <2>3. Remains(t, h)[q - 1] = Remains(t, g)[q - 1]
    <3>1. PICK x \in 0 .. Len(t) : x = q - 1
      BY <1>3
    <3>2. x < m[1] /\ g \in SUBSET Spans(Len(t)) /\ m \in Spans(Len(t))
      BY <1>3, <1>5, <1>8, <3>1
    <3>3. Remains(t, g \cup {m})[x] = Remains(t, g)[x]
      BY <3>2, KeptAgree
    <3>. QED
      BY <1>4, <3>1, <3>3
  <2>4. Remains(t, h)[e] = Remains(t, h)[q - 1]
    <3>1. Remains(t, h)[m[2]] = Remains(t, h)[m[1] - 1]
      BY <1>8, KeptSkips
    <3>. QED
      BY <1>5, <3>1
  <2>5. PICK o, k : o = s.out /\ k = Part(t, a, q - 1)
    OBVIOUS
  <2>6. r.out = o \o k
    BY <2>5
  <2>. QED
    BY <2>1, <2>2, <2>3, <2>4, <2>5, <2>6
<1>10. \A n \in h : n[2] <= e
  <2>1. ASSUME NEW n \in g PROVE n[2] <= e
    <3>1. n[2] \in Nat /\ n[2] <= a
      BY <1>1, <1>6, <1>8 DEF Spans
    <3>. QED
      BY <1>3, <3>1
  <2>. QED
    BY <1>3, <1>4, <1>5, <2>1
<1>11. Judged(r, e, h, t, U, b)
  BY <1>3, <1>8, <1>9, <1>10 DEF Judged
<1>12. Thorough(e, h, t, U)
  <2>1. SUFFICES ASSUME Flat(t), NEW n \in U
                 PROVE  (n[2] <= e => n \in h) /\ (n[1] <= e => n[2] <= e)
    BY Zenon DEF Thorough
  <2>2. PICK i \in Nat, j \in Nat : i = n[1] /\ j = n[2] /\ i < j
    BY <1>1, <1>7 DEF Spans
  <2>3. (j <= a => n \in g) /\ (i <= a => j <= a)
    BY <2>1, <2>2 DEF Filtered, Thorough
  <2>4. CASE i \in a + 1 .. e
    <3>1. n = m
      <4>1. n \in Markers(t) /\ n[1] \in a + 1 .. e
        BY <2>2, <2>4
      <4>. QED
        BY <1>2, <1>4, <2>1, <4>1, CandidateIsAlone
    <3>. QED
      BY <1>3, <1>5, <1>8, <3>1
  <2>5. CASE i \notin a + 1 .. e
    <3>1. (j <= e => n \in g) /\ (i <= e => j <= e)
      BY <1>3, <2>2, <2>3, <2>5
    <3>. QED
      BY <1>4, <2>2, <3>1
  <2>. QED
    BY <2>4, <2>5
<1>13. Clear(t, e, A)
  <2>1. \A k \in e + 1 .. A : k \in a + 1 .. A
    BY <1>1, <1>3
  <2>. QED
    BY <2>1 DEF Filtered, Clear
<1>. QED
  BY <1>4, <1>11, <1>12, <1>13 DEF Filtered

\* A pass goes on to some x, and leaves something undone only if x is further.
Further(r, a, t, U, A, b) ==
  \E x \in a .. b : \E h : Filtered(r, x, h, t, U, A, b) /\ (Clear(t, x, b) \/ a < x)

LEMMA PassFilters ==
  ASSUME NEW t \in Seq(STRING), NEW U \in SUBSET Markers(t), NEW b \in 0 .. Len(t), NEW A \in 0 .. b,
         NEW c \in Nat, Knows(U, t, A, b, c),
         NEW s \in Progress, NEW a, NEW g, Filtered(s, a, g, t, U, A, b), NEW r, r = LoopPass(s, c)
  PROVE  r \in Progress /\ Further(r, a, t, U, A, b)
<1>1. PICK N \in Nat : N = Len(t)
  OBVIOUS
<1>2. a \in 0 .. b /\ s.pending = Part(t, a, b)
  BY DEF Filtered, Judged
<1>3. r \in Progress /\ Moves(s, r, t, a, b, c)
  BY <1>2, PassMoves
<1>4. a \in Nat /\ b \in Nat /\ b <= N
  BY <1>1, <1>2
<1>5. \A m \in U : IsPlace(m, t)
  BY MarkerHolds
<1>6. CASE TakesAll(s, r, t, a, b)
  <2>1. b \in a .. b
    BY <1>2, <1>4
  <2>2. NoneBegins(a, b, U)
    BY <1>5, <1>6 DEF TakesAll, NoneBegins, IsPlace
  <2>3. Filtered(r, b, g, t, U, A, b)
    BY <1>6, <2>1, <2>2, GoesOn DEF TakesAll
  <2>4. Clear(t, b, b)
    BY <1>4 DEF Clear
  <2>. QED
    BY <1>3, <2>1, <2>3, <2>4 DEF Further
<1>7. ASSUME NEW q, Opens(t, a, b, q), Waits(s, r, t, a, b, q)
      PROVE  Further(r, a, t, U, A, b)
  <2>1. q \in a + 1 .. b /\ q - 1 \in a .. b /\ q \in Nat
    BY <1>4, <1>7 DEF Opens
  <2>2. NoneBegins(a, q - 1, U)
    BY <1>5, <1>7 DEF Opens, NoneBegins, IsPlace
  <2>3. Filtered(r, q - 1, g, t, U, A, b)
    BY <1>7, <2>1, <2>2, GoesOn DEF Waits
  <2>4. Clear(t, q - 1, b)
    <3>1. (q - 1) + 1 = q
      BY <2>1
    <3>. QED
      BY <1>7, <3>1 DEF Clear, Waits
  <2>. QED
    BY <2>1, <2>3, <2>4 DEF Further
<1>8. ASSUME NEW q, Opens(t, a, b, q), Releases(s, r, t, a, b, q)
      PROVE  Further(r, a, t, U, A, b)
  <2>1. q \in a + 1 .. b /\ q \in a .. b /\ q \in Nat
    BY <1>4, <1>8 DEF Opens
  <2>2. NoneBegins(a, q, U)
    <3>1. ASSUME NEW m \in U, m[1] \in a + 1 .. q PROVE FALSE
      <4>1. PICK i \in Nat, j \in Nat : i = m[1] /\ j = m[2] /\ i < j
        BY <1>1, <1>5 DEF IsPlace, Spans
      <4>2. t[i] = "[" /\ t[j] = "]" /\ j - i <= 4
        BY <1>5, <4>1 DEF IsPlace
      <4>3. i \notin a + 1 .. q - 1
        BY <1>8, <4>2 DEF Opens
      <4>4. i = q
        BY <1>4, <2>1, <3>1, <4>1, <4>3
      <4>5. (b - q) + 1 > 4
        BY <1>4, <1>8, <2>1, HoldBackAssumption DEF Releases
      <4>6. j \in q .. b
        BY <1>4, <2>1, <4>1, <4>2, <4>4, <4>5
      <4>. QED
        BY <1>8, <4>2, <4>6 DEF Releases
    <3>. QED
      BY <3>1 DEF NoneBegins
  <2>3. Filtered(r, q, g, t, U, A, b)
    BY <1>8, <2>1, <2>2, GoesOn DEF Releases
  <2>4. Clear(t, q, b)
    <3>1. \A k \in q + 1 .. b : k \in q .. b
      BY <1>4, <2>1
    <3>. QED
      BY <1>8, <3>1 DEF Clear, Releases
  <2>. QED
    BY <2>1, <2>3, <2>4 DEF Further
<1>9. ASSUME NEW q, Opens(t, a, b, q), NEW e, Decides(s, r, t, a, b, q, e, c)
      PROVE  Further(r, a, t, U, A, b)
  <2>1. q \in a + 1 .. b /\ e \in q + 1 .. b
    BY <1>9 DEF Opens, Decides
  <2>2. /\ q \in Nat /\ e \in Nat /\ e \in a .. b /\ a < e /\ (q - 1) + 1 = q /\ q \in 1 .. N /\ e \in 1 .. N
        /\ e \in a + 1 .. b /\ q < e
    BY <1>4, <2>1
  <2>3. Candidate(t, a, b, q, e)
    BY <1>9 DEF Candidate, Decides
  <2>4. e \in A + 1 .. b
    <3>1. ~(e \in a + 1 .. A)
      BY <1>9 DEF Filtered, Clear, Decides
    <3>2. A \in Nat
      BY <1>4
    <3>. QED
      BY <1>4, <2>2, <3>1, <3>2
  <2>5. PICK m : m = <<q, e>>
    OBVIOUS
  <2>6. m[1] = q /\ m[2] = e /\ Part(t, q - 1, e) = SubSeq(t, m[1], m[2])
    BY <2>2, <2>5 DEF Part
  <2>7. CASE Passes(Part(t, q - 1, e), c)
    <3>1. m \notin U
      <4>1. SUFFICES ASSUME m \in U PROVE FALSE
        OBVIOUS
      <4>2. m \in Markers(t)
        BY <4>1
      <4>3. IsMarker(SubSeq(t, m[1], m[2]))
        BY <4>2 DEF Markers
      <4>4. Number(SubSeq(t, m[1], m[2])) \in 1 .. c
        BY <2>6, <2>7, <4>3 DEF Passes
      <4>. QED
        BY <2>4, <2>6, <4>1, <4>2, <4>4 DEF Knows
    <3>2. Flat(t) => NoneBegins(a, e, U)
      <4>1. ASSUME Flat(t), NEW n \in U, n[1] \in a + 1 .. e PROVE FALSE
        <5>1. n = <<q, e>>
          BY <1>2, <2>3, <4>1, CandidateIsAlone
        <5>. QED
          BY <2>5, <3>1, <5>1
      <4>. QED
        BY <4>1 DEF NoneBegins
    <3>3. r.out = s.out \o Part(t, a, e) /\ r.pending = Part(t, e, b)
      BY <1>9, <2>7 DEF Decides
    <3>4. Filtered(r, e, g, t, U, A, b)
      BY <2>2, <3>2, <3>3, GoesOn
    <3>. QED
      BY <2>2, <3>4 DEF Further
  <2>8. CASE ~Passes(Part(t, q - 1, e), c)
    <3>1. m \in U
      <4>1. IsMarker(SubSeq(t, m[1], m[2])) /\ Number(SubSeq(t, m[1], m[2])) \notin 1 .. c
        BY <2>6, <2>8 DEF Passes
      <4>2. m \in Markers(t)
        <5>1. m \in (1 .. N) \X (1 .. N) /\ m[1] < m[2]
          BY <2>2, <2>5
        <5>. QED
          BY <1>1, <4>1, <5>1 DEF Markers
      <4>. QED
        BY <2>4, <2>6, <4>1, <4>2 DEF Knows
    <3>2. r.out = s.out \o Part(t, a, q - 1) /\ r.pending = Part(t, e, b)
      BY <1>9, <2>8 DEF Decides
    <3>3. Filtered(r, e, g \cup {<<q, e>>}, t, U, A, b)
      BY <2>3, <2>5, <3>1, <3>2, LeavesOut
    <3>. QED
      BY <2>2, <3>3 DEF Further
  <2>. QED
    BY <2>7, <2>8
<1>. QED
  BY <1>3, <1>6, <1>7, <1>8, <1>9 DEF Moves

\* What n passes over L characters lead to.
After(t, U, A, b, L, n) ==
  {s \in Progress :
     \E a \in 0 .. b : \E g : Filtered(s, a, g, t, U, A, b) /\ (Clear(t, a, b) \/ b - a <= L - n)}

LEMMA PassGetsOn ==
  ASSUME NEW t \in Seq(STRING), NEW U \in SUBSET Markers(t), NEW b \in 0 .. Len(t), NEW A \in 0 .. b,
         NEW c \in Nat, Knows(U, t, A, b, c), NEW L \in Nat, NEW n \in 1 .. L,
         NEW s \in After(t, U, A, b, L, n - 1), NEW r, r = LoopPass(s, c)
  PROVE  r \in After(t, U, A, b, L, n)
<1>1. PICK N \in Nat : N = Len(t)
  OBVIOUS
<1>2. s \in Progress
  BY DEF After
<1>3. PICK a \in 0 .. b : \E g : Filtered(s, a, g, t, U, A, b) /\ (Clear(t, a, b) \/ b - a <= L - (n - 1))
  BY DEF After
<1>4. PICK g : Filtered(s, a, g, t, U, A, b) /\ (Clear(t, a, b) \/ b - a <= L - (n - 1))
  BY <1>3
<1>5. r \in Progress /\ Further(r, a, t, U, A, b)
  BY <1>2, <1>4, PassFilters
<1>6. PICK x \in a .. b : \E h : Filtered(r, x, h, t, U, A, b) /\ (Clear(t, x, b) \/ a < x)
  BY <1>5 DEF Further
<1>7. PICK h : Filtered(r, x, h, t, U, A, b) /\ (Clear(t, x, b) \/ a < x)
  BY <1>6
<1>8. x \in 0 .. b /\ a \in Nat /\ b \in Nat /\ x \in Nat
  BY <1>1
<1>9. Clear(t, x, b) \/ b - x <= L - n
  <2>1. CASE Clear(t, a, b)
    <3>1. \A k \in x + 1 .. b : k \in a + 1 .. b
      BY <1>8
    <3>. QED
      BY <2>1, <3>1 DEF Clear
  <2>2. CASE a < x /\ ~Clear(t, a, b)
    BY <1>4, <1>8, <2>2
  <2>. QED
    BY <1>7, <2>1, <2>2
<1>. QED
  BY <1>5, <1>7, <1>8, <1>9 DEF After

LEMMA PushFilters ==
  ASSUME NEW t \in Seq(STRING), NEW U \in SUBSET Markers(t), NEW b \in 0 .. Len(t), NEW A \in 0 .. b,
         NEW c \in Nat, Knows(U, t, A, b, c),
         NEW s \in Progress, NEW a, NEW g, Filtered(s, a, g, t, U, A, A),
         NEW content, content = Part(t, A, b), NEW r, r = Push(s, content, c)
  PROVE  r \in Progress /\ \E x, h : Filtered(r, x, h, t, U, b, b)
<1>1. a \in 0 .. A /\ s.pending = Part(t, a, A) /\ A \in 0 .. Len(t) /\ a \in 0 .. b /\ b - a \in Nat
  BY DEF Filtered, Judged
<1>2. PICK buffer : buffer = s.pending \o content
  OBVIOUS
<1>3. buffer = Part(t, a, b)
  BY <1>1, <1>2, PartsJoin
<1>4. buffer \in Seq(STRING) /\ Len(buffer) = b - a
  <2>1. buffer \in Seq(STRING) /\ IsPart(buffer, t, a, b)
    BY <1>1, <1>3, PartHolds
  <2>. QED
    BY <2>1 DEF IsPart
<1>5. PICK L \in Nat : L = Len(buffer) /\ L = b - a
  BY <1>1, <1>4
<1>6. PICK base : base = [s EXCEPT !.pending = buffer]
  OBVIOUS
<1>7. base \in Progress /\ base.pending = buffer /\ base.out = s.out
  BY <1>4, <1>6 DEF Progress
<1>8. base \in After(t, U, A, b, L, 0)
  <2>1. Judged(base, a, g, t, U, b)
    BY <1>1, <1>3, <1>7 DEF Filtered, Judged
  <2>2. Filtered(base, a, g, t, U, A, b)
    BY <2>1 DEF Filtered
  <2>3. b - a <= L - 0
    BY <1>1, <1>5
  <2>. QED
    BY <1>1, <1>7, <2>2, <2>3 DEF After
<1>. DEFINE V == Progress
            Defines(f) == f = [n \in 0 .. L |-> IF n = 0 THEN base ELSE LoopPass(f[n - 1], c)]
            loop == CHOOSE f : Defines(f)
            I == [n \in 0 .. L |-> After(t, U, A, b, L, n)]
            H == [n \in 1 .. L |-> [v \in V |-> LoopPass(v, c)]]
<1>9. Leads(V, L, base, H, I)
  <2>1. base \in I[0]
    BY <1>8
  <2>2. \A n \in 0 .. L : I[n] \subseteq V
    BY DEF After
  <2>3. ASSUME NEW n \in 1 .. L, NEW v \in I[n - 1] PROVE H[n][v] \in I[n]
    <3>1. n - 1 \in 0 .. L /\ n \in 0 .. L
      OBVIOUS
    <3>2. v \in After(t, U, A, b, L, n - 1) /\ v \in V
      BY <2>2, <3>1
    <3>3. LoopPass(v, c) \in After(t, U, A, b, L, n)
      BY <3>2, PassGetsOn
    <3>4. H[n][v] = LoopPass(v, c)
      BY <3>2
    <3>5. I[n] = After(t, U, A, b, L, n)
      BY <3>1
    <3>. QED
      BY <3>3, <3>4, <3>5
  <2>. HIDE DEF V, H, I
  <2>. QED
    BY <2>1, <2>2, <2>3 DEF Leads
<1>10. PICK f : Follows(f, V, L, base, H, I)
  <2>. HIDE DEF V, H, I
  <2>. QED
    BY <1>9, InvariantIteration
<1>11. f[0] = base /\ \A n \in 1 .. L : f[n] = LoopPass(f[n - 1], c)
  <2>1. \A n \in 1 .. L : n - 1 \in 0 .. L
    OBVIOUS
  <2>. HIDE DEF I, V
  <2>. QED
    BY <1>10, <2>1 DEF Follows
<1>12. Defines(f)
  <2>1. ASSUME NEW n \in 0 .. L
        PROVE  f[n] = IF n = 0 THEN base ELSE LoopPass(f[n - 1], c)
    <3>1. n = 0 \/ n \in 1 .. L
      OBVIOUS
    <3>. QED
      BY <1>11, <3>1
  <2>. HIDE DEF V, H, I
  <2>. QED
    BY <1>10, <2>1 DEF Follows
<1>13. Defines(loop)
  BY <1>12
<1>14. loop[L] = f[L]
  <2>. HIDE DEF loop, V, H, I
  <2>1. loop[0] = base /\ \A n \in 1 .. L : loop[n] = LoopPass(loop[n - 1], c)
    BY <1>13
  <2>2. GoAlike(loop, f, L)
    BY <1>11, <2>1 DEF GoAlike
  <2>. QED
    BY <2>2, Agreement
<1>15. Push(s, content, c) = loop[L]
  BY <1>2, <1>5, <1>6, Zenon DEF Push
<1>16. f[L] \in I[L]
  <2>. HIDE DEF V, H, I
  <2>. QED
    BY <1>10 DEF Follows
<1>17. r \in After(t, U, A, b, L, L)
  <2>1. I[L] = After(t, U, A, b, L, L)
    OBVIOUS
  <2>. HIDE DEF loop, I
  <2>. QED
    BY <1>14, <1>15, <1>16, <2>1
<1>18. PICK x \in 0 .. b : \E h : Filtered(r, x, h, t, U, A, b) /\ (Clear(t, x, b) \/ b - x <= L - L)
  BY <1>17 DEF After
<1>19. PICK h : Filtered(r, x, h, t, U, A, b) /\ (Clear(t, x, b) \/ b - x <= L - L)
  BY <1>18
<1>20. Clear(t, x, b)
  <2>1. CASE b - x <= L - L
    <3>1. x \in Nat /\ b \in Nat /\ x = b
      BY <2>1
    <3>. QED
      BY <3>1 DEF Clear
  <2>. QED
    BY <1>19, <2>1
<1>21. Filtered(r, x, h, t, U, b, b)
  BY <1>19, <1>20 DEF Filtered
<1>. QED
  BY <1>17, <1>21 DEF After

Begins(u, v) == Len(u) <= Len(v) /\ \A i \in 1 .. Len(u) : v[i] = u[i]

Longer(u, v) == u \o v

\* The function that Received defines.
IsReceived(f, parts) ==
  /\ f \in [0 .. Len(parts) -> Seq(STRING)] /\ f[0] = <<>>
  /\ \A n \in 1 .. Len(parts) : f[n] = Longer(f[n - 1], parts[n])

LEMMA ReceivedDefined ==
  ASSUME NEW parts \in Seq(Seq(STRING))
  PROVE  IsReceived(Received(parts), parts)
<1>1. PICK N \in Nat : N = Len(parts)
  OBVIOUS
<1>. DEFINE V == Seq(STRING)
            Defines(f) == f = [n \in 0 .. N |-> IF n = 0 THEN <<>> ELSE f[n - 1] \o parts[n]]
            text == CHOOSE f : Defines(f)
            I == [n \in 0 .. N |-> V]
            H == [n \in 1 .. N |-> [v \in V |-> v \o parts[n]]]
<1>2. Leads(V, N, <<>>, H, I)
  <2>1. ASSUME NEW n \in 1 .. N, NEW v \in I[n - 1] PROVE H[n][v] \in I[n]
    <3>1. n - 1 \in 0 .. N /\ n \in 0 .. N /\ parts[n] \in Seq(STRING)
      BY <1>1
    <3>2. v \in Seq(STRING)
      BY <3>1
    <3>3. v \o parts[n] \in Seq(STRING)
      BY <3>1, <3>2
    <3>4. H[n][v] = v \o parts[n]
      BY <3>2
    <3>. QED
      BY <3>1, <3>3, <3>4
  <2>2. <<>> \in I[0] /\ \A n \in 0 .. N : I[n] \subseteq V
    OBVIOUS
  <2>. HIDE DEF V, H, I
  <2>. QED
    BY <2>1, <2>2 DEF Leads
<1>3. PICK f : Follows(f, V, N, <<>>, H, I)
  <2>. HIDE DEF V, H, I
  <2>. QED
    BY <1>2, InvariantIteration
<1>4. f \in [0 .. N -> V] /\ f[0] = <<>>
  <2>. HIDE DEF V, H, I
  <2>. QED
    BY <1>3 DEF Follows
<1>5. \A n \in 1 .. N : f[n] = Longer(f[n - 1], parts[n])
  <2>1. \A n \in 1 .. N : n - 1 \in 0 .. N
    OBVIOUS
  <2>2. \A n \in 1 .. N : f[n - 1] \in V /\ f[n] = H[n][f[n - 1]]
    <3>. HIDE DEF V, H, I
    <3>. QED
      BY <1>3, <1>4, <2>1 DEF Follows
  <2>3. \A n \in 1 .. N : \A v \in V : H[n][v] = Longer(v, parts[n])
    BY DEF Longer
  <2>. HIDE DEF V, H
  <2>. QED
    BY <2>2, <2>3
<1>6. Defines(f)
  <2>1. ASSUME NEW n \in 0 .. N
        PROVE  f[n] = IF n = 0 THEN <<>> ELSE Longer(f[n - 1], parts[n])
    <3>1. n = 0 \/ n \in 1 .. N
      OBVIOUS
    <3>. QED
      BY <1>4, <1>5, <3>1
  <2>2. f = [n \in 0 .. N |-> IF n = 0 THEN <<>> ELSE Longer(f[n - 1], parts[n])]
    BY SMTT(60), <1>4, <2>1
  <2>. QED
    BY <2>2, Zenon DEF Longer
<1>7. Defines(text)
  BY <1>6
<1>8. text = f
  <2>. HIDE DEF text
  <2>1. text[0] = <<>> /\ \A n \in 1 .. N : text[n] = Longer(text[n - 1], parts[n])
    <3>1. text[0] = <<>>
      BY <1>7
    <3>2. ASSUME NEW n \in 1 .. N PROVE text[n] = Longer(text[n - 1], parts[n])
      <4>1. n \in 0 .. N /\ n # 0
        OBVIOUS
      <4>2. text[n] = IF n = 0 THEN <<>> ELSE Longer(text[n - 1], parts[n])
        <5>1. text = [i \in 0 .. N |-> IF i = 0 THEN <<>> ELSE Longer(text[i - 1], parts[i])]
          BY <1>7, Zenon DEF Longer
        <5>. QED
          BY <4>1, <5>1
      <4>. QED
        BY <4>1, <4>2
    <3>. QED
      BY <3>1, <3>2
  <2>2. GoAlike(text, f, N)
    BY <1>4, <1>5, <2>1 DEF GoAlike
  <2>3. \A n \in 0 .. N : text[n] = f[n]
    BY <2>2, Agreement
  <2>4. text = [n \in 0 .. N |-> text[n]] /\ f = [n \in 0 .. N |-> f[n]]
    BY <1>4, <1>7
  <2>. QED
    BY <2>3, <2>4
<1>9. Received(parts) = text
  BY <1>1, Zenon DEF Received
<1>10. IsReceived(f, parts)
  BY <1>1, <1>4, <1>5 DEF IsReceived
<1>. HIDE DEF text
<1>. QED
  BY <1>8, <1>9, <1>10

\* What was received is a beginning of what is received later.
LEMMA ReceivedGrows ==
  ASSUME NEW parts \in Seq(Seq(STRING)), NEW f, IsReceived(f, parts),
         NEW n \in 0 .. Len(parts), NEW m \in 0 .. n
  PROVE  f[m] \in Seq(STRING) /\ f[n] \in Seq(STRING) /\ Begins(f[m], f[n])
<1>1. PICK N \in Nat : N = Len(parts)
  OBVIOUS
<1>2. f \in [0 .. N -> Seq(STRING)]
  BY <1>1 DEF IsReceived
<1>3. ASSUME NEW k \in 1 .. N PROVE Begins(f[k - 1], f[k])
  <2>1. f[k - 1] \in Seq(STRING) /\ parts[k] \in Seq(STRING) /\ f[k] = Longer(f[k - 1], parts[k])
    <3>1. k - 1 \in 0 .. N /\ k \in 1 .. Len(parts)
      BY <1>1
    <3>2. f[k - 1] \in Seq(STRING) /\ parts[k] \in Seq(STRING)
      BY <1>2, <3>1
    <3>. QED
      BY <3>1, <3>2 DEF IsReceived
  <2>2. PICK u, v, w : u = f[k - 1] /\ v = parts[k] /\ w = f[k]
    OBVIOUS
  <2>3. u \in Seq(STRING) /\ v \in Seq(STRING) /\ w = u \o v
    BY <2>1, <2>2 DEF Longer
  <2>4. Concat(w, u, v)
    BY <2>3, ConcatElements
  <2>5. Len(u) <= Len(w) /\ \A i \in 1 .. Len(u) : w[i] = u[i]
    BY <2>3, <2>4 DEF Concat
  <2>. QED
    BY <2>2, <2>5 DEF Begins
<1>. DEFINE S == {k \in m .. n : Begins(f[m], f[k])}
<1>4. m \in S
  <2>1. f[m] \in Seq(STRING)
    BY <1>1, <1>2
  <2>. QED
    BY <2>1 DEF Begins
<1>5. ASSUME NEW k \in m + 1 .. n, k - 1 \in S PROVE k \in S
  <2>1. k \in 1 .. N /\ k - 1 \in 0 .. N /\ k \in m .. n /\ k \in 0 .. N /\ m \in 0 .. N
    BY <1>1
  <2>2. PICK u, v, w : u = f[m] /\ v = f[k - 1] /\ w = f[k]
    OBVIOUS
  <2>3. u \in Seq(STRING) /\ v \in Seq(STRING) /\ w \in Seq(STRING)
    BY <1>2, <2>1, <2>2
  <2>4. Begins(u, v) /\ Begins(v, w)
    BY <1>3, <1>5, <2>1, <2>2
  <2>5. Len(u) \in Nat /\ Len(v) \in Nat /\ Len(w) \in Nat
    BY <2>3
  <2>6. Begins(u, w)
    BY <2>4, <2>5 DEF Begins
  <2>. QED
    BY <2>1, <2>2, <2>6
<1>6. \A k \in m .. n : k \in S
  <2>1. m \in Nat /\ n \in Nat
    BY <1>1
  <2>. HIDE DEF S
  <2>. QED
    BY <1>4, <1>5, <2>1, InductionFrom
<1>7. n \in S
  <2>1. n \in m .. n
    OBVIOUS
  <2>. QED
    BY <1>6, <2>1
<1>8. f[m] \in Seq(STRING) /\ f[n] \in Seq(STRING)
  <2>1. m \in 0 .. N /\ n \in 0 .. N
    BY <1>1
  <2>. QED
    BY <1>2, <2>1
<1>. QED
  BY <1>7, <1>8

\* A piece is a part of the text.
LEMMA PieceIsPart ==
  ASSUME NEW parts \in Seq(Seq(STRING)), NEW f, IsReceived(f, parts),
         NEW t, t = f[Len(parts)], NEW n \in 1 .. Len(parts)
  PROVE  /\ Len(f[n]) \in 0 .. Len(t) /\ Len(f[n - 1]) \in 0 .. Len(f[n])
         /\ parts[n] = Part(t, Len(f[n - 1]), Len(f[n]))
<1>1. PICK N \in Nat : N = Len(parts)
  OBVIOUS
<1>2. PICK u, v, w : u = f[n - 1] /\ v = parts[n] /\ w = f[n]
  OBVIOUS
<1>3. n - 1 \in 0 .. n /\ n \in 0 .. Len(parts) /\ Len(parts) \in 0 .. Len(parts) /\ n \in 0 .. Len(parts)
      /\ n \in 1 .. Len(parts)
  BY <1>1
<1>4. u \in Seq(STRING) /\ w \in Seq(STRING) /\ Begins(u, w)
  BY <1>2, <1>3, ReceivedGrows
<1>5. t \in Seq(STRING) /\ Begins(w, t)
  BY <1>2, <1>3, ReceivedGrows
<1>6. v \in Seq(STRING) /\ w = u \o v
  <2>1. parts[n] \in Seq(STRING)
    BY <1>3
  <2>2. f[n] = Longer(f[n - 1], parts[n])
    BY <1>3 DEF IsReceived
  <2>. QED
    BY <1>2, <2>1, <2>2 DEF Longer
<1>7. Concat(w, u, v)
  BY <1>4, <1>6, ConcatElements
<1>8. PICK a \in Nat, b \in Nat, M \in Nat : a = Len(u) /\ b = Len(w) /\ M = Len(t)
  BY <1>4, <1>5
<1>9. a <= b /\ b <= M /\ Len(v) = b - a
  <2>1. Len(v) \in Nat /\ b = a + Len(v)
    BY <1>6, <1>7, <1>8 DEF Concat
  <2>2. b <= M
    BY <1>5, <1>8 DEF Begins
  <2>. QED
    BY <2>1, <2>2
<1>10. PICK p : p = Part(t, a, b)
  OBVIOUS
<1>11. p \in Seq(STRING) /\ IsPart(p, t, a, b)
  <2>1. b \in 0 .. Len(t) /\ a \in 0 .. b
    BY <1>8, <1>9
  <2>. QED
    BY <1>5, <1>10, <2>1, PartHolds
<1>12. ASSUME NEW k \in 1 .. Len(v) PROVE p[k] = v[k]
  <2>1. k \in 1 .. b - a /\ a + k \in 1 .. b
    BY <1>9
  <2>2. p[k] = t[a + k]
    BY <1>11, <2>1 DEF IsPart
  <2>3. t[a + k] = w[a + k]
    BY <1>5, <1>8, <2>1 DEF Begins
  <2>4. w[a + k] = v[k]
    BY <1>7, <1>8 DEF Concat
  <2>. QED
    BY <2>2, <2>3, <2>4
<1>13. p = v
  <2>1. Len(p) = Len(v)
    BY <1>9, <1>11 DEF IsPart
  <2>. QED
    BY <1>6, <1>11, <1>12, <2>1, SeqEqual
<1>. QED
  BY <1>2, <1>8, <1>9, <1>10, <1>13

\* A marker is judged by the piece that has its last character.
LEMMA UnknownIsKnown ==
  ASSUME NEW parts \in Seq(Seq(STRING)), NEW counts, NEW f, f = Received(parts),
         NEW t, t = Text(parts), NEW U, U = Unknown(parts, counts), NEW n \in 1 .. Len(parts)
  PROVE  Knows(U, t, Len(f[n - 1]), Len(f[n]), counts[n])
<1>1. PICK N \in Nat : N = Len(parts) /\ DOMAIN parts = 1 .. N
  OBVIOUS
<1>2. IsReceived(f, parts)
  BY ReceivedDefined
<1>3. \A k \in 0 .. N : f[k] \in Seq(STRING) /\ Len(f[k]) \in Nat
  <2>1. f \in [0 .. N -> Seq(STRING)]
    BY <1>1, <1>2 DEF IsReceived
  <2>2. \A k \in 0 .. N : f[k] \in Seq(STRING)
    BY <2>1
  <2>. QED
    BY <2>2
<1>4. \A k \in 0 .. N : \A j \in 0 .. k : Len(f[j]) <= Len(f[k])
  BY <1>1, <1>2, ReceivedGrows DEF Begins
<1>5. n - 1 \in 0 .. N /\ n \in 0 .. N
  BY <1>1
<1>6. \A m : m \in U <=> /\ m \in Markers(t)
                         /\ \E k \in 1 .. N : /\ m[2] \in Len(f[k - 1]) + 1 .. Len(f[k])
                                              /\ Number(SubSeq(t, m[1], m[2])) \notin 1 .. counts[k]
  BY <1>1, Zenon DEF Unknown
<1>7. ASSUME NEW m \in Markers(t), m[2] \in Len(f[n - 1]) + 1 .. Len(f[n]), NEW k \in 1 .. N,
             m[2] \in Len(f[k - 1]) + 1 .. Len(f[k])
      PROVE  k = n
  <2>1. k - 1 \in 0 .. N /\ k \in 0 .. N
    OBVIOUS
  <2>2. PICK e \in Nat : e = m[2]
    <3>1. m[2] \in Nat
      BY <1>3, <1>5, <1>7
    <3>. QED
      BY <3>1
  <2>3. PICK a \in Nat, b \in Nat, c \in Nat, d \in Nat :
               a = Len(f[n - 1]) /\ b = Len(f[n]) /\ c = Len(f[k - 1]) /\ d = Len(f[k])
    BY <1>3, <1>5, <2>1
  <2>4. a < e /\ e <= b /\ c < e /\ e <= d
    BY <1>7, <2>2, <2>3
  <2>5. CASE k < n
    <3>1. k \in 0 .. n - 1
      BY <1>1, <2>5
    <3>2. d <= a
      BY <1>4, <1>5, <2>3, <3>1
    <3>. QED
      BY <2>4, <3>2
  <2>6. CASE n < k
    <3>1. n \in 0 .. k - 1
      BY <1>1, <2>6
    <3>2. b <= c
      BY <1>4, <2>1, <2>3, <3>1
    <3>. QED
      BY <2>4, <3>2
  <2>. QED
    BY <1>1, <2>5, <2>6
<1>8. ASSUME NEW m \in Markers(t), m[2] \in Len(f[n - 1]) + 1 .. Len(f[n])
      PROVE  m \in U <=> Number(SubSeq(t, m[1], m[2])) \notin 1 .. counts[n]
  <2>1. n \in 1 .. N
    BY <1>1
  <2>2. CASE m \in U
    <3>1. PICK k \in 1 .. N : /\ m[2] \in Len(f[k - 1]) + 1 .. Len(f[k])
                              /\ Number(SubSeq(t, m[1], m[2])) \notin 1 .. counts[k]
      BY <1>6, <2>2
    <3>2. k = n
      BY <1>7, <1>8, <3>1
    <3>. QED
      BY <2>2, <3>1, <3>2
  <2>3. CASE m \notin U
    BY <1>6, <1>8, <2>1, <2>3
  <2>. QED
    BY <2>2, <2>3
<1>9. U \subseteq Markers(t)
  BY <1>6
<1>. QED
  BY <1>8, <1>9, Zenon DEF Knows

\* What the filter has done after n pieces.
Progressed(parts, counts, n) ==
  {s \in Progress : \E a, g : Filtered(s, a, g, Text(parts), Unknown(parts, counts),
                                       Len(Received(parts)[n]), Len(Received(parts)[n]))}

LEMMA PushGetsOn ==
  ASSUME NEW parts \in Seq(Seq(STRING)), NEW counts \in Seq(Nat), Len(counts) = Len(parts),
         NEW n \in 1 .. Len(parts), NEW s \in Progressed(parts, counts, n - 1),
         NEW r, r = Push(s, parts[n], counts[n])
  PROVE  r \in Progressed(parts, counts, n)
<1>1. PICK f, t, U : f = Received(parts) /\ t = Text(parts) /\ U = Unknown(parts, counts)
  OBVIOUS
<1>2. IsReceived(f, parts) /\ t = f[Len(parts)]
  BY <1>1, ReceivedDefined DEF Text
<1>3. t \in Seq(STRING)
  <2>1. Len(parts) \in 0 .. Len(parts) /\ 0 \in 0 .. Len(parts)
    OBVIOUS
  <2>. QED
    BY <1>2, <2>1, ReceivedGrows
<1>4. PICK A, b, c : A = Len(f[n - 1]) /\ b = Len(f[n]) /\ c = counts[n]
  OBVIOUS
<1>5. b \in 0 .. Len(t) /\ A \in 0 .. b /\ parts[n] = Part(t, A, b)
  BY <1>2, <1>4, PieceIsPart
<1>6. Knows(U, t, A, b, c)
  BY <1>1, <1>4, UnknownIsKnown
<1>7. U \in SUBSET Markers(t)
  BY <1>6 DEF Knows
<1>8. c \in Nat
  BY <1>4
<1>9. s \in Progress /\ \E a, g : Filtered(s, a, g, t, U, A, A)
  BY <1>1, <1>4 DEF Progressed
<1>10. PICK a, g : Filtered(s, a, g, t, U, A, A)
  BY <1>9
<1>11. r \in Progress /\ \E x, h : Filtered(r, x, h, t, U, b, b)
  <2>1. PICK content : content = parts[n]
    OBVIOUS
  <2>2. content = Part(t, A, b) /\ r = Push(s, content, c)
    BY <1>4, <1>5, <2>1
  <2>. QED
    BY <1>3, <1>5, <1>6, <1>7, <1>8, <1>9, <1>10, <2>2, PushFilters
<1>. QED
  BY <1>1, <1>4, <1>11 DEF Progressed

LEMMA NothingDone ==
  ASSUME NEW parts \in Seq(Seq(STRING)), NEW counts \in Seq(Nat), Len(counts) = Len(parts)
  PROVE  [out |-> <<>>, pending |-> <<>>] \in Progressed(parts, counts, 0)
<1>1. PICK f, t, U, s : /\ f = Received(parts) /\ t = Text(parts) /\ U = Unknown(parts, counts)
                        /\ s = [out |-> <<>>, pending |-> <<>>]
  OBVIOUS
<1>2. IsReceived(f, parts) /\ t = f[Len(parts)]
  BY <1>1, ReceivedDefined DEF Text
<1>3. t \in Seq(STRING)
  <2>1. Len(parts) \in 0 .. Len(parts) /\ 0 \in 0 .. Len(parts)
    OBVIOUS
  <2>. QED
    BY <1>2, <2>1, ReceivedGrows
<1>4. Len(f[0]) = 0
  BY <1>2 DEF IsReceived
<1>5. PICK N \in Nat : N = Len(t)
  BY <1>3
<1>6. U \in SUBSET Markers(t)
  BY <1>1, Zenon DEF Unknown
<1>7. s \in Progress /\ s.out = <<>> /\ s.pending = <<>>
  BY <1>1 DEF Progress
<1>8. Part(t, 0, 0) = <<>>
  <2>1. PICK none : none = Part(t, 0, 0)
    OBVIOUS
  <2>2. none \in Seq(STRING) /\ IsPart(none, t, 0, 0)
    <3>1. 0 \in 0 .. Len(t) /\ 0 \in 0 .. 0
      BY <1>5
    <3>. QED
      BY <1>3, <2>1, <3>1, PartHolds
  <2>3. Len(none) = 0
    BY <2>2 DEF IsPart
  <2>. QED
    BY <2>1, <2>2, <2>3
<1>9. Remains(t, {})[0] = <<>>
  BY <1>3, KeptDefined DEF KeepsOf
<1>10. Judged(s, 0, {}, t, U, 0)
  BY <1>7, <1>8, <1>9 DEF Judged
<1>11. Thorough(0, {}, t, U)
  <2>1. ASSUME NEW m \in U PROVE ~(m[2] <= 0) /\ ~(m[1] <= 0)
    <3>1. m \in Spans(Len(t))
      BY <1>3, <1>6, MarkerHolds DEF IsPlace
    <3>2. m[1] \in 1 .. N /\ m[2] \in 1 .. N
      BY <1>5, <3>1 DEF Spans
    <3>. QED
      BY <3>2
  <2>. QED
    BY <2>1 DEF Thorough
<1>12. Clear(t, 0, 0)
  BY DEF Clear
<1>13. Filtered(s, 0, {}, t, U, 0, 0)
  BY <1>10, <1>11, <1>12 DEF Filtered
<1>14. \E a, g : Filtered(s, a, g, t, U, 0, 0)
  BY <1>13
<1>. QED
  BY <1>1, <1>4, <1>7, <1>14 DEF Progressed

\* OnlyUnknownMarkersVanish and NoUnknownMarkerIsShown of what has been done with all pieces.
LEMMA FinishHolds ==
  ASSUME NEW parts \in Seq(Seq(STRING)), NEW counts \in Seq(Nat), Len(counts) = Len(parts),
         NEW s \in Progressed(parts, counts, Len(parts))
  PROVE  \E g \in SUBSET Unknown(parts, counts) :
           /\ s.out \o s.pending = Without(Text(parts), g)
           /\ Flat(Text(parts)) => g = Unknown(parts, counts)
<1>1. PICK f, t, U : f = Received(parts) /\ t = Text(parts) /\ U = Unknown(parts, counts)
  OBVIOUS
<1>2. IsReceived(f, parts) /\ t = f[Len(parts)]
  BY <1>1, ReceivedDefined DEF Text
<1>3. t \in Seq(STRING)
  <2>1. Len(parts) \in 0 .. Len(parts) /\ 0 \in 0 .. Len(parts)
    OBVIOUS
  <2>. QED
    BY <1>2, <2>1, ReceivedGrows
<1>4. PICK N \in Nat : N = Len(t)
  BY <1>3
<1>5. U \in SUBSET Markers(t)
  BY <1>1, Zenon DEF Unknown
<1>6. \A m \in U : IsPlace(m, t)
  BY <1>3, <1>5, MarkerHolds
<1>7. \E a, g : Filtered(s, a, g, t, U, N, N)
  BY <1>1, <1>2, <1>4 DEF Progressed
<1>8. PICK a, g : Filtered(s, a, g, t, U, N, N)
  BY <1>7
<1>9. a \in 0 .. N /\ g \in SUBSET U /\ (\A m \in g : m[2] <= a)
      /\ s.pending = Part(t, a, N) /\ s.out = Remains(t, g)[a]
  BY <1>8 DEF Filtered, Judged
<1>10. s.out \o s.pending = Without(t, g)
  <2>1. N \in 0 .. Len(t) /\ g \in SUBSET Spans(Len(t))
    BY <1>4, <1>6, <1>9 DEF IsPlace
  <2>2. Remains(t, g)[N] = Remains(t, g)[a] \o Part(t, a, N)
    BY SMTT(60), <1>3, <1>9, <2>1, KeptAdds
  <2>3. Without(t, g) = Remains(t, g)[N]
    BY <1>3, <1>4, KeptDefined
  <2>4. PICK o, p : o = s.out /\ p = s.pending
    OBVIOUS
  <2>5. o \o p = Without(t, g)
    BY <1>9, <2>2, <2>3, <2>4
  <2>. QED
    BY <2>4, <2>5
<1>11. ASSUME Flat(t) PROVE g = U
  <2>1. ASSUME NEW m \in U PROVE m \in g
    <3>1. PICK e \in 1 .. N : e = m[2] /\ t[e] = "]"
      BY <1>4, <1>6 DEF IsPlace, Spans
    <3>2. ~(e \in a + 1 .. N)
      BY <1>8, <3>1 DEF Filtered, Clear
    <3>3. e <= a
      BY <1>9, <3>1, <3>2
    <3>. QED
      BY <1>8, <1>11, <3>1, <3>3 DEF Filtered, Thorough
  <2>. QED
    BY <1>9, <2>1
<1>. QED
  BY <1>1, <1>9, <1>10, <1>11

LEMMA AnswerHolds ==
  ASSUME NEW parts \in Seq(Seq(STRING)), NEW counts \in Seq(Nat), Len(counts) = Len(parts)
  PROVE  \E g \in SUBSET Unknown(parts, counts) :
           /\ Answer(parts, counts) = Without(Text(parts), g)
           /\ Flat(Text(parts)) => g = Unknown(parts, counts)
<1>0. PICK N \in Nat : N = Len(parts)
  OBVIOUS
<1>. DEFINE base == [out |-> <<>>, pending |-> <<>>]
            V == Progress
            Defines(f) == f = [n \in 0 .. N |-> IF n = 0 THEN base ELSE Push(f[n - 1], parts[n], counts[n])]
            done == CHOOSE f : Defines(f)
            I == [n \in 0 .. N |-> Progressed(parts, counts, n)]
            H == [n \in 1 .. N |-> [v \in V |-> Push(v, parts[n], counts[n])]]
<1>1. Leads(V, N, base, H, I)
  <2>1. base \in I[0]
    BY NothingDone
  <2>2. \A n \in 0 .. N : I[n] \subseteq V
    BY DEF Progressed
  <2>3. ASSUME NEW n \in 1 .. N, NEW v \in I[n - 1] PROVE H[n][v] \in I[n]
    <3>1. n - 1 \in 0 .. N /\ n \in 0 .. N /\ n \in 1 .. Len(parts)
      BY <1>0
    <3>2. v \in Progressed(parts, counts, n - 1) /\ v \in V
      BY <2>2, <3>1
    <3>3. Push(v, parts[n], counts[n]) \in Progressed(parts, counts, n)
      BY <3>1, <3>2, PushGetsOn
    <3>4. H[n][v] = Push(v, parts[n], counts[n])
      BY <3>2
    <3>5. I[n] = Progressed(parts, counts, n)
      BY <3>1
    <3>. QED
      BY <3>3, <3>4, <3>5
  <2>. HIDE DEF V, H, I, base
  <2>. QED
    BY <2>1, <2>2, <2>3 DEF Leads
<1>2. PICK f : Follows(f, V, N, base, H, I)
  <2>. HIDE DEF V, H, I, base
  <2>. QED
    BY <1>1, InvariantIteration
<1>3. f[0] = base /\ \A n \in 1 .. N : f[n] = Push(f[n - 1], parts[n], counts[n])
  <2>1. \A n \in 1 .. N : n - 1 \in 0 .. N
    OBVIOUS
  <2>. HIDE DEF I, V, base
  <2>. QED
    BY <1>2, <2>1 DEF Follows
<1>4. Defines(f)
  <2>1. ASSUME NEW n \in 0 .. N
        PROVE  f[n] = IF n = 0 THEN base ELSE Push(f[n - 1], parts[n], counts[n])
    <3>1. n = 0 \/ n \in 1 .. N
      OBVIOUS
    <3>. HIDE DEF base
    <3>. QED
      BY <1>3, <3>1
  <2>. HIDE DEF V, H, I, base
  <2>. QED
    BY <1>2, <2>1 DEF Follows
<1>5. Defines(done)
  BY <1>4
<1>6. done[N] = f[N]
  <2>. HIDE DEF done, V, H, I, base
  <2>1. done[0] = base /\ \A n \in 1 .. N : done[n] = Push(done[n - 1], parts[n], counts[n])
    <3>1. done[0] = base
      BY <1>5
    <3>2. ASSUME NEW n \in 1 .. N PROVE done[n] = Push(done[n - 1], parts[n], counts[n])
      <4>1. n \in 0 .. N /\ n # 0
        OBVIOUS
      <4>2. done[n] = IF n = 0 THEN base ELSE Push(done[n - 1], parts[n], counts[n])
        BY <1>5, <4>1
      <4>. QED
        BY <4>1, <4>2
    <3>. QED
      BY <3>1, <3>2
  <2>2. GoAlike(done, f, N)
    BY <1>3, <2>1 DEF GoAlike
  <2>. QED
    BY <2>2, Agreement
<1>7. Answer(parts, counts) = done[N].out \o done[N].pending
  BY <1>0, Zenon DEF Answer
<1>8. f[N] \in Progressed(parts, counts, Len(parts))
  <2>1. I[N] = Progressed(parts, counts, N)
    OBVIOUS
  <2>2. f[N] \in I[N]
    <3>. HIDE DEF V, H, I, base
    <3>. QED
      BY <1>2 DEF Follows
  <2>. HIDE DEF I
  <2>. QED
    BY <1>0, <2>1, <2>2
<1>9. PICK s : s = f[N] /\ s = done[N]
  BY <1>6
<1>10. Answer(parts, counts) = s.out \o s.pending
  BY <1>7, <1>9, Zenon
<1>11. s \in Progressed(parts, counts, Len(parts))
  BY <1>8, <1>9
<1>12. PICK g \in SUBSET Unknown(parts, counts) :
         /\ s.out \o s.pending = Without(Text(parts), g)
         /\ Flat(Text(parts)) => g = Unknown(parts, counts)
  BY <1>11, FinishHolds, Zenon
<1>. HIDE DEF done, V, H, I, base
<1>. QED
  BY <1>10, <1>12, Zenon

-------------------------------------------------------------------------------
(* What the functions return is what they compute.                           *)

\* A call has returned what its function computes.
AlgorithmsInv ==
  /\ input \in Inputs
  /\ returned # <<>> =>
       \/ input.kind = "answer" /\ returned = <<Answer(input.pieces, input.counts)>>
       \/ input.kind = "fusion" /\ returned = <<Fuse(input.channels)>>
       \/ input.kind = "mmr" /\ returned = <<SelectMMR(input.claims)>>
       \/ input.kind = "select" /\ returned = <<Select(input.pages, input.limits)>>
       \/ input.kind = "chunk" /\ returned = <<Chunk(input.sections)>>

LEMMA AlgorithmsInvHolds == AlgorithmsSpec => []AlgorithmsInv
<1>1. AlgorithmsInit => AlgorithmsInv
  BY DEF AlgorithmsInit, AlgorithmsInv
<1>2. ASSUME AlgorithmsInv, [AlgorithmsNext]_algorithmVars PROVE AlgorithmsInv'
  <2>1. CASE UNCHANGED algorithmVars
    BY <1>2, <2>1 DEF AlgorithmsInv, algorithmVars
  <2>2. CASE FilterAnswer
    BY <1>2, <2>2 DEF AlgorithmsInv, FilterAnswer, Apply
  <2>3. CASE FuseChannels
    BY <1>2, <2>3 DEF AlgorithmsInv, FuseChannels, Apply
  <2>4. CASE ChooseClaims
    BY <1>2, <2>4 DEF AlgorithmsInv, ChooseClaims, Apply
  <2>5. CASE FillBudget
    BY <1>2, <2>5 DEF AlgorithmsInv, FillBudget, Apply
  <2>6. CASE ChunkDocument
    BY <1>2, <2>6 DEF AlgorithmsInv, ChunkDocument, Apply
  <2>. QED
    BY <1>2, <2>1, <2>2, <2>3, <2>4, <2>5, <2>6 DEF AlgorithmsNext
<1>. QED
  BY <1>1, <1>2, PTL DEF AlgorithmsSpec

\* The kind of an input says what it is.
LEMMA KindsOfInputs ==
  ASSUME AlgorithmsInv
  PROVE  /\ input.kind = "answer" => input \in Answers
         /\ input.kind = "fusion" => input \in Rankings
         /\ input.kind = "mmr" => input \in Claimed
         /\ input.kind = "select" => input \in Searches
         /\ input.kind = "chunk" => input \in Parsed
<1>1. /\ \A i \in Answers : i.kind = "answer"
      /\ \A i \in Rankings : i.kind = "fusion"
      /\ \A i \in Claimed : i.kind = "mmr"
      /\ \A i \in Searches : i.kind = "select"
      /\ \A i \in Parsed : i.kind = "chunk"
  BY InputAssumption
<1>. QED
  BY <1>1 DEF AlgorithmsInv, Inputs

LEMMA AnswerTyped ==
  ASSUME AlgorithmsInv, Returned("answer")
  PROVE  /\ input.pieces \in Seq(Seq(STRING)) /\ input.counts \in Seq(Nat)
         /\ Len(input.counts) = Len(input.pieces)
         /\ output = Answer(input.pieces, input.counts)
<1>1. input \in Answers
  BY KindsOfInputs DEF Returned
<1>2. input \in [kind : {"answer"}, pieces : Seq(Seq(STRING)), counts : Seq(Nat)]
      /\ Len(input.counts) = Len(input.pieces)
  BY <1>1, InputAssumption
<1>3. returned = <<Answer(input.pieces, input.counts)>>
  BY DEF AlgorithmsInv, Returned
<1>4. output = Answer(input.pieces, input.counts)
  BY <1>3 DEF output
<1>. QED
  BY <1>2, <1>4

\* Whatever the answer, its cut into pieces and the number of sources at each, the
\* filter takes out markers that named no source when they were complete, and not
\* another character (CitationStreamFilter.push, finish).
THEOREM NothingElseVanishes == AlgorithmsSpec => []OnlyUnknownMarkersVanish
<1>1. ASSUME AlgorithmsInv PROVE OnlyUnknownMarkersVanish
  <2>1. SUFFICES ASSUME Returned("answer")
                 PROVE  \E gone \in SUBSET Unknown(input.pieces, input.counts) :
                          output = Without(Text(input.pieces), gone)
    BY Zenon DEF OnlyUnknownMarkersVanish
  <2>2. PICK p, c : p = input.pieces /\ c = input.counts
    OBVIOUS
  <2>3. p \in Seq(Seq(STRING)) /\ c \in Seq(Nat) /\ Len(c) = Len(p) /\ output = Answer(p, c)
    BY <1>1, <2>1, <2>2, AnswerTyped
  <2>4. PICK g \in SUBSET Unknown(p, c) : Answer(p, c) = Without(Text(p), g)
    BY <2>3, AnswerHolds
  <2>. QED
    BY <2>2, <2>3, <2>4
<1>. QED
  BY <1>1, AlgorithmsInvHolds, PTL

\* If every bracket of the answer is closed before the next one opens, it takes out all
\* of them, also those that arrive in several pieces or after a long open bracket
\* (CitationStreamFilter.push, finish).
THEOREM UnknownMarkersVanish == AlgorithmsSpec => []NoUnknownMarkerIsShown
<1>1. ASSUME AlgorithmsInv PROVE NoUnknownMarkerIsShown
  <2>1. SUFFICES ASSUME Returned("answer"), Flat(Text(input.pieces))
                 PROVE  output = Without(Text(input.pieces), Unknown(input.pieces, input.counts))
    BY Zenon DEF NoUnknownMarkerIsShown
  <2>2. PICK p, c : p = input.pieces /\ c = input.counts
    OBVIOUS
  <2>3. p \in Seq(Seq(STRING)) /\ c \in Seq(Nat) /\ Len(c) = Len(p) /\ output = Answer(p, c)
    BY <1>1, <2>1, <2>2, AnswerTyped
  <2>4. PICK g \in SUBSET Unknown(p, c) :
          Answer(p, c) = Without(Text(p), g) /\ (Flat(Text(p)) => g = Unknown(p, c))
    BY <2>3, AnswerHolds
  <2>. QED
    BY <2>1, <2>2, <2>3, <2>4
<1>. QED
  BY <1>1, AlgorithmsInvHolds, PTL

\* However many channels and items there are, an item ahead of another one in every
\* channel that found the other one is ahead of it in the result, which has each item
\* once (reciprocal_rank_fusion).
THEOREM FusionFollowsRanks == AlgorithmsSpec => []FusionIsMonotone
<1>1. ASSUME AlgorithmsInv PROVE FusionIsMonotone
  <2>1. SUFFICES ASSUME Returned("fusion") PROVE FusionIsMonotone
    BY Zenon DEF FusionIsMonotone
  <2>2. PICK channels : channels = input.channels
    OBVIOUS
  <2>3. input \in Rankings
    BY <1>1, <2>1, KindsOfInputs DEF Returned
  <2>4. channels \in Seq(Seq(STRING))
    BY <2>2, <2>3, InputAssumption
  <2>5. returned = <<Fuse(channels)>>
    BY <1>1, <2>1, <2>2 DEF AlgorithmsInv, Returned
  <2>6. output = Fuse(channels)
    BY <2>5 DEF output
  <2>7. /\ ToSet(output) = Items(channels) /\ Len(output) = Cardinality(Items(channels))
        /\ \A x, y \in Items(channels) :
             x # y /\ (\A n \in 1 .. Len(channels) : AheadIn(x, y, channels[n]))
               => Position(x, output) < Position(y, output)
    BY <2>4, <2>6, FusionHolds
  <2>8. DOMAIN channels = 1 .. Len(channels)
    BY <2>4
  <2>. QED
    BY <2>2, <2>7, <2>8, Zenon DEF FusionIsMonotone, Items, AheadIn
<1>. QED
  BY <1>1, AlgorithmsInvHolds, PTL

\* Whatever the relevance and the tokens of the claims, all are chosen, and a claim that
\* repeats a chosen one comes after those that share nothing with the chosen ones, if
\* it is not more relevant by 3/7 (select_mmr).
THEOREM RepeatedClaimsYield == AlgorithmsSpec => []DuplicatesYield
<1>1. ASSUME AlgorithmsInv PROVE DuplicatesYield
  <2>1. SUFFICES ASSUME Returned("mmr") PROVE DuplicatesYield
    BY Zenon DEF DuplicatesYield
  <2>2. PICK claims : claims = input.claims
    OBVIOUS
  <2>3. input \in Claimed
    BY <1>1, <2>1, KindsOfInputs DEF Returned
  <2>4. claims \in Seq(Claim)
    BY <2>2, <2>3, InputAssumption DEF Claim
  <2>5. returned = <<SelectMMR(claims)>>
    BY <1>1, <2>1, <2>2 DEF AlgorithmsInv, Returned
  <2>6. output = SelectMMR(claims)
    BY <2>5 DEF output
  <2>7. Yields(claims, output)
    BY <2>4, <2>6, DuplicatesYieldHolds
  <2>. QED
    BY ZenonT(60), <2>2, <2>7 DEF DuplicatesYield, Yields
<1>. QED
  BY <1>1, AlgorithmsInvHolds, PTL

\* For any pages and positive limits the three limits hold together, except for a single
\* claim that is too long, and the best claim of the first page that has one is shown
\* (WikiRetrievalService.search).
THEOREM LimitsHoldTogether == AlgorithmsSpec => []SelectionHolds
<1>1. ASSUME AlgorithmsInv PROVE SelectionHolds
  <2>1. SUFFICES ASSUME Returned("select") PROVE SelectionHolds
    BY Zenon DEF SelectionHolds
  <2>2. PICK pages, limits : pages = input.pages /\ limits = input.limits
    OBVIOUS
  <2>3. input \in Searches
    BY <1>1, <2>1, KindsOfInputs DEF Returned
  <2>4. pages \in Seq(Seq(PositiveNat)) /\ limits \in Limited
    BY <2>2, <2>3, InputAssumption DEF Limited
  <2>5. returned = <<Select(pages, limits)>>
    BY <1>1, <2>1, <2>2 DEF AlgorithmsInv, Returned
  <2>6. output = Select(pages, limits)
    BY <2>5 DEF output
  <2>7. PICK listed : listed = FlattenSeq(Select(pages, limits).taken)
    OBVIOUS
  <2>8. /\ Len(Select(pages, limits).taken) <= limits.pages
        /\ Len(listed) <= limits.claims
        /\ Characters(listed) <= limits.chars \/ Len(listed) = 1
        /\ \A n \in DOMAIN pages :
             pages[n] # <<>> /\ (\A m \in 1 .. n - 1 : pages[m] = <<>>)
               => listed # <<>> /\ listed[1] = pages[n][1]
    BY <2>4, <2>7, SelectHolds, Zenon
  <2>. QED
    BY <2>2, <2>6, <2>7, <2>8, Zenon DEF SelectionHolds
<1>. QED
  BY <1>1, AlgorithmsInvHolds, PTL

\* For any sections of any length the parents are the stripped sections in order, and
\* the children of a parent its text without gap or overlap (ParentChildChunker.chunk).
THEOREM ChildrenTile == AlgorithmsSpec => []ChildrenTileTheirParent
<1>1. ASSUME AlgorithmsInv PROVE ChildrenTileTheirParent
  <2>1. SUFFICES ASSUME Returned("chunk") PROVE ChildrenTileTheirParent
    BY Zenon DEF ChildrenTileTheirParent
  <2>2. PICK sections, drafts : sections = input.sections /\ drafts = output
    OBVIOUS
  <2>3. input \in Parsed
    BY <1>1, <2>1, KindsOfInputs DEF Returned
  <2>4. sections \in Seq(Seq(STRING))
    BY <2>2, <2>3, InputAssumption
  <2>5. returned = <<Chunk(sections)>>
    BY <1>1, <2>1, <2>2 DEF AlgorithmsInv, Returned
  <2>6. drafts = Chunk(sections)
    BY <2>2, <2>5 DEF output
  <2>7. Tiled(sections, drafts)
    BY <2>4, <2>6, ChildrenTileHolds
  <2>8. Tiled(input.sections, output)
    BY <2>2, <2>7
  <2>. QED
    BY <2>8, Zenon DEF ChildrenTileTheirParent, Tiled
<1>. QED
  BY <1>1, AlgorithmsInvHolds, PTL
===============================================================================
