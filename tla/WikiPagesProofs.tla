-------------------------- MODULE WikiPagesProofs --------------------------
(***************************************************************************)
(* Proofs about the pages of the wiki, for every finite set of summaries,  *)
(* any generations, transactions and number of changes.                    *)
(***************************************************************************)
EXTENDS WikiPages, FiniteSetTheorems, TLAPS

\* At most one version waits for review.
Single(row) == \A i, j \in Candidates(row) : i = j

\* What the history of a page allows: versions are only added and keep origin and
\* base, and without a new version there is no new candidate.
Evolves(old, new) ==
  /\ Len(old.versions) <= Len(new.versions)
  /\ \A i \in DOMAIN old.versions :
       /\ new.versions[i].origin = old.versions[i].origin
       /\ new.versions[i].base = old.versions[i].base
  /\ Len(old.versions) = Len(new.versions) => Candidates(new) \subseteq Candidates(old)

\* The current version stays, is replaced by one based on it, or by a version
\* the pipeline has just added.
Based(old, new) ==
  \/ new.current = old.current
  \/ /\ new.current \in DOMAIN new.versions
     /\ \/ new.versions[new.current].base = old.current
        \/ /\ new.versions[new.current].origin = "pipeline"
           /\ new.current \notin DOMAIN old.versions

\* A row of its type whose current version exists.
WellFormed(row) == row \in Rows /\ row.current \in 0 .. Len(row.versions)

\* Marking candidates superseded changes their states and nothing else.
LEMMA SupersedingTyped ==
  ASSUME NEW s \in Seq(Versions), NEW C
  PROVE  /\ Superseding(s, C) \in Seq(Versions)
         /\ Len(Superseding(s, C)) = Len(s)
         /\ \A i \in 1 .. Len(s) :
              /\ Superseding(s, C)[i].origin = s[i].origin
              /\ Superseding(s, C)[i].base = s[i].base
              /\ i \in C => Superseding(s, C)[i].state = "superseded"
              /\ i \notin C => Superseding(s, C)[i] = s[i]
<1> DEFINE f == Superseding(s, C)
<1>1. DOMAIN s = 1 .. Len(s) /\ Len(s) \in Nat
  OBVIOUS
<1>2. \A i \in 1 .. Len(s) : s[i] \in Versions
  OBVIOUS
<1>3. \A i \in 1 .. Len(s) : [s[i] EXCEPT !.state = "superseded"] \in Versions
  BY ZenonT(60), <1>2 DEF Versions
<1>4. f = [i \in 1 .. Len(s) |->
             IF i \in C THEN [s[i] EXCEPT !.state = "superseded"] ELSE s[i]]
  BY <1>1 DEF Superseding
<1>5. f \in [1 .. Len(s) -> Versions]
  BY <1>2, <1>3, <1>4
<1>6. f \in Seq(Versions) /\ Len(f) = Len(s)
  BY <1>1, <1>5
<1>7. \A i \in 1 .. Len(s) : i \in C => f[i] = [s[i] EXCEPT !.state = "superseded"]
  BY <1>4
<1>8. \A i \in 1 .. Len(s) : i \notin C => f[i] = s[i]
  BY <1>4
<1> QED
  BY ZenonT(60), <1>2, <1>6, <1>7, <1>8 DEF Versions

\* What _upsert_page does to a row, whatever it has read: it adds one version,
\* which is a candidate only on top of a user's version.
LEMMA UpsertedRow ==
  ASSUME NEW row, WellFormed(row),
         NEW u, u.wanted \in Materials, u.seen \in Nat, u.hidden \in BOOLEAN
  PROVE  LET new == Upserted(row, u)
         IN /\ WellFormed(new)
            /\ Len(new.versions) = Len(row.versions) + 1
            /\ Evolves(row, new)
            /\ \A i \in 1 .. Len(row.versions) :
                 i \in u.candidates => i \notin Candidates(new)
            /\ Candidates(new) \subseteq
                 Candidates(row) \cup (IF ByUser(row, u.seen) THEN {Len(row.versions) + 1} ELSE {})
            /\ \/ new.current = row.current
               \/ /\ new.current = Len(row.versions) + 1
                  /\ new.versions[new.current].origin = "pipeline"
<1> DEFINE new == Upserted(row, u)
           n == Len(row.versions)
           pending == ByUser(row, u.seen)
           last == [content |-> u.wanted.content, meta |-> u.wanted.meta, origin |-> "pipeline",
                    state |-> IF pending THEN "pending_review" ELSE "published",
                    base |-> u.seen]
           olds == Superseding(row.versions, u.candidates)
<1>1. /\ row.versions \in Seq(Versions)
      /\ n \in Nat
      /\ row.current \in 0 .. n
      /\ row.deleted \in BOOLEAN
  BY DEF WellFormed, Rows
<1>2. /\ olds \in Seq(Versions)
      /\ Len(olds) = n
      /\ \A i \in 1 .. n :
           /\ olds[i].origin = row.versions[i].origin
           /\ olds[i].base = row.versions[i].base
           /\ i \in u.candidates => olds[i].state = "superseded"
           /\ i \notin u.candidates => olds[i] = row.versions[i]
  BY <1>1, SupersedingTyped
<1>3. last \in Versions
  BY DEF Versions, Materials
<1> DEFINE current == IF pending THEN row.current ELSE n + 1
           deleted == row.deleted /\ ~u.hidden
<1>4. new = [versions |-> Append(olds, last), current |-> current, deleted |-> deleted]
  BY DEF Upserted
<1>11. /\ new.versions = Append(olds, last)
      /\ new.current = current
  BY <1>4
<1> HIDE DEF last, olds, new, pending
<1>5. /\ new.versions \in Seq(Versions)
      /\ Len(new.versions) = n + 1
      /\ \A i \in 1 .. n : new.versions[i] = olds[i]
      /\ new.versions[n + 1] = last
      /\ DOMAIN new.versions = 1 .. n + 1
      /\ DOMAIN row.versions = 1 .. n
  BY <1>1, <1>2, <1>3, <1>11
<1>6. WellFormed(new)
  <2>1. current \in 0 .. n + 1
    BY <1>1
  <2>2. deleted \in BOOLEAN
    OBVIOUS
  <2>3. Append(olds, last) \in Seq(Versions)
    BY <1>2, <1>3
  <2> HIDE DEF current, deleted
  <2>4. new \in Rows
    BY <1>1, <1>4, <2>1, <2>2, <2>3 DEF Rows
  <2> QED
    BY <1>5, <1>11, <2>1, <2>4 DEF WellFormed
<1>7. Evolves(row, new)
  BY <1>1, <1>2, <1>5 DEF Evolves
<1>8. \A i \in 1 .. n : i \in u.candidates => i \notin Candidates(new)
  BY <1>1, <1>2, <1>5 DEF Candidates
<1>9. Candidates(new) \subseteq Candidates(row) \cup (IF pending THEN {n + 1} ELSE {})
  <2> SUFFICES ASSUME NEW i \in Candidates(new), i \notin Candidates(row)
               PROVE  pending /\ i = n + 1
    OBVIOUS
  <2>1. i \in 1 .. n + 1 /\ new.versions[i].state = "pending_review"
    BY <1>5 DEF Candidates
  <2>2. i = n + 1
    BY <1>1, <1>2, <1>5, <2>1 DEF Candidates
  <2> QED
    BY <1>5, <2>1, <2>2 DEF last
<1>10. \/ new.current = row.current
       \/ /\ new.current = n + 1
          /\ new.versions[new.current].origin = "pipeline"
  BY <1>5, <1>11 DEF last
<1> QED
  BY <1>5, <1>6, <1>7, <1>8, <1>9, <1>10 DEF new, pending

\* _upsert_page leaves one candidate if it has read all there are.
LEMMA UpsertedSingle ==
  ASSUME NEW row, WellFormed(row), Single(row),
         NEW u, u.wanted \in Materials, u.seen \in Nat, u.hidden \in BOOLEAN,
         ByUser(row, u.seen) => Candidates(row) \subseteq u.candidates
  PROVE  Single(Upserted(row, u))
<1> DEFINE new == Upserted(row, u)
           n == Len(row.versions)
<1>1. /\ \A i \in 1 .. n : i \in u.candidates => i \notin Candidates(new)
      /\ Candidates(new) \subseteq
           Candidates(row) \cup (IF ByUser(row, u.seen) THEN {n + 1} ELSE {})
  BY UpsertedRow
<1>2. Candidates(row) \subseteq 1 .. n
  BY DEF Candidates, WellFormed, Rows
<1> HIDE DEF new
<1>3. CASE ByUser(row, u.seen)
  <2>1. Candidates(new) \subseteq {n + 1}
    BY <1>1, <1>2, <1>3
  <2> QED
    BY <2>1 DEF Single, new
<1>4. CASE ~ByUser(row, u.seen)
  BY <1>1, <1>4 DEF Single, new
<1> QED
  BY <1>3, <1>4

\* The changes of one transaction to a row compose.
LEMMA EvolvesTransitively ==
  ASSUME NEW a, NEW b, NEW c, WellFormed(a), WellFormed(b), WellFormed(c),
         Evolves(a, b), Evolves(b, c)
  PROVE  Evolves(a, c)
<1>1. /\ Len(a.versions) \in Nat /\ DOMAIN a.versions = 1 .. Len(a.versions)
      /\ Len(b.versions) \in Nat /\ DOMAIN b.versions = 1 .. Len(b.versions)
      /\ Len(c.versions) \in Nat /\ DOMAIN c.versions = 1 .. Len(c.versions)
  BY DEF WellFormed, Rows
<1>2. DOMAIN a.versions \subseteq DOMAIN b.versions
  BY <1>1 DEF Evolves
<1> QED
  BY <1>1, <1>2 DEF Evolves

\* An upsert in a transaction that has changed the page already (a user's
\* edit of the topic page) still evolves from the committed row.
LEMMA UpsertedDraft ==
  ASSUME NEW old, NEW row, WellFormed(old), WellFormed(row),
         Evolves(old, row), Based(old, row),
         NEW u, u.wanted \in Materials, u.seen \in Nat, u.hidden \in BOOLEAN
  PROVE  Evolves(old, Upserted(row, u)) /\ Based(old, Upserted(row, u))
<1> DEFINE new == Upserted(row, u)
           n == Len(row.versions)
<1>1. /\ WellFormed(new)
      /\ Len(new.versions) = n + 1
      /\ Evolves(row, new)
      /\ \/ new.current = row.current
         \/ /\ new.current = n + 1
            /\ new.versions[new.current].origin = "pipeline"
  BY UpsertedRow
<1> HIDE DEF new
<1>2. Evolves(old, new)
  BY <1>1, EvolvesTransitively
<1>3. /\ n \in Nat /\ DOMAIN row.versions = 1 .. n
      /\ DOMAIN new.versions = 1 .. n + 1
      /\ Len(old.versions) \in Nat /\ DOMAIN old.versions = 1 .. Len(old.versions)
      /\ Len(old.versions) <= n
  BY <1>1 DEF WellFormed, Rows, Evolves
<1>4. ASSUME new.current = row.current PROVE Based(old, new)
  <2>1. CASE row.current = old.current
    BY <1>4, <2>1 DEF Based
  <2>2. CASE row.current \in DOMAIN row.versions
    <3>1. /\ new.versions[row.current].base = row.versions[row.current].base
          /\ new.versions[row.current].origin = row.versions[row.current].origin
      BY <1>1, <2>2 DEF Evolves
    <3>2. row.current \in DOMAIN new.versions
      BY <1>3, <2>2
    <3> QED
      BY <1>4, <3>1, <3>2 DEF Based
  <2> QED
    BY <2>1, <2>2 DEF Based
<1>5. ASSUME new.current = n + 1, new.versions[new.current].origin = "pipeline"
      PROVE  Based(old, new)
  <2>1. new.current \in DOMAIN new.versions
    BY <1>3, <1>5
  <2>2. new.current \notin DOMAIN old.versions
    BY <1>3, <1>5
  <2> QED
    BY <1>5, <2>1, <2>2 DEF Based
<1> QED
  BY <1>1, <1>2, <1>4, <1>5 DEF new
-----------------------------------------------------------------------------
\* What an upsert has read of the row stays usable: versions do not disappear,
\* and if the number it chose is still free, it knows all candidates.
ReadsOf(row, u) ==
  /\ u.step \in {"number", "insert"} => u.seen \in 0 .. Len(row.versions)
  /\ u.step = "insert" =>
       /\ u.number <= Len(row.versions) + 1
       /\ u.number = Len(row.versions) + 1 /\ ByUser(row, u.seen)
            => Candidates(row) \subseteq u.candidates

\* View, of a record: the page as the transaction with record u sees it.
ViewOf(u, p) == IF u.held = p THEN u.draft ELSE pages[p]

\* A transaction in _upsert_page works on a page; one that reads the claims
\* collects versions of summaries.
Upserting(u) ==
  /\ u.step \in {"page", "number", "insert"} =>
       u.target \in Pages /\ ReadsOf(ViewOf(u, u.target), u)
  /\ u.step = "claims" => u.wanted.content \in SUBSET Items

\* An uncommitted row may be committed.
Drafted(u) ==
  u.held # None =>
    /\ Single(u.draft)
    /\ Evolves(pages[u.held], u.draft)
    /\ Based(pages[u.held], u.draft)

\* No two transactions hold the same page.
Exclusive ==
  \A t, u \in Transactions : t # u /\ tx[t].held # None => tx[u].held # tx[t].held

\* The inductive invariant.
IInv ==
  /\ TypeOK
  /\ Exclusive
  /\ \A p \in Pages : Single(pages[p])
  /\ \A t \in Transactions : Drafted(tx[t]) /\ Upserting(tx[t])

\* What an upsert has read survives the commits of others.
LEMMA ReadsEvolve ==
  ASSUME NEW old, NEW new, WellFormed(old), WellFormed(new), Evolves(old, new),
         NEW u \in Sessions, ReadsOf(old, u)
  PROVE  ReadsOf(new, u)
<1>1. /\ Len(old.versions) \in Nat /\ DOMAIN old.versions = 1 .. Len(old.versions)
      /\ Len(new.versions) \in Nat /\ DOMAIN new.versions = 1 .. Len(new.versions)
      /\ u.seen \in Nat /\ u.number \in Nat
  BY DEF WellFormed, Rows, Sessions
<1>2. ASSUME u.step \in {"number", "insert"} PROVE u.seen \in 0 .. Len(new.versions)
  BY <1>1, <1>2 DEF ReadsOf, Evolves
<1>3. ASSUME u.step = "insert", u.number = Len(new.versions) + 1, ByUser(new, u.seen)
      PROVE  Candidates(new) \subseteq u.candidates
  <2>1. Len(old.versions) = Len(new.versions)
    BY <1>1, <1>3 DEF ReadsOf, Evolves
  <2>2. ByUser(old, u.seen)
    BY <1>1, <1>3 DEF ReadsOf, Evolves, ByUser
  <2>3. Candidates(old) \subseteq u.candidates
    BY <1>3, <2>1, <2>2 DEF ReadsOf
  <2> QED
    BY <2>1, <2>3 DEF Evolves
<1>4. ASSUME u.step = "insert" PROVE u.number <= Len(new.versions) + 1
  BY <1>1, <1>4 DEF ReadsOf, Evolves
<1> QED
  BY <1>2, <1>3, <1>4 DEF ReadsOf

\* Committed rows, drafts and views are well-formed.
LEMMA RowsWellFormed ==
  ASSUME IInv, NEW t \in Transactions, NEW p \in Pages
  PROVE  /\ WellFormed(pages[p])
         /\ WellFormed(tx[t].draft)
         /\ WellFormed(View(t, p))
         /\ View(t, p) = ViewOf(tx[t], p)
BY DEF IInv, TypeOK, WellFormed, View, ViewOf, Sessions

\* The variables beside the pages and the transactions.
OthersTyped ==
  /\ active \in [Summaries -> Generations \cup {None}]
  /\ verified \in SUBSET Items
  /\ changes \in 0 .. MaxChanges
  /\ outdated \in BOOLEAN
  /\ overlapped \in BOOLEAN

\* A transaction that has not begun.
LEMMA IdleTyped ==
  /\ Idle \in Sessions
  /\ WellFormed(Idle.draft)
  /\ Idle.held = None /\ Idle.step = "idle"
<1>1. NoRow \in Rows /\ NoRow.current \in 0 .. Len(NoRow.versions)
  BY DEF NoRow, Rows
<1>2. Nothing \in Materials
  BY DEF Nothing, Materials, Sources
<1>3. Idle \in Sessions
  BY <1>1, <1>2 DEF Idle, Sessions, Steps
<1> QED
  BY <1>1, <1>3 DEF Idle, WellFormed

\* A step that leaves held page and draft alone keeps the draft committable.
LEMMA DraftsKept ==
  ASSUME IInv, NEW t \in Transactions,
         NEW u, u.held = tx[t].held, u.draft = tx[t].draft
  PROVE  Drafted(u) /\ WellFormed(u.draft)
<1>1. Drafted(u)
  BY DEF IInv, Drafted
<1>2. WellFormed(u.draft)
  BY DEF IInv, TypeOK, WellFormed, Sessions
<1> QED
  BY <1>1, <1>2

\* A step that commits nothing, and holds at most a page that was free.
LEMMA StepInTransaction ==
  ASSUME IInv, NEW t \in Transactions, NEW u \in Sessions,
         tx' = [tx EXCEPT ![t] = u],
         pages' = pages, OthersTyped',
         WellFormed(u.draft), Upserting(u), Drafted(u),
         \/ u.held \in {None, tx[t].held}
         \/ Free(t, u.held)
  PROVE  IInv' /\ \A p \in Pages : Based(pages[p], pages'[p])
<1>1. tx' \in [Transactions -> Sessions]
  BY DEF IInv, TypeOK
<1>2. /\ tx'[t] = u
      /\ \A v \in Transactions \ {t} : tx'[v] = tx[v]
  BY DEF IInv, TypeOK
<1>3. TypeOK'
  BY <1>1, <1>2 DEF IInv, TypeOK, WellFormed, OthersTyped
<1>4. Exclusive'
  BY <1>2 DEF IInv, Exclusive, Free
<1>5. \A v \in Transactions : (Drafted(tx[v]) /\ Upserting(tx[v]))'
  BY <1>2 DEF IInv, Drafted, Upserting, ViewOf
<1> QED
  BY <1>3, <1>4, <1>5 DEF IInv, Based

\* What a row evolves from, or is based on, is its versions and its current version.
LEMMA SameRow ==
  ASSUME NEW a, NEW b, NEW new, a.versions = b.versions, a.current = b.current
  PROVE  /\ Evolves(b, new) => Evolves(a, new)
         /\ Based(b, new) => Based(a, new)
<1>1. Candidates(a) = Candidates(b)
  BY DEF Candidates
<1>2. Evolves(b, new) => Evolves(a, new)
  BY <1>1 DEF Evolves
<1>3. Based(b, new) => Based(a, new)
  BY DEF Based
<1> QED
  BY <1>2, <1>3

\* A commit of rows that evolve from the committed ones, and differ from them
\* only in pages nobody else holds.
LEMMA CommitStep ==
  ASSUME IInv, NEW t \in Transactions, NEW rows \in [Pages -> Rows],
         Commit(t, rows), changes' \in 0 .. MaxChanges, outdated' \in BOOLEAN,
         \A p \in Pages :
           /\ WellFormed(rows[p])
           /\ Single(rows[p])
           /\ Evolves(pages[p], rows[p])
           /\ Based(pages[p], rows[p])
           /\ \/ Free(t, p)
              \/ /\ rows[p].versions = pages[p].versions
                 /\ rows[p].current = pages[p].current
  PROVE  IInv' /\ \A p \in Pages : Based(pages[p], pages'[p])
<1>1. /\ Idle \in Sessions
      /\ WellFormed(Idle.draft)
  BY IdleTyped
<1>2. /\ tx'[t] = Idle
      /\ \A v \in Transactions \ {t} : tx'[v] = tx[v]
      /\ tx' \in [Transactions -> Sessions]
      /\ pages' = rows
  BY <1>1 DEF IInv, TypeOK, Commit, End
<1>3. OthersTyped'
  <2>1. overlapped' \in BOOLEAN
    BY DEF Commit, End
  <2>2. tx[t].claims \in SUBSET Items
    BY DEF IInv, TypeOK, Sessions
  <2> QED
    BY <2>1, <2>2 DEF Commit, IInv, TypeOK, OthersTyped
<1>4. TypeOK'
  BY <1>1, <1>2, <1>3 DEF IInv, TypeOK, WellFormed, OthersTyped
<1>5. Exclusive'
  BY <1>2, PagesAssumption DEF IInv, Exclusive, Idle
<1>6. ASSUME NEW v \in Transactions PROVE (Drafted(tx[v]))'
  <2>1. CASE v = t
    BY <1>2, <2>1 DEF Drafted, Idle
  <2>2. CASE v # t /\ tx[v].held # None
    <3>1. tx[v].held \in Pages
      BY <2>2 DEF IInv, TypeOK, Sessions
    <3>2. ~Free(t, tx[v].held)
      BY <2>2 DEF Free
    <3>3. /\ rows[tx[v].held].versions = pages[tx[v].held].versions
          /\ rows[tx[v].held].current = pages[tx[v].held].current
      BY <3>1, <3>2
    <3>4. Drafted(tx[v])
      BY DEF IInv
    <3>5. /\ Single(tx[v].draft)
          /\ Evolves(pages[tx[v].held], tx[v].draft)
          /\ Based(pages[tx[v].held], tx[v].draft)
      BY <2>2, <3>4 DEF Drafted
    <3>6. /\ Evolves(rows[tx[v].held], tx[v].draft)
          /\ Based(rows[tx[v].held], tx[v].draft)
      BY <3>3, <3>5, SameRow
    <3> QED
      BY <1>2, <2>2, <3>5, <3>6 DEF Drafted
  <2>3. CASE v # t /\ tx[v].held = None
    BY <1>2, <2>3 DEF Drafted
  <2> QED
    BY <2>1, <2>2, <2>3
<1>7. ASSUME NEW v \in Transactions PROVE (Upserting(tx[v]))'
  <2>1. CASE v = t
    BY <1>2, <2>1 DEF Upserting, Idle
  <2>2. CASE v # t /\ tx[v].step \in {"page", "number", "insert"}
    <3>1. tx[v].target \in Pages /\ ReadsOf(ViewOf(tx[v], tx[v].target), tx[v])
      BY <2>2 DEF IInv, Upserting
    <3>2. CASE tx[v].held = tx[v].target
      BY <1>2, <2>2, <3>1, <3>2 DEF Upserting, ViewOf
    <3>3. CASE tx[v].held # tx[v].target
      <4>1. ReadsOf(pages[tx[v].target], tx[v])
        BY <3>1, <3>3 DEF ViewOf
      <4>2. ReadsOf(rows[tx[v].target], tx[v])
        BY <3>1, <4>1, ReadsEvolve, RowsWellFormed DEF IInv, TypeOK
      <4> QED
        BY <1>2, <2>2, <3>1, <3>3, <4>2 DEF Upserting, ViewOf
    <3> QED
      BY <3>2, <3>3
  <2>3. CASE v # t /\ tx[v].step \notin {"page", "number", "insert"}
    BY <1>2, <2>3 DEF IInv, Upserting
  <2> QED
    BY <2>1, <2>2, <2>3
<1> QED
  BY <1>2, <1>4, <1>5, <1>6, <1>7 DEF IInv

\* What each step is shown to do.
Preserved == IInv' /\ \A p \in Pages : Based(pages[p], pages'[p])

\* A row that is not written satisfies both relations.
LEMMA UnchangedRow ==
  ASSUME NEW row, Single(row)
  PROVE  Evolves(row, row) /\ Based(row, row)
BY DEF Evolves, Based

\* _publish begins to upsert a summary.
LEMMA PublishStep ==
  ASSUME IInv, NEW t \in Transactions, NEW s \in Summaries, NEW g \in Generations,
         Publish(t, s, g)
  PROVE  Preserved
<1> DEFINE m == [content |-> g, meta |-> g]
           u == [Upsert(tx[t], s, m) EXCEPT !.pipeline = TRUE]
<1>1. /\ tx[t] \in Sessions
      /\ s \in Pages /\ m \in Materials
  BY DEF IInv, TypeOK, Pages, Materials, Sources
<1>2. /\ u \in Sessions
      /\ u.step = "page" /\ u.target = s
      /\ u.held = tx[t].held /\ u.draft = tx[t].draft
  BY <1>1 DEF Upsert, Sessions, Steps
<1>3. tx' = [tx EXCEPT ![t] = u]
  BY DEF Publish
<1> HIDE DEF u, m
<1>4. Upserting(u)
  BY <1>1, <1>2 DEF Upserting, ReadsOf
<1>5. Drafted(u) /\ WellFormed(u.draft)
  BY <1>2, DraftsKept
<1>6. pages' = pages /\ OthersTyped'
  BY DEF Publish, IInv, TypeOK, OthersTyped
<1> QED
  BY <1>2, <1>3, <1>4, <1>5, <1>6, StepInTransaction DEF Preserved

\* The first read of _upsert_page.
LEMMA ReadPageStep ==
  ASSUME IInv, NEW t \in Transactions, ReadPage(t)
  PROVE  Preserved
<1> DEFINE v == tx[t]
           row == View(t, v.target)
           read == [v EXCEPT !.seen = row.current, !.hidden = row.deleted]
           u == IF ~UpToDate(row, v.wanted) THEN [read EXCEPT !.step = "number"]
                ELSE IF v.target = Topic THEN [read EXCEPT !.step = "kept"]
                ELSE AfterUpsert(v)
<1>1. /\ v \in Sessions
      /\ v.target \in Pages
      /\ WellFormed(row)
      /\ row = ViewOf(v, v.target)
  BY RowsWellFormed DEF ReadPage, IInv, TypeOK, Upserting
<1>2. tx' = [tx EXCEPT ![t] = u]
  BY DEF ReadPage
<1> HIDE DEF row
<1>3. /\ u \in Sessions
      /\ u.step \in {"number", "kept", "sources"}
      /\ u.held = v.held /\ u.draft = v.draft
      /\ u.step = "number" => u.target = v.target /\ u.seen = row.current
  <2>1. /\ [read EXCEPT !.step = "number"] \in Sessions
        /\ [read EXCEPT !.step = "kept"] \in Sessions
    BY ZenonT(60), <1>1 DEF Sessions, Steps, WellFormed, Rows
  <2>2. AfterUpsert(v) \in Sessions
    BY <1>1, IdleTyped DEF AfterUpsert, Sessions, Steps
  <2>3. AfterUpsert(v).step = "sources" /\ AfterUpsert(v).held = v.held
        /\ AfterUpsert(v).draft = v.draft
    BY DEF AfterUpsert, Idle
  <2> QED
    BY <1>1, <2>1, <2>2, <2>3 DEF Sessions
<1> HIDE DEF u
<1>4. Upserting(u)
  BY <1>1, <1>3 DEF Upserting, ReadsOf, ViewOf, WellFormed
<1>5. Drafted(u) /\ WellFormed(u.draft)
  BY <1>3, DraftsKept
<1>6. pages' = pages /\ OthersTyped'
  BY DEF ReadPage, IInv, TypeOK, OthersTyped
<1> QED
  BY <1>2, <1>3, <1>4, <1>5, <1>6, StepInTransaction DEF Preserved

\* The second read: all candidates of the row are known if the number is free.
LEMMA ReadNumberStep ==
  ASSUME IInv, NEW t \in Transactions, ReadNumber(t)
  PROVE  Preserved
<1> DEFINE v == tx[t]
           row == View(t, v.target)
           candidates == IF ByUser(row, v.seen) THEN Candidates(row) ELSE {}
           u == [v EXCEPT !.step = "insert", !.number = Len(row.versions) + 1,
                          !.candidates = candidates]
<1>1. /\ v \in Sessions
      /\ v.target \in Pages
      /\ WellFormed(row)
      /\ row = ViewOf(v, v.target)
      /\ v.seen \in 0 .. Len(row.versions)
  BY RowsWellFormed DEF ReadNumber, IInv, TypeOK, Upserting, ReadsOf
<1>2. tx' = [tx EXCEPT ![t] = u]
  BY DEF ReadNumber, IInv, TypeOK, Sessions
<1> HIDE DEF row
<1>3. /\ Len(row.versions) \in Nat
      /\ candidates \in SUBSET Nat
  BY <1>1 DEF WellFormed, Rows, Candidates
<1> HIDE DEF candidates
<1>9. v.step \in Steps /\ "insert" \in Steps /\ Len(row.versions) + 1 \in Nat
  BY <1>1, <1>3 DEF Sessions, Steps
<1>4. /\ u \in Sessions
      /\ u.step = "insert" /\ u.target = v.target /\ u.seen = v.seen
      /\ u.held = v.held /\ u.draft = v.draft
      /\ u.number = Len(row.versions) + 1 /\ u.candidates = candidates
  BY <1>1, <1>3, <1>9 DEF Sessions
<1> HIDE DEF u
<1>5. ReadsOf(row, u)
  BY <1>1, <1>3, <1>4 DEF ReadsOf, candidates
<1>6. Upserting(u)
  BY <1>1, <1>4, <1>5 DEF Upserting, ViewOf
<1>7. Drafted(u) /\ WellFormed(u.draft)
  BY <1>4, DraftsKept
<1>8. pages' = pages /\ OthersTyped'
  BY DEF ReadNumber, IInv, TypeOK, OthersTyped
<1> QED
  BY <1>2, <1>4, <1>6, <1>7, <1>8, StepInTransaction DEF Preserved

\* The insert of a version of a summary: the page is free or held by t.
LEMMA InsertSummaryStep ==
  ASSUME IInv, NEW t \in Transactions, InsertSummary(t)
  PROVE  Preserved
<1> DEFINE v == tx[t]
           p == v.target
           old == View(t, p)
           row == Upserted(old, v)
           cited == {i \in {<<p, Len(row.versions)>>} : v.wanted.meta \in Cited}
           u == AfterUpsert([v EXCEPT !.held = p, !.draft = row, !.claims = cited])
<1>1. /\ v \in Sessions
      /\ v.wanted \in Materials /\ v.seen \in Nat /\ v.hidden \in BOOLEAN
      /\ p \in Pages
      /\ WellFormed(pages[p]) /\ WellFormed(old)
      /\ old = ViewOf(v, p)
  BY RowsWellFormed DEF InsertSummary, IInv, TypeOK, Upserting, Sessions
<1>9. Single(old) /\ Evolves(pages[p], old) /\ Based(pages[p], old)
  BY <1>1, PagesAssumption, UnchangedRow DEF IInv, Drafted, ViewOf, Pages
<1>2. tx' = [tx EXCEPT ![t] = u]
  BY DEF InsertSummary
<1>3. Free(t, p)
  BY DEF InsertSummary
<1>10. ByUser(old, v.seen) => Candidates(old) \subseteq v.candidates
  BY <1>1 DEF InsertSummary, NumberFree, IInv, Upserting, ReadsOf
<1> HIDE DEF old
<1>4. WellFormed(row) /\ Evolves(pages[p], row) /\ Based(pages[p], row)
  BY <1>1, <1>9, UpsertedRow, UpsertedDraft
<1>5. Single(row)
  BY <1>1, <1>9, <1>10, UpsertedSingle
<1>11. p \in Summaries
  BY <1>1 DEF InsertSummary, Pages
<1> HIDE DEF row
<1>12. cited \in SUBSET Items
  BY <1>4, <1>11 DEF Items, WellFormed, Rows
<1> HIDE DEF cited
<1>6. /\ u \in Sessions
      /\ u.step = "sources"
      /\ u.held = p /\ u.draft = row
  BY <1>1, <1>4, <1>12, IdleTyped DEF AfterUpsert, Sessions, Steps, WellFormed
<1> HIDE DEF u
<1>7. Upserting(u) /\ Drafted(u)
  BY <1>4, <1>5, <1>6 DEF Upserting, Drafted
<1>8. pages' = pages /\ OthersTyped'
  BY DEF InsertSummary, IInv, TypeOK, OthersTyped
<1> QED
  BY <1>2, <1>3, <1>4, <1>6, <1>7, <1>8, StepInTransaction DEF Preserved

\* _rebuild_topic_pages reads which summaries name the topic.
LEMMA ReadSourcesStep ==
  ASSUME IInv, NEW t \in Transactions, ReadSources(t)
  PROVE  Preserved
<1> DEFINE v == tx[t]
           items == Naming(Written(t))
           m == [content |-> {}, meta |-> items]
           u == IF Cardinality(items) >= 2
                THEN [v EXCEPT !.step = "claims", !.unread = items, !.wanted = m]
                ELSE [v EXCEPT !.step = "retire"]
<1>1. v \in Sessions
  BY DEF IInv, TypeOK
<1>2. tx' = [tx EXCEPT ![t] = u]
  BY DEF ReadSources
<1>3. \A s \in Summaries : s \in Pages /\ Written(t)[s].current \in Nat
  BY RowsWellFormed DEF Written, WellFormed, Rows, Pages
<1>4. items \in SUBSET Items
  BY <1>3 DEF Naming, Items
<1> HIDE DEF items
<1>9. m \in Materials /\ m.content = {}
  BY <1>4 DEF Materials, Sources
<1> HIDE DEF m
<1>5. /\ u \in Sessions
      /\ u.step \in {"claims", "retire"}
      /\ u.step = "claims" => u.wanted.content = {}
      /\ u.held = v.held /\ u.draft = v.draft
  <2>1. /\ [v EXCEPT !.step = "retire"] \in Sessions
        /\ [v EXCEPT !.step = "retire"].step = "retire"
        /\ [v EXCEPT !.step = "retire"].held = v.held
        /\ [v EXCEPT !.step = "retire"].draft = v.draft
    BY <1>1 DEF Sessions, Steps
  <2> DEFINE w == [v EXCEPT !.step = "claims", !.unread = items, !.wanted = m]
  <2>2. /\ w \in Sessions
        /\ w.step = "claims" /\ w.wanted = m
        /\ w.held = v.held /\ w.draft = v.draft
    BY <1>1, <1>4, <1>9 DEF Sessions, Steps
  <2> QED
    BY <1>9, <2>1, <2>2
<1> HIDE DEF u
<1>6. Upserting(u)
  BY <1>5 DEF Upserting
<1>7. Drafted(u) /\ WellFormed(u.draft)
  BY <1>5, DraftsKept
<1>8. pages' = pages /\ OthersTyped'
  BY DEF ReadSources, IInv, TypeOK, OthersTyped
<1> QED
  BY <1>2, <1>5, <1>6, <1>7, <1>8, StepInTransaction DEF Preserved

\* ReadClaims, with names for what it has read.
LEMMA ClaimsRead ==
  ASSUME NEW t, NEW i, tx[t] \in Sessions, tx[t].wanted \in Materials, ReadClaims(t, i)
  PROVE  LET v == tx[t]
             left == v.unread \ {i}
             m == [v.wanted EXCEPT !.content = @ \cup ({i} \cap Trusted(t))]
             read == [v EXCEPT !.unread = left, !.wanted = m]
             u == IF left # {} THEN read
                  ELSE IF m.content = {} THEN [read EXCEPT !.step = "retire"]
                  ELSE Upsert(read, Topic, m)
         IN tx' = [tx EXCEPT ![t] = u]
<1> DEFINE v == tx[t]
           left == v.unread \ {i}
           m == [v.wanted EXCEPT !.content = @ \cup ({i} \cap Trusted(t))]
           read == [v EXCEPT !.unread = left, !.wanted = m]
           w == [v EXCEPT !.unread = @ \ {i},
                          !.wanted.content = @ \cup ({i} \cap Trusted(t))]
<1>1. w = read
  BY DEF Sessions
<1>2. read.unread = left /\ read.wanted = m
  BY DEF Sessions
<1>3. tx' = [tx EXCEPT ![t] =
               IF w.unread # {} THEN w
               ELSE IF w.wanted.content = {} THEN [w EXCEPT !.step = "retire"]
               ELSE Upsert(w, Topic, w.wanted)]
  BY DEF ReadClaims
<1> HIDE DEF w, read, left, m
<1>4. tx' = [tx EXCEPT ![t] =
               IF read.unread # {} THEN read
               ELSE IF read.wanted.content = {} THEN [read EXCEPT !.step = "retire"]
               ELSE Upsert(read, Topic, read.wanted)]
  BY <1>1, <1>3
<1>5. tx' = [tx EXCEPT ![t] =
               IF left # {} THEN read
               ELSE IF m.content = {} THEN [read EXCEPT !.step = "retire"]
               ELSE Upsert(read, Topic, m)]
  BY <1>2, <1>4
<1> QED
  BY <1>5 DEF left, m, read

\* It reads the claims of one of them, and upserts or retires the topic after
\* the last.
LEMMA ReadClaimsStep ==
  ASSUME IInv, NEW t \in Transactions, NEW i, ReadClaims(t, i)
  PROVE  Preserved
<1> DEFINE v == tx[t]
           left == v.unread \ {i}
           m == [v.wanted EXCEPT !.content = @ \cup ({i} \cap Trusted(t))]
           read == [v EXCEPT !.unread = left, !.wanted = m]
           u == IF left # {} THEN read
                ELSE IF m.content = {} THEN [read EXCEPT !.step = "retire"]
                ELSE Upsert(read, Topic, m)
<1>1. /\ v \in Sessions
      /\ v.step = "claims" /\ i \in v.unread
      /\ v.wanted \in Materials /\ v.wanted.content \in SUBSET Items
  BY DEF ReadClaims, IInv, TypeOK, Sessions, Upserting
<1>2. left \in SUBSET Items /\ i \in Items
  BY <1>1 DEF Sessions
<1>3. /\ m \in Materials
      /\ m.content = v.wanted.content \cup ({i} \cap Trusted(t))
  BY <1>1, <1>2 DEF Materials, Sources
<1>4. m.content \in SUBSET Items
  BY <1>1, <1>2, <1>3
<1>5. tx' = [tx EXCEPT ![t] = u]
  BY <1>1, ClaimsRead
<1> HIDE DEF left, m
<1>6. /\ read \in Sessions /\ read.step = "claims" /\ read.wanted = m
      /\ read.held = v.held /\ read.draft = v.draft
  BY <1>1, <1>2, <1>3 DEF Sessions
<1> HIDE DEF read
<1>7. /\ u \in Sessions
      /\ u.step \in {"claims", "retire", "page"}
      /\ u.step = "claims" => u.wanted = m
      /\ u.step = "page" => u.target = Topic
      /\ u.held = v.held /\ u.draft = v.draft
  <2>1. /\ [read EXCEPT !.step = "retire"] \in Sessions
        /\ [read EXCEPT !.step = "retire"].step = "retire"
        /\ [read EXCEPT !.step = "retire"].held = v.held
        /\ [read EXCEPT !.step = "retire"].draft = v.draft
    BY <1>6 DEF Sessions, Steps
  <2>2. /\ Upsert(read, Topic, m) \in Sessions
        /\ Upsert(read, Topic, m).step = "page"
        /\ Upsert(read, Topic, m).target = Topic
        /\ Upsert(read, Topic, m).held = v.held
        /\ Upsert(read, Topic, m).draft = v.draft
    BY <1>3, <1>6 DEF Upsert, Sessions, Steps, Pages
  <2> QED
    BY <1>6, <2>1, <2>2
<1> HIDE DEF u
<1>8. Upserting(u)
  BY <1>4, <1>7 DEF Upserting, ReadsOf, Pages
<1>9. Drafted(u) /\ WellFormed(u.draft)
  BY <1>7, DraftsKept
<1>10. pages' = pages /\ OthersTyped'
  BY DEF ReadClaims, IInv, TypeOK, OthersTyped
<1> QED
  BY <1>5, <1>7, <1>8, <1>9, <1>10, StepInTransaction DEF Preserved

\* The activation of a version of a document, or its deletion, begins.
LEMMA ChangeDocumentStep ==
  ASSUME IInv, NEW t \in Transactions, NEW s \in Summaries,
         NEW g \in Generations \cup {None}, ChangeDocument(t, s, g)
  PROVE  Preserved
<1> DEFINE lost == Invalidated(s)
           u == [tx[t] EXCEPT !.step = "changed", !.target = s, !.next = g,
                              !.distrusted = lost]
<1>1. /\ tx[t] \in Sessions
      /\ s \in Pages /\ lost \in SUBSET Items
  BY DEF IInv, TypeOK, Pages, Invalidated
<1>2. tx' = [tx EXCEPT ![t] = u]
  BY DEF ChangeDocument, IInv, TypeOK, Sessions
<1> HIDE DEF lost
<1>3. /\ u \in Sessions
      /\ u.step = "changed"
      /\ u.held = tx[t].held /\ u.draft = tx[t].draft
  BY <1>1 DEF Sessions, Steps
<1> HIDE DEF u
<1>4. Upserting(u)
  BY <1>3 DEF Upserting
<1>5. Drafted(u) /\ WellFormed(u.draft)
  BY <1>3, DraftsKept
<1>6. pages' = pages /\ OthersTyped'
  BY PagesAssumption DEF ChangeDocument, Counted, IInv, TypeOK, OthersTyped
<1> QED
  BY <1>2, <1>3, <1>4, <1>5, <1>6, StepInTransaction DEF Preserved

\* It commits, and leaves the pages alone.
LEMMA CommitDocumentStep ==
  ASSUME IInv, NEW t \in Transactions, CommitDocument(t)
  PROVE  Preserved
<1>1. /\ Idle \in Sessions
      /\ WellFormed(Idle.draft)
      /\ Idle.held = None /\ Idle.step = "idle"
  BY IdleTyped
<1>2. Upserting(Idle) /\ Drafted(Idle)
  BY <1>1 DEF Upserting, Drafted
<1>3. tx' = [tx EXCEPT ![t] = Idle] /\ pages' = pages
  BY DEF CommitDocument, End
<1>4. OthersTyped'
  <2>1. tx[t].next \in Generations \cup {None}
    BY DEF IInv, TypeOK, Sessions
  <2>2. active' \in [Summaries -> Generations \cup {None}]
    BY <2>1 DEF CommitDocument, IInv, TypeOK
  <2> QED
    BY <2>2 DEF CommitDocument, End, IInv, TypeOK, OthersTyped
<1> QED
  BY <1>1, <1>2, <1>3, <1>4, StepInTransaction DEF Preserved

\* A transaction that fails leaves the pages alone.
LEMMA AbortStep ==
  ASSUME IInv, NEW t \in Transactions, Abort(t)
  PROVE  Preserved
<1>1. /\ Idle \in Sessions
      /\ WellFormed(Idle.draft)
      /\ Idle.held = None /\ Idle.step = "idle"
  BY IdleTyped
<1>2. Upserting(Idle) /\ Drafted(Idle)
  BY <1>1 DEF Upserting, Drafted
<1>3. /\ tx' = [tx EXCEPT ![t] = Idle]
      /\ pages' = pages /\ OthersTyped'
  BY DEF Abort, IInv, TypeOK, OthersTyped
<1> QED
  BY <1>1, <1>2, <1>3, StepInTransaction DEF Preserved

\* What an edit or a revert does to a row.
LEMMA NewVersionRow ==
  ASSUME NEW row, WellFormed(row), Single(row), row.current # 0,
         NEW content \in Sources \cup {Manual}, NEW meta \in Sources,
         NEW origin \in {"user", "revert"}
  PROVE  LET new == NewVersion(row, content, meta, origin)
         IN WellFormed(new) /\ Single(new) /\ Evolves(row, new) /\ Based(row, new)
<1> DEFINE new == NewVersion(row, content, meta, origin)
           n == Len(row.versions)
           last == [content |-> content, meta |-> meta, origin |-> origin,
                    state |-> "published", base |-> row.current]
<1>1. /\ row.versions \in Seq(Versions)
      /\ n \in Nat /\ DOMAIN row.versions = 1 .. n
      /\ row.current \in 0 .. n
      /\ row \in Rows
  BY DEF WellFormed, Rows
<1>2. last \in Versions
  BY <1>1 DEF Versions
<1>3. new = [row EXCEPT !.versions = Append(row.versions, last), !.current = n + 1]
  BY <1>1 DEF NewVersion, Rows
<1> HIDE DEF last, new
<1>11. Append(row.versions, last) \in Seq(Versions) /\ n + 1 \in Nat
  BY <1>1, <1>2
<1>4. /\ new.versions = Append(row.versions, last)
      /\ new.current = n + 1
      /\ new \in Rows
  <2> HIDE DEF n
  <2> QED
    BY <1>1, <1>3, <1>11 DEF Rows
<1>5. /\ Len(new.versions) = n + 1
      /\ \A i \in 1 .. n : new.versions[i] = row.versions[i]
      /\ new.versions[n + 1] = last
      /\ DOMAIN new.versions = 1 .. n + 1
  BY <1>1, <1>2, <1>4
<1>6. WellFormed(new)
  BY <1>1, <1>4, <1>5 DEF WellFormed
<1>7. Candidates(new) \subseteq Candidates(row)
  BY <1>1, <1>5 DEF Candidates, last
<1>8. Single(new)
  BY <1>7 DEF Single
<1>9. Evolves(row, new)
  BY <1>1, <1>5 DEF Evolves
<1>10. Based(row, new)
  BY <1>1, <1>4, <1>5 DEF Based, last
<1> QED
  BY <1>6, <1>8, <1>9, <1>10 DEF new

\* A user's change of a page it has just locked.
LEMMA ChangeStep ==
  ASSUME IInv, NEW t \in Transactions, NEW p \in Pages, NEW row,
         NEW claims \in SUBSET Items, Open(t, p), Change(t, p, row, claims),
         WellFormed(row), Single(row), Evolves(pages[p], row), Based(pages[p], row)
  PROVE  Preserved
<1> DEFINE u == [tx[t] EXCEPT !.step = "sources", !.held = p, !.draft = row,
                              !.claims = claims]
<1>1. tx[t] \in Sessions
  BY DEF IInv, TypeOK
<1>2. /\ u \in Sessions
      /\ u.step = "sources" /\ u.held = p /\ u.draft = row
  BY <1>1 DEF Sessions, Steps, WellFormed
<1>3. tx' = [tx EXCEPT ![t] = u]
  BY <1>1 DEF Change, IInv, TypeOK, Sessions
<1> HIDE DEF u
<1>4. Upserting(u) /\ Drafted(u)
  BY <1>2 DEF Upserting, Drafted
<1>5. pages' = pages /\ Free(t, p)
  BY DEF Open, Change
<1>6. OthersTyped'
  BY PagesAssumption DEF Open, Counted, Change, IInv, TypeOK, OthersTyped
<1> QED
  BY <1>2, <1>3, <1>4, <1>5, <1>6, StepInTransaction DEF Preserved

\* edit_page.
LEMMA EditPageStep ==
  ASSUME IInv, NEW t \in Transactions, NEW p \in Pages, EditPage(t, p)
  PROVE  Preserved
<1> DEFINE row == pages[p]
           meta == row.versions[row.current].meta
           new == NewVersion(row, Manual, meta, "user")
<1>1. /\ WellFormed(row) /\ Single(row)
      /\ row.current # 0
  BY RowsWellFormed DEF IInv, EditPage, Open
<1>2. row.versions[row.current] \in Versions
  BY <1>1 DEF WellFormed, Rows
<1>3. meta \in Sources
  BY <1>2 DEF Versions
<1>4. Open(t, p) /\ Change(t, p, new, {})
  BY DEF EditPage
<1> HIDE DEF meta
<1>5. WellFormed(new) /\ Single(new) /\ Evolves(row, new) /\ Based(row, new)
  BY <1>1, <1>3, NewVersionRow
<1> HIDE DEF new
<1> QED
  BY <1>4, <1>5, ChangeStep

\* revert_page.
LEMMA RevertPageStep ==
  ASSUME IInv, NEW t \in Transactions, NEW p \in Pages,
         NEW i \in DOMAIN pages[p].versions, RevertPage(t, p, i)
  PROVE  Preserved
<1> DEFINE row == pages[p]
           content == row.versions[i].content
           meta == row.versions[i].meta
           new == NewVersion(row, content, meta, "revert")
           claims == CopiedClaims(p, i, new.current)
<1>1. /\ WellFormed(row) /\ Single(row)
      /\ row.current # 0
  BY RowsWellFormed DEF IInv, RevertPage, Open
<1>2. row.versions[i] \in Versions
  BY <1>1 DEF WellFormed, Rows
<1>3. content \in Sources \cup {Manual} /\ meta \in Sources
  BY <1>2 DEF Versions
<1>4. Open(t, p) /\ Change(t, p, new, claims)
  BY DEF RevertPage
<1> HIDE DEF meta, content
<1>5. WellFormed(new) /\ Single(new) /\ Evolves(row, new) /\ Based(row, new)
  BY <1>1, <1>3, NewVersionRow
<1> HIDE DEF new
<1>6. claims \in SUBSET Items
  BY <1>5 DEF IInv, TypeOK, Items, WellFormed, Rows, CopiedClaims
<1> HIDE DEF claims
<1> QED
  BY <1>4, <1>5, <1>6, ChangeStep

\* What a review does to a row: the candidate was based on the current version.
LEMMA ReviewedRow ==
  ASSUME NEW row, WellFormed(row), Single(row),
         NEW i, Reviewable(row, i), NEW state \in {"published", "rejected"},
         NEW current, current = row.current \/ current = i
  PROVE  LET new == [row EXCEPT !.versions[i].state = state, !.current = current]
         IN WellFormed(new) /\ Single(new) /\ Evolves(row, new) /\ Based(row, new)
<1> DEFINE n == Len(row.versions)
           v == [row.versions[i] EXCEPT !.state = state]
           versions == [row.versions EXCEPT ![i] = v]
           new == [row EXCEPT !.versions[i].state = state, !.current = current]
<1>1. /\ row.versions \in Seq(Versions)
      /\ n \in Nat /\ DOMAIN row.versions = 1 .. n
      /\ row.current \in 0 .. n
      /\ row \in Rows
      /\ i \in 1 .. n
      /\ row.versions[i].base = row.current
  BY DEF WellFormed, Rows, Reviewable, Candidates
<1>2. /\ v \in Versions
      /\ v.origin = row.versions[i].origin
      /\ v.base = row.versions[i].base
      /\ v.state = state
  <2>1. row.versions[i] \in Versions
    BY <1>1
  <2> QED
    BY <2>1 DEF Versions
<1>3. /\ versions \in Seq(Versions)
      /\ Len(versions) = n /\ DOMAIN versions = 1 .. n
      /\ versions[i] = v
      /\ \A j \in 1 .. n : j # i => versions[j] = row.versions[j]
  <2> HIDE DEF v
  <2> QED
    BY <1>1, <1>2
<1>4. /\ new = [row EXCEPT !.versions = versions, !.current = current]
      /\ current \in 0 .. n
  BY <1>1 DEF Rows
<1> HIDE DEF v, versions, new
<1>5. /\ new.versions = versions
      /\ new.current = current
      /\ new \in Rows
  <2> HIDE DEF n
  <2>1. current \in Nat
    BY <1>1, <1>4
  <2> QED
    BY <1>1, <1>3, <1>4, <2>1 DEF Rows
<1>6. WellFormed(new)
  BY <1>3, <1>4, <1>5 DEF WellFormed
<1>7. Candidates(new) \subseteq Candidates(row)
  BY <1>1, <1>2, <1>3, <1>5 DEF Candidates
<1>8. Single(new)
  BY <1>7 DEF Single
<1>9. Evolves(row, new)
  BY <1>1, <1>2, <1>3, <1>5, <1>7 DEF Evolves
<1>10. Based(row, new)
  BY <1>1, <1>2, <1>3, <1>5 DEF Based
<1> QED
  BY <1>6, <1>8, <1>9, <1>10 DEF new

\* review_page, deciding to publish.
LEMMA PublishCandidateStep ==
  ASSUME IInv, NEW t \in Transactions, NEW p \in Pages, NEW i, PublishCandidate(t, p, i)
  PROVE  Preserved
<1> DEFINE row == pages[p]
           new == [row EXCEPT !.versions[i].state = "published", !.current = i]
<1>1. WellFormed(row) /\ Single(row)
  BY RowsWellFormed DEF IInv
<1>2. Open(t, p) /\ Change(t, p, new, {}) /\ Reviewable(row, i)
  BY DEF PublishCandidate
<1>3. WellFormed(new) /\ Single(new) /\ Evolves(row, new) /\ Based(row, new)
  BY <1>1, <1>2, ReviewedRow
<1> HIDE DEF new
<1> QED
  BY <1>2, <1>3, ChangeStep

\* review_page, deciding to reject.
LEMMA RejectCandidateStep ==
  ASSUME IInv, NEW t \in Transactions, NEW p \in Pages, NEW i, RejectCandidate(t, p, i)
  PROVE  Preserved
<1> DEFINE row == pages[p]
           new == [row EXCEPT !.versions[i].state = "rejected", !.current = row.current]
           rows == [pages EXCEPT ![p].versions[i].state = "rejected"]
<1>1. /\ WellFormed(row) /\ Single(row)
      /\ pages \in [Pages -> Rows]
  BY RowsWellFormed DEF IInv, TypeOK
<1>2. Open(t, p) /\ Commit(t, rows) /\ Reviewable(row, i) /\ outdated' \in BOOLEAN
  BY DEF RejectCandidate, IInv, TypeOK
<1>3. WellFormed(new) /\ Single(new) /\ Evolves(row, new) /\ Based(row, new)
  BY <1>1, <1>2, ReviewedRow
<1>4. rows = [pages EXCEPT ![p] = new]
  BY <1>1 DEF Rows
<1> HIDE DEF new, rows
<1>5. /\ rows \in [Pages -> Rows]
      /\ rows[p] = new
      /\ \A q \in Pages : q # p => rows[q] = pages[q]
  BY <1>1, <1>3, <1>4 DEF WellFormed
<1>6. \A q \in Pages : /\ WellFormed(pages[q]) /\ Single(pages[q])
                       /\ Evolves(pages[q], pages[q]) /\ Based(pages[q], pages[q])
  BY RowsWellFormed, UnchangedRow DEF IInv
<1>7. Free(t, p) /\ changes' \in 0 .. MaxChanges
  BY <1>2, PagesAssumption DEF Open, Counted, IInv, TypeOK
<1> QED
  BY <1>2, <1>3, <1>5, <1>6, <1>7, CommitStep DEF Preserved

\* What a transaction is about to commit evolves from the committed rows.
LEMMA WrittenRows ==
  ASSUME IInv, NEW t \in Transactions, NEW p \in Pages
  PROVE  /\ WellFormed(View(t, p)) /\ Single(View(t, p))
         /\ Evolves(pages[p], View(t, p)) /\ Based(pages[p], View(t, p))
         /\ Free(t, p) \/ View(t, p) = pages[p]
<1>1. WellFormed(View(t, p)) /\ p # None
  BY RowsWellFormed, PagesAssumption DEF Pages
<1>2. CASE tx[t].held = p
  <2>1. Drafted(tx[t]) /\ View(t, p) = tx[t].draft
    BY <1>2 DEF IInv, View
  <2>2. Free(t, p)
    BY <1>1, <1>2 DEF IInv, Exclusive, Free
  <2> QED
    BY <1>1, <1>2, <2>1, <2>2 DEF Drafted
<1>3. CASE tx[t].held # p
  <2>1. View(t, p) = pages[p] /\ Single(pages[p])
    BY <1>3 DEF IInv, View
  <2> QED
    BY <1>1, <2>1, UnchangedRow
<1> QED
  BY <1>2, <1>3

\* A commit that writes the topic page in a last step.
LEMMA CommitWritten ==
  ASSUME IInv, NEW t \in Transactions, NEW row,
         Commit(t, [Written(t) EXCEPT ![Topic] = row]), changes' = changes, Rebuilt,
         WellFormed(row), Single(row),
         Evolves(pages[Topic], row), Based(pages[Topic], row),
         \/ Free(t, Topic)
         \/ row.versions = pages[Topic].versions /\ row.current = pages[Topic].current
  PROVE  Preserved
<1> DEFINE rows == [Written(t) EXCEPT ![Topic] = row]
<1>1. Topic \in Pages
  BY DEF Pages
<1>2. \A p \in Pages : View(t, p) \in Rows
  BY WrittenRows DEF WellFormed
<1>3. /\ rows \in [Pages -> Rows]
      /\ rows[Topic] = row
      /\ \A p \in Pages : p # Topic => rows[p] = View(t, p)
  BY <1>1, <1>2 DEF Written, WellFormed
<1>4. changes' \in 0 .. MaxChanges /\ outdated' \in BOOLEAN
  BY DEF IInv, TypeOK, Rebuilt
<1> HIDE DEF rows
<1>5. Commit(t, rows)
  BY DEF rows
<1>6. ASSUME NEW p \in Pages
      PROVE  /\ WellFormed(rows[p]) /\ Single(rows[p])
             /\ Evolves(pages[p], rows[p]) /\ Based(pages[p], rows[p])
             /\ \/ Free(t, p)
                \/ /\ rows[p].versions = pages[p].versions
                   /\ rows[p].current = pages[p].current
  <2>1. CASE p = Topic
    BY <1>3, <2>1
  <2>2. CASE p # Topic
    <3>1. rows[p] = View(t, p)
      BY <1>3, <2>2
    <3> QED
      BY <3>1, WrittenRows
  <2> QED
    BY <2>1, <2>2
<1> QED
  BY <1>3, <1>4, <1>5, <1>6, CommitStep DEF Preserved

\* The insert of a version of the topic, and the commit.
LEMMA CommitTopicStep ==
  ASSUME IInv, NEW t \in Transactions, CommitTopic(t)
  PROVE  Preserved
<1> DEFINE u == tx[t]
           old == View(t, Topic)
           row == Upserted(old, u)
<1>1. /\ u \in Sessions
      /\ u.wanted \in Materials /\ u.seen \in Nat /\ u.hidden \in BOOLEAN
      /\ u.target = Topic /\ Topic \in Pages
  BY DEF CommitTopic, IInv, TypeOK, Sessions, Pages
<1>2. /\ WellFormed(old) /\ Single(old) /\ WellFormed(pages[Topic])
      /\ Evolves(pages[Topic], old) /\ Based(pages[Topic], old)
      /\ old = ViewOf(u, Topic)
  BY <1>1, WrittenRows, RowsWellFormed
<1>3. ByUser(old, u.seen) => Candidates(old) \subseteq u.candidates
  BY <1>1, <1>2 DEF CommitTopic, NumberFree, IInv, Upserting, ReadsOf
<1>4. /\ Commit(t, [Written(t) EXCEPT ![Topic] = row])
      /\ changes' = changes /\ Rebuilt /\ Free(t, Topic)
  BY DEF CommitTopic
<1> HIDE DEF u, old
<1>5. WellFormed(row) /\ Single(row) /\ Evolves(pages[Topic], row) /\ Based(pages[Topic], row)
  BY <1>1, <1>2, <1>3, UpsertedRow, UpsertedSingle, UpsertedDraft
<1> HIDE DEF row
<1> QED
  BY <1>4, <1>5, CommitWritten

\* A commit that only deletes the topic page or takes it out of deletion.
LEMMA KeepOrRetireStep ==
  ASSUME IInv, NEW t \in Transactions, KeepTopic(t) \/ RetireTopic(t)
  PROVE  Preserved
<1> DEFINE old == View(t, Topic)
<1>1. /\ Topic \in Pages
      /\ WellFormed(old) /\ Single(old)
      /\ Evolves(pages[Topic], old) /\ Based(pages[Topic], old)
      /\ Free(t, Topic) \/ old = pages[Topic]
  BY WrittenRows DEF Pages
<1>2. Written(t)[Topic] = old /\ Topic \in DOMAIN Written(t)
  BY <1>1 DEF Written
<1> HIDE DEF old
<1>3. PICK deleted \in BOOLEAN :
        Commit(t, [Written(t) EXCEPT ![Topic] = [old EXCEPT !.deleted = deleted]])
  <2>1. CASE KeepTopic(t)
    <3>1. Commit(t, [Written(t) EXCEPT ![Topic].deleted = @ /\ ~tx[t].hidden])
      BY <2>1 DEF KeepTopic
    <3>2. Commit(t, [Written(t) EXCEPT ![Topic] =
                       [old EXCEPT !.deleted = old.deleted /\ ~tx[t].hidden]])
      BY <1>2, <3>1
    <3> QED
      BY <3>2
  <2>2. CASE RetireTopic(t)
    <3> DEFINE stale == old.current # 0 /\ ~old.deleted
    <3>1. Commit(t, [Written(t) EXCEPT ![Topic].deleted = @ \/ stale])
      BY <2>2 DEF RetireTopic, old
    <3>2. Commit(t, [Written(t) EXCEPT ![Topic] =
                       [old EXCEPT !.deleted = old.deleted \/ stale]])
      BY <1>2, <3>1
    <3> QED
      BY <3>2
  <2> QED
    BY <2>1, <2>2
<1> DEFINE row == [old EXCEPT !.deleted = deleted]
<1>4. /\ row \in Rows
      /\ row.versions = old.versions /\ row.current = old.current
  BY <1>1 DEF WellFormed, Rows
<1> HIDE DEF row
<1>5. Candidates(row) = Candidates(old)
  BY <1>4 DEF Candidates
<1>6. WellFormed(row) /\ Single(row) /\ Evolves(pages[Topic], row) /\ Based(pages[Topic], row)
  BY <1>1, <1>4, <1>5 DEF WellFormed, Single, Evolves, Based
<1>7. changes' = changes /\ Rebuilt
  BY DEF KeepTopic, RetireTopic
<1> QED
  BY <1>1, <1>3, <1>4, <1>6, <1>7, CommitWritten DEF row

\* Every step preserves the invariant and bases new current versions properly.
LEMMA NextStep ==
  ASSUME IInv, [Next]_vars
  PROVE  Preserved
<1>1. ASSUME NEW t \in Transactions, NEW s \in Summaries, NEW g \in Generations,
             Publish(t, s, g)
      PROVE  Preserved
  BY <1>1, PublishStep
<1>6. ASSUME NEW t \in Transactions, NEW s \in Summaries, NEW g \in Generations \cup {None},
             ChangeDocument(t, s, g)
      PROVE  Preserved
  BY <1>6, ChangeDocumentStep
<1>2. ASSUME NEW t \in Transactions, NEW p \in Pages, EditPage(t, p) PROVE Preserved
  BY <1>2, EditPageStep
<1>3. ASSUME NEW t \in Transactions, NEW p \in Pages, NEW i \in DOMAIN pages[p].versions,
             RevertPage(t, p, i) \/ PublishCandidate(t, p, i) \/ RejectCandidate(t, p, i)
      PROVE  Preserved
  BY <1>3, RevertPageStep, PublishCandidateStep, RejectCandidateStep
<1>4. ASSUME NEW t \in Transactions,
             \/ ReadPage(t) \/ ReadNumber(t) \/ InsertSummary(t) \/ ReadSources(t)
             \/ CommitTopic(t) \/ KeepTopic(t) \/ RetireTopic(t) \/ CommitDocument(t)
             \/ Abort(t)
      PROVE  Preserved
  BY <1>4, ReadPageStep, ReadNumberStep, InsertSummaryStep, ReadSourcesStep,
     CommitTopicStep, KeepOrRetireStep, CommitDocumentStep, AbortStep
<1>7. ASSUME NEW t \in Transactions, NEW i \in tx[t].unread, ReadClaims(t, i) PROVE Preserved
  BY <1>7, ReadClaimsStep
<1>5. ASSUME UNCHANGED vars PROVE Preserved
  <2>1. UNCHANGED <<pages, active, verified, tx, changes, outdated, overlapped>>
    BY <1>5 DEF vars
  <2>2. IInv'
    BY <2>1 DEF IInv, TypeOK, Exclusive, Drafted, Upserting, ViewOf
  <2> QED
    BY <2>1, <2>2 DEF Preserved, Based
<1> QED
  BY <1>1, <1>2, <1>3, <1>4, <1>5, <1>6, <1>7 DEF Next

\* An empty wiki satisfies the invariant.
LEMMA InitHolds ==
  ASSUME Init
  PROVE  IInv
<1>1. Idle \in Sessions /\ NoRow \in Rows
  BY IdleTyped DEF Rows, NoRow
<1>2. TypeOK
  <2>1. NoRow.current \in 0 .. Len(NoRow.versions) /\ Idle.draft = NoRow
    BY DEF NoRow, Idle
  <2>2. \A p \in Pages : pages[p] = NoRow
    BY DEF Init
  <2>3. \A t \in Transactions : tx[t] = Idle
    BY DEF Init
  <2>4. pages \in [Pages -> Rows]
    BY <1>1 DEF Init
  <2>5. tx \in [Transactions -> Sessions]
    BY <1>1 DEF Init
  <2>6. MaxChanges \in Nat
    BY PagesAssumption
  <2>7. changes \in 0 .. MaxChanges
    BY <2>6 DEF Init
  <2>8. /\ overlapped \in BOOLEAN /\ outdated \in BOOLEAN /\ verified \subseteq Items
        /\ active \in [Summaries -> Generations \cup {None}]
    BY DEF Init
  <2> QED
    BY <2>1, <2>2, <2>3, <2>4, <2>5, <2>7, <2>8 DEF TypeOK
<1>3. Exclusive /\ \A t \in Transactions : Drafted(tx[t]) /\ Upserting(tx[t])
  BY DEF Init, Idle, Exclusive, Drafted, Upserting
<1>4. \A p \in Pages : Single(pages[p])
  BY DEF Init, NoRow, Single, Candidates
<1> QED
  BY <1>2, <1>3, <1>4 DEF IInv

\* The invariant holds in every reachable state.
LEMMA Invariance == Spec => []IInv
<1>1. IInv /\ [Next]_vars => IInv'
  BY NextStep DEF Preserved
<1> QED
  BY <1>1, InitHolds, PTL DEF Spec

\* Every statement and commit of the pipeline and of users keeps the state
\* well-typed, and a page's current version exists.
THEOREM Typing == Spec => []TypeOK
<1>1. IInv => TypeOK
  BY DEF IInv
<1> QED
  BY <1>1, Invariance, PTL

\* Whatever transactions overlap, _upsert_page never leaves two versions of a
\* page waiting for review: the number of a new version is unique, and a
\* transaction whose number is still free has superseded every candidate.
THEOREM OneCandidateEach == Spec => []OneCandidate
<1>1. ASSUME IInv, NEW p \in Pages PROVE Cardinality(Candidates(pages[p])) <= 1
  <2>1. Single(pages[p])
    BY <1>1 DEF IInv
  <2>2. CASE Candidates(pages[p]) = {}
    BY <2>2, FS_EmptySet
  <2>3. CASE Candidates(pages[p]) # {}
    <3>1. PICK i : i \in Candidates(pages[p])
      BY <2>3
    <3>2. Candidates(pages[p]) = {i}
      BY <2>1, <3>1 DEF Single
    <3> QED
      BY <3>2, FS_Singleton
  <2> QED
    BY <2>2, <2>3
<1>2. IInv => OneCandidate
  BY <1>1 DEF OneCandidate
<1> QED
  BY <1>2, Invariance, PTL

\* edit_page, revert_page and review_page never replace a version their author
\* has not seen, whatever the pipeline does between their statements.
THEOREM NothingReplacedUnseen == Spec => ChangesReplaceTheirBase
<1> DEFINE A == \A p \in Pages :
       LET new == Current(pages'[p])
           reviewed == pages'[p].current \in DOMAIN pages[p].versions
       IN /\ pages'[p].current # pages[p].current
          /\ reviewed \/ new.origin # "pipeline"
          => new.base = pages[p].current
<1>1. ASSUME IInv, [Next]_vars PROVE A
  <2>1. \A p \in Pages : Based(pages[p], pages'[p])
    BY <1>1, NextStep DEF Preserved
  <2> QED
    BY <2>1 DEF Based, Current
<1>2. IInv /\ [Next]_vars => [A]_vars
  BY <1>1
<1> HIDE DEF A
<1>3. Spec => [][A]_vars
  BY <1>2, Invariance, PTL DEF Spec
<1> QED
  BY <1>3 DEF ChangesReplaceTheirBase, A
-----------------------------------------------------------------------------
(* While no two transactions overlapped.                                   *)

\* The row of p as a transaction with record u sees it, when rows are committed.
SeenBy(rows, u, p) == IF u.held = p THEN u.draft ELSE rows[p]

\* All of them: what the transaction would commit.
AllSeenBy(rows, u) == [p \in Pages |-> SeenBy(rows, u, p)]

\* Due, of any rows and claims.
Material(rows, trusted) == [content |-> Naming(rows) \cap trusted, meta |-> Naming(rows)]

\* The topic page is as TopicIsCurrent wants it, of any rows and claims.
Answered(rows, trusted) ==
  IF Supported(Naming(rows), trusted)
  THEN ~rows[Topic].deleted /\ Offered(rows[Topic], Material(rows, trusted))
  ELSE rows[Topic].current = 0 \/ rows[Topic].deleted

\* Only candidates change their state, or versions become superseded.
Reviewed(old, new) ==
  \A i \in DOMAIN old.versions :
    new.versions[i].state # old.versions[i].state =>
      old.versions[i].state = "pending_review" \/ new.versions[i].state = "superseded"

\* Only candidates change their state.
ReviewedOnce(old, new) ==
  \A i \in DOMAIN old.versions :
    new.versions[i].state # old.versions[i].state =>
      old.versions[i].state = "pending_review"

\* Versions keep what they were made from.
KeepsContents(old, new) ==
  \A i \in DOMAIN old.versions :
    /\ new.versions[i].content = old.versions[i].content
    /\ new.versions[i].meta = old.versions[i].meta

\* A user's version is only replaced by a user's, or by a candidate a user published.
ReplacedByUsers(old, new) ==
  ByUser(old, old.current) /\ new.current # old.current =>
    \/ ByUser(new, new.current)
    \/ /\ Reviewable(old, new.current)
       /\ new.versions[new.current].state = "published"

\* The uncommitted row of a transaction while nothing overlapped.
DraftInTurn(rows, u) ==
  u.held # None =>
    /\ ReviewedOnce(rows[u.held], u.draft)
    /\ KeepsContents(rows[u.held], u.draft)
    /\ ReplacedByUsers(rows[u.held], u.draft)
    /\ u.held = Topic => ~u.draft.deleted /\ ~rows[Topic].deleted /\ u.claims = {}

\* What the upsert of a summary, or of the topic, starts from.
StartsFrom(rows, trusted, u) ==
  IF u.target = Topic
  THEN /\ u.wanted = Material(AllSeenBy(rows, u), trusted \cup u.claims)
       /\ Supported(Naming(AllSeenBy(rows, u)), trusted \cup u.claims)
  ELSE u.held = None /\ u.step # "kept"

\* What a transaction has read is what it would read now.
ReadsInTurn(rows, trusted, u) ==
  LET row == SeenBy(rows, u, u.target)
      items == Naming(AllSeenBy(rows, u))
  IN /\ u.step = "idle" => u.held = None /\ u.claims = {}
     /\ u.step \in {"page", "number", "insert", "kept"} => StartsFrom(rows, trusted, u)
     /\ u.step \in {"number", "insert", "kept"} =>
          u.seen = row.current /\ u.hidden = row.deleted
     /\ u.step \in {"number", "insert"} => ~UpToDate(row, u.wanted)
     /\ u.step = "kept" => UpToDate(row, u.wanted)
     /\ u.step = "insert" /\ ByUser(row, row.current) => u.candidates = Candidates(row)
     /\ u.step = "insert" /\ ~ByUser(row, row.current) => u.candidates = {}
     /\ u.step = "claims" =>
          /\ Cardinality(items) >= 2
          /\ u.wanted.meta = items
          /\ u.unread \subseteq items
          /\ u.wanted.content = (items \ u.unread) \cap (trusted \cup u.claims)
     /\ u.step = "retire" => ~Supported(items, trusted \cup u.claims)

\* As long as no two transactions overlapped, the topic follows the summaries
\* until claims lose their trust, and every transaction works on what is
\* committed.
Turn ==
  ~overlapped =>
    /\ ~outdated => Answered(pages, verified)
    /\ \A t \in Transactions :
         DraftInTurn(pages, tx[t]) /\ ReadsInTurn(pages, verified, tx[t])

\* Whatever overlaps, a draft decides candidates and supersedes versions.
Deciding == \A t \in Transactions : tx[t].held # None => Reviewed(pages[tx[t].held], tx[t].draft)
-----------------------------------------------------------------------------
\* What _upsert_page leaves of a row, and the version it adds.
LEMMA UpsertedVersions ==
  ASSUME NEW row, WellFormed(row),
         NEW u, u.wanted \in Materials, u.seen \in Nat, u.hidden \in BOOLEAN
  PROVE  LET new == Upserted(row, u)
             n == Len(row.versions) + 1
         IN /\ KeepsContents(row, new)
            /\ \A i \in DOMAIN row.versions :
                 new.versions[i].state # row.versions[i].state =>
                   i \in u.candidates /\ new.versions[i].state = "superseded"
            /\ n \in DOMAIN new.versions
            /\ MadeFrom(new.versions[n], u.wanted)
            /\ new.versions[n].origin = "pipeline"
            /\ new.versions[n].base = u.seen
            /\ new.versions[n].state =
                 IF ByUser(row, u.seen) THEN "pending_review" ELSE "published"
            /\ new.current = IF ByUser(row, u.seen) THEN row.current ELSE n
            /\ new.deleted = (row.deleted /\ ~u.hidden)
<1> DEFINE new == Upserted(row, u)
           n == Len(row.versions)
           olds == Superseding(row.versions, u.candidates)
           last == [content |-> u.wanted.content, meta |-> u.wanted.meta, origin |-> "pipeline",
                    state |-> IF ByUser(row, u.seen) THEN "pending_review" ELSE "published",
                    base |-> u.seen]
<1>1. /\ row.versions \in Seq(Versions)
      /\ n \in Nat /\ DOMAIN row.versions = 1 .. n
  BY DEF WellFormed, Rows
<1>2. olds \in Seq(Versions) /\ Len(olds) = n
  BY <1>1, SupersedingTyped
<1>3. last \in Versions
  BY DEF Versions, Materials
<1>4. /\ new.versions = Append(olds, last)
      /\ new.current = IF ByUser(row, u.seen) THEN row.current ELSE n + 1
      /\ new.deleted = (row.deleted /\ ~u.hidden)
  BY DEF Upserted
<1>5. ASSUME NEW i \in 1 .. n
      PROVE  /\ olds[i].content = row.versions[i].content
             /\ olds[i].meta = row.versions[i].meta
             /\ olds[i].state # row.versions[i].state =>
                  i \in u.candidates /\ olds[i].state = "superseded"
  <2>1. row.versions[i] \in Versions
    BY <1>1
  <2>2. CASE i \in u.candidates
    <3>1. olds[i] = [row.versions[i] EXCEPT !.state = "superseded"]
      BY <1>1, <2>2 DEF Superseding
    <3> QED
      BY <2>1, <2>2, <3>1 DEF Versions
  <2>3. CASE i \notin u.candidates
    <3>1. olds[i] = row.versions[i]
      BY <1>1, <2>3 DEF Superseding
    <3> QED
      BY <3>1
  <2> QED
    BY <2>2, <2>3
<1> HIDE DEF new, olds, last
<1>6. /\ DOMAIN new.versions = 1 .. n + 1
      /\ \A i \in 1 .. n : new.versions[i] = olds[i]
      /\ new.versions[n + 1] = last
  BY <1>1, <1>2, <1>3, <1>4
<1>7. /\ MadeFrom(last, u.wanted) /\ last.origin = "pipeline" /\ last.base = u.seen
      /\ last.state = IF ByUser(row, u.seen) THEN "pending_review" ELSE "published"
  BY DEF last, MadeFrom
<1>8. KeepsContents(row, new)
  BY <1>1, <1>5, <1>6 DEF KeepsContents
<1>9. n + 1 \in DOMAIN new.versions
  BY <1>1, <1>6
<1> QED
  BY <1>1, <1>4, <1>5, <1>6, <1>7, <1>8, <1>9 DEF new

\* An upsert that starts from the row as it is leaves users' versions current.
LEMMA UpsertedInTurn ==
  ASSUME NEW row, WellFormed(row),
         NEW u, u.wanted \in Materials, u.seen = row.current, u.hidden = row.deleted,
         ByUser(row, row.current) => u.candidates = Candidates(row),
         ~ByUser(row, row.current) => u.candidates = {}
  PROVE  LET new == Upserted(row, u)
         IN /\ KeepsContents(row, new)
            /\ ReviewedOnce(row, new)
            /\ Offered(new, u.wanted)
            /\ ~new.deleted
            /\ ByUser(row, row.current) =>
                 new.current = row.current /\ ByUser(new, new.current)
            /\ ~ByUser(row, row.current) =>
                 /\ new.current = Len(row.versions) + 1
                 /\ MadeFrom(Current(new), u.wanted)
<1> DEFINE new == Upserted(row, u)
           n == Len(row.versions) + 1
<1>1. /\ DOMAIN row.versions = 1 .. Len(row.versions)
      /\ Len(row.versions) \in Nat
      /\ u.seen \in 0 .. Len(row.versions)
      /\ u.hidden \in BOOLEAN
  BY DEF WellFormed, Rows
<1>2. /\ KeepsContents(row, new)
      /\ \A i \in DOMAIN row.versions :
           new.versions[i].state # row.versions[i].state =>
             i \in u.candidates /\ new.versions[i].state = "superseded"
      /\ n \in DOMAIN new.versions
      /\ MadeFrom(new.versions[n], u.wanted)
      /\ new.versions[n].base = u.seen
      /\ new.versions[n].state =
           IF ByUser(row, u.seen) THEN "pending_review" ELSE "published"
      /\ new.current = IF ByUser(row, u.seen) THEN row.current ELSE n
      /\ new.deleted = (row.deleted /\ ~u.hidden)
  BY <1>1, UpsertedVersions
<1>3. /\ Candidates(new) \subseteq
           Candidates(row) \cup (IF ByUser(row, u.seen) THEN {n} ELSE {})
      /\ \A i \in 1 .. Len(row.versions) : i \in u.candidates => i \notin Candidates(new)
      /\ \A i \in 1 .. Len(row.versions) : new.versions[i].origin = row.versions[i].origin
  BY <1>1, UpsertedRow DEF Evolves
<1> HIDE DEF new
<1>4. ReviewedOnce(row, new)
  BY <1>1, <1>2 DEF ReviewedOnce, Candidates
<1>5. CASE ByUser(row, row.current)
  <2>1. new.current = row.current /\ ByUser(new, new.current)
    BY <1>1, <1>2, <1>3, <1>5 DEF ByUser
  <2>2. Candidates(new) \subseteq {n}
    BY <1>1, <1>3, <1>5 DEF Candidates
  <2>3. Offered(new, u.wanted)
    BY <1>2, <1>5, <2>1, <2>2 DEF Offered, Reviewable
  <2> QED
    BY <1>2, <1>4, <1>5, <2>1, <2>3 DEF new
<1>6. CASE ~ByUser(row, row.current)
  <2>1. new.current = n /\ MadeFrom(Current(new), u.wanted)
    BY <1>2, <1>6 DEF Current
  <2>2. Offered(new, u.wanted)
    BY <1>1, <1>2, <2>1 DEF Offered, UpToDate
  <2> QED
    BY <1>2, <1>4, <1>6, <2>1, <2>2 DEF new
<1> QED
  BY <1>5, <1>6

\* What names the topic depends on the current versions of summaries alone.
LEMMA SameNaming ==
  ASSUME NEW a, NEW b,
         \A s \in Summaries :
           /\ a[s].current = b[s].current
           /\ a[s].current # 0 =>
                a[s].versions[a[s].current].meta = b[s].versions[b[s].current].meta
  PROVE  Naming(a) = Naming(b)
<1> DEFINE Shown(rows) == {<<s, rows[s].current>> : s \in {x \in Summaries : rows[x].current # 0}}
<1>1. Shown(a) = Shown(b)
  OBVIOUS
<1>2. ASSUME NEW i \in Shown(a)
      PROVE  /\ i[1] \in Summaries /\ i[2] = a[i[1]].current /\ i[2] # 0
             /\ i[2] = b[i[1]].current
  OBVIOUS
<1>3. \A i \in Shown(a) :
        a[i[1]].versions[i[2]].meta = b[i[1]].versions[i[2]].meta
  BY <1>2
<1>4. /\ Naming(a) = {i \in Shown(a) : a[i[1]].versions[i[2]].meta \in Topical}
      /\ Naming(b) = {i \in Shown(b) : b[i[1]].versions[i[2]].meta \in Topical}
  BY DEF Naming
<1> HIDE DEF Shown
<1> QED
  BY <1>1, <1>3, <1>4
-----------------------------------------------------------------------------
\* Overwritten, of two rows.
Replaces(old, new) ==
  /\ new.current # old.current
  /\ ByUser(old, old.current)
  /\ Current(new).origin = "pipeline"
  /\ Current(new).content # Current(old).content
  /\ new.current \notin Candidates(old)

\* What ReviewsAreFinal and EditsStandInTurn say of a step.
ReviewsFinal ==
  \A p \in Pages : \A i \in DOMAIN pages[p].versions :
    LET before == pages[p].versions[i].state
        after == pages'[p].versions[i].state
    IN after # before =>
         \/ before = "pending_review"
         \/ after = "superseded" /\ overlapped'

EditsKept ==
  \A p \in Pages :
    Overwritten(p) => \/ overlapped'
                      \/ p = Topic /\ outdated /\ ReviewPublished(p)

\* The same of two rows.
Kept(p, old, new) ==
  Replaces(old, new) =>
    /\ p = Topic /\ outdated
    /\ \E i \in Candidates(old) : new.versions[i].state = "published"

\* What each step is shown to do.
InTurn == Deciding' /\ Turn' /\ ReviewsFinal /\ EditsKept

TurnInv == IInv /\ Deciding /\ Turn

\* A step that commits nothing.
LEMMA StepInTurn ==
  ASSUME TurnInv, NEW t \in Transactions, NEW u,
         tx' = [tx EXCEPT ![t] = u], pages' = pages,
         UNCHANGED <<verified, outdated, overlapped>>,
         u.held # None => Reviewed(pages[u.held], u.draft),
         ~overlapped => DraftInTurn(pages, u) /\ ReadsInTurn(pages, verified, u)
  PROVE  InTurn
<1>1. \A v \in Transactions : tx'[v] = IF v = t THEN u ELSE tx[v]
  BY DEF TurnInv, IInv, TypeOK
<1>2. Deciding'
  BY <1>1 DEF TurnInv, Deciding
<1>3. Turn'
  BY <1>1 DEF TurnInv, Turn
<1>4. ReviewsFinal /\ EditsKept
  BY DEF ReviewsFinal, EditsKept, Overwritten
<1> QED
  BY <1>2, <1>3, <1>4 DEF InTurn

\* A user's version is not replaced, if only users replace it.
LEMMA NothingReplaced ==
  ASSUME NEW old, NEW new, ReplacedByUsers(old, new)
  PROVE  ~Replaces(old, new)
BY DEF ReplacedByUsers, Replaces, ByUser, Current, Reviewable

\* A commit: if nothing overlapped it, no other transaction has begun.
LEMMA CommitInTurn ==
  ASSUME TurnInv, NEW t \in Transactions, NEW rows, Commit(t, rows),
         \A p \in Pages :
           /\ Reviewed(pages[p], rows[p])
           /\ Free(t, p) \/ rows[p].versions = pages[p].versions,
         ~overlapped =>
           /\ ~outdated' => Answered(rows, verified')
           /\ \A p \in Pages :
                ReviewedOnce(pages[p], rows[p]) /\ Kept(p, pages[p], rows[p])
  PROVE  InTurn
<1>1. /\ \A v \in Transactions : tx'[v] = IF v = t THEN Idle ELSE tx[v]
      /\ pages' = rows
      /\ overlapped' = (overlapped \/ \E u \in Transactions \ {t} : tx[u].step # "idle")
  BY DEF TurnInv, IInv, TypeOK, Commit, End
<1>2. ASSUME NEW v \in Transactions, tx'[v].held # None
      PROVE  Reviewed(pages'[tx'[v].held], tx'[v].draft)
  <2>1. v # t /\ tx'[v] = tx[v]
    BY <1>1, <1>2 DEF Idle
  <2>2. tx[v].held \in Pages
    BY <1>2, <2>1 DEF TurnInv, IInv, TypeOK, Sessions
  <2>3. ~Free(t, tx[v].held)
    BY <2>1 DEF Free
  <2>4. Reviewed(pages[tx[v].held], tx[v].draft)
    BY <1>2, <2>1 DEF TurnInv, Deciding
  <2>5. rows[tx[v].held].versions = pages[tx[v].held].versions
    BY <2>2, <2>3
  <2> QED
    BY <1>1, <2>1, <2>4, <2>5 DEF Reviewed
<1>3. Deciding'
  BY <1>2 DEF Deciding
<1>4. ASSUME ~overlapped', NEW v \in Transactions
      PROVE  DraftInTurn(rows, tx'[v]) /\ ReadsInTurn(rows, verified', tx'[v])
  <2>1. tx'[v].step = "idle" /\ tx'[v].held = None /\ tx'[v].claims = {}
    <3>1. CASE v = t
      BY <1>1, <3>1 DEF Idle
    <3>2. CASE v # t
      BY <1>1, <1>4, <3>2 DEF TurnInv, Turn, ReadsInTurn
    <3> QED
      BY <3>1, <3>2
  <2> QED
    BY <2>1 DEF DraftInTurn, ReadsInTurn
<1>5. Turn'
  BY <1>1, <1>4 DEF Turn
<1>6. ReviewsFinal
  BY <1>1 DEF ReviewsFinal, Reviewed, ReviewedOnce
<1>7. EditsKept
  BY <1>1 DEF EditsKept, Overwritten, Replaces, Kept, ReviewPublished
<1> QED
  BY <1>3, <1>5, <1>6, <1>7 DEF InTurn

\* What a record sees, and whether its draft is in turn, depends on these fields.
LEMMA SameSight ==
  ASSUME NEW u, NEW v, u.held = v.held, u.draft = v.draft, u.claims = v.claims
  PROVE  /\ AllSeenBy(pages, u) = AllSeenBy(pages, v)
         /\ \A p \in Pages : SeenBy(pages, u, p) = SeenBy(pages, v, p)
         /\ DraftInTurn(pages, v) => DraftInTurn(pages, u)
<1>1. \A p \in Pages : SeenBy(pages, u, p) = SeenBy(pages, v, p)
  BY DEF SeenBy
<1>2. AllSeenBy(pages, u) = AllSeenBy(pages, v)
  BY <1>1 DEF AllSeenBy
<1>3. DraftInTurn(pages, v) => DraftInTurn(pages, u)
  BY DEF DraftInTurn
<1> QED
  BY <1>1, <1>2, <1>3

\* A statement that leaves held page, draft and claims alone, with what it has read.
LEMMA ReadInTurn ==
  ASSUME TurnInv, NEW t \in Transactions, NEW u,
         tx' = [tx EXCEPT ![t] = u], pages' = pages,
         UNCHANGED <<verified, outdated, overlapped>>,
         u.held = tx[t].held, u.draft = tx[t].draft, u.claims = tx[t].claims,
         ~overlapped => ReadsInTurn(pages, verified, u)
  PROVE  InTurn
<1>1. u.held # None => Reviewed(pages[u.held], u.draft)
  BY DEF TurnInv, Deciding
<1>2. ~overlapped => DraftInTurn(pages, u)
  BY SameSight DEF TurnInv, Turn
<1> QED
  BY <1>1, <1>2, StepInTurn

\* Rows as transaction t sees them, in both notations.
LEMMA Sights ==
  ASSUME NEW t \in Transactions
  PROVE  /\ Written(t) = AllSeenBy(pages, tx[t])
         /\ \A p : View(t, p) = SeenBy(pages, tx[t], p)
BY DEF Written, View, AllSeenBy, SeenBy
-----------------------------------------------------------------------------
\* _publish begins, and holds no page yet.
LEMMA PublishInTurn ==
  ASSUME TurnInv, NEW t \in Transactions, NEW s \in Summaries, NEW g \in Generations,
         Publish(t, s, g)
  PROVE  InTurn
<1> DEFINE u == [Upsert(tx[t], s, [content |-> g, meta |-> g]) EXCEPT !.pipeline = TRUE]
<1>1. tx[t] \in Sessions /\ s # Topic
  BY PagesAssumption DEF TurnInv, IInv, TypeOK
<1>2. /\ u.step = "page" /\ u.target = s
      /\ u.held = tx[t].held /\ u.draft = tx[t].draft /\ u.claims = tx[t].claims
  BY <1>1 DEF Upsert, Sessions
<1>3. /\ tx' = [tx EXCEPT ![t] = u] /\ pages' = pages
      /\ UNCHANGED <<verified, outdated, overlapped>>
  BY DEF Publish
<1>4. ~overlapped => tx[t].held = None
  BY DEF Publish, TurnInv, Turn, ReadsInTurn
<1> HIDE DEF u
<1>5. ~overlapped => ReadsInTurn(pages, verified, u)
  BY <1>1, <1>2, <1>4 DEF ReadsInTurn, StartsFrom
<1> QED
  BY <1>2, <1>3, <1>5, ReadInTurn

\* The first read of _upsert_page decides whether a version is needed.
LEMMA ReadPageInTurn ==
  ASSUME TurnInv, NEW t \in Transactions, ReadPage(t)
  PROVE  InTurn
<1> DEFINE v == tx[t]
           row == View(t, v.target)
           read == [v EXCEPT !.seen = row.current, !.hidden = row.deleted]
           u == IF ~UpToDate(row, v.wanted) THEN [read EXCEPT !.step = "number"]
                ELSE IF v.target = Topic THEN [read EXCEPT !.step = "kept"]
                ELSE AfterUpsert(v)
<1>1. /\ v \in Sessions
      /\ v.step = "page"
      /\ row = SeenBy(pages, v, v.target)
  BY Sights DEF ReadPage, TurnInv, IInv, TypeOK
<1>2. /\ tx' = [tx EXCEPT ![t] = u] /\ pages' = pages
      /\ UNCHANGED <<verified, outdated, overlapped>>
  BY DEF ReadPage
<1> HIDE DEF row
<1>3. /\ u.held = v.held /\ u.draft = v.draft /\ u.claims = v.claims
      /\ \/ u.step = "sources"
         \/ /\ u.step = IF UpToDate(row, v.wanted) THEN "kept" ELSE "number"
            /\ u.target = v.target /\ u.wanted = v.wanted
            /\ u.seen = row.current /\ u.hidden = row.deleted
            /\ u.step = "kept" => u.target = Topic
  <2>1. CASE ~UpToDate(row, v.wanted)
    <3>1. u = [read EXCEPT !.step = "number"]
      BY <2>1
    <3> QED
      BY <1>1, <2>1, <3>1 DEF Sessions
  <2>2. CASE UpToDate(row, v.wanted) /\ v.target = Topic
    <3>1. u = [read EXCEPT !.step = "kept"]
      BY <2>2
    <3> QED
      BY <1>1, <2>2, <3>1 DEF Sessions
  <2>3. CASE UpToDate(row, v.wanted) /\ v.target # Topic
    <3>1. u = AfterUpsert(v)
      BY <2>3
    <3> QED
      BY ZenonT(60), <3>1 DEF AfterUpsert, Idle
  <2> QED
    BY <2>1, <2>2, <2>3
<1> HIDE DEF u
<1>4. ASSUME ~overlapped PROVE ReadsInTurn(pages, verified, u)
  <2>1. StartsFrom(pages, verified, v)
    BY <1>1, <1>4 DEF TurnInv, Turn, ReadsInTurn
  <2>2. AllSeenBy(pages, u) = AllSeenBy(pages, v)
    BY <1>3, SameSight
  <2>3. CASE u.step = "sources"
    BY <2>3 DEF ReadsInTurn
  <2>4. CASE u.step # "sources"
    <3>1. u.target = v.target /\ u.wanted = v.wanted
      BY <1>3, <2>4
    <3>2. StartsFrom(pages, verified, u)
      BY <1>3, <2>1, <2>2, <2>4, <3>1 DEF StartsFrom
    <3>3. SeenBy(pages, u, u.target) = row
      BY <1>1, <1>3, <3>1 DEF SeenBy
    <3> QED
      BY <1>3, <2>4, <3>1, <3>2, <3>3 DEF ReadsInTurn
  <2> QED
    BY <2>3, <2>4
<1> QED
  BY <1>2, <1>3, <1>4, ReadInTurn

\* The second read finds the page as the first one did.
LEMMA ReadNumberInTurn ==
  ASSUME TurnInv, NEW t \in Transactions, ReadNumber(t)
  PROVE  InTurn
<1> DEFINE v == tx[t]
           row == View(t, v.target)
           candidates == IF ByUser(row, v.seen) THEN Candidates(row) ELSE {}
           u == [v EXCEPT !.step = "insert", !.number = Len(row.versions) + 1,
                          !.candidates = candidates]
<1>1. /\ v \in Sessions
      /\ v.step = "number"
      /\ row = SeenBy(pages, v, v.target)
  BY Sights DEF ReadNumber, TurnInv, IInv, TypeOK
<1>2. /\ tx' = [tx EXCEPT ![t] = u] /\ pages' = pages
      /\ UNCHANGED <<verified, outdated, overlapped>>
  BY DEF ReadNumber, TurnInv, IInv, TypeOK, Sessions
<1> HIDE DEF row, candidates
<1>3. /\ u.held = v.held /\ u.draft = v.draft /\ u.claims = v.claims
      /\ u.step = "insert" /\ u.target = v.target /\ u.wanted = v.wanted
      /\ u.seen = v.seen /\ u.hidden = v.hidden /\ u.candidates = candidates
  BY <1>1 DEF Sessions
<1> HIDE DEF u
<1>4. ASSUME ~overlapped PROVE ReadsInTurn(pages, verified, u)
  <2>1. /\ StartsFrom(pages, verified, v)
        /\ v.seen = row.current /\ v.hidden = row.deleted
        /\ ~UpToDate(row, v.wanted)
    BY <1>1, <1>4 DEF TurnInv, Turn, ReadsInTurn
  <2>2. AllSeenBy(pages, u) = AllSeenBy(pages, v)
    BY <1>3, SameSight
  <2>3. StartsFrom(pages, verified, u)
    BY <1>3, <2>1, <2>2 DEF StartsFrom
  <2>4. SeenBy(pages, u, u.target) = row
    BY <1>1, <1>3 DEF SeenBy
  <2> QED
    BY <1>3, <2>1, <2>3, <2>4 DEF ReadsInTurn, candidates
<1> QED
  BY <1>2, <1>3, <1>4, ReadInTurn

\* _rebuild_topic_pages reads which summaries name the topic.
LEMMA ReadSourcesInTurn ==
  ASSUME TurnInv, NEW t \in Transactions, ReadSources(t)
  PROVE  InTurn
<1> DEFINE v == tx[t]
           items == Naming(Written(t))
           m == [content |-> {}, meta |-> items]
           u == IF Cardinality(items) >= 2
                THEN [v EXCEPT !.step = "claims", !.unread = items, !.wanted = m]
                ELSE [v EXCEPT !.step = "retire"]
<1>1. v \in Sessions /\ items = Naming(AllSeenBy(pages, v))
  BY Sights DEF TurnInv, IInv, TypeOK
<1>2. /\ tx' = [tx EXCEPT ![t] = u] /\ pages' = pages
      /\ UNCHANGED <<verified, outdated, overlapped>>
  BY DEF ReadSources
<1> HIDE DEF items
<1>3. /\ u.held = v.held /\ u.draft = v.draft /\ u.claims = v.claims
      /\ IF Cardinality(items) >= 2
         THEN /\ u.step = "claims" /\ u.unread = items
              /\ u.wanted.content = {} /\ u.wanted.meta = items
         ELSE u.step = "retire"
  BY <1>1 DEF Sessions
<1> HIDE DEF u
<1>4. Naming(AllSeenBy(pages, u)) = items
  BY <1>1, <1>3, SameSight
<1>5. ReadsInTurn(pages, verified, u)
  BY <1>3, <1>4 DEF ReadsInTurn, Supported
<1> QED
  BY <1>2, <1>3, <1>5, ReadInTurn

\* It reads the claims of one of them; after the last it has read them all as
\* they are.
LEMMA ReadClaimsInTurn ==
  ASSUME TurnInv, NEW t \in Transactions, NEW i, ReadClaims(t, i)
  PROVE  InTurn
<1> DEFINE v == tx[t]
           left == v.unread \ {i}
           m == [v.wanted EXCEPT !.content = @ \cup ({i} \cap Trusted(t))]
           read == [v EXCEPT !.unread = left, !.wanted = m]
           u == IF left # {} THEN read
                ELSE IF m.content = {} THEN [read EXCEPT !.step = "retire"]
                ELSE Upsert(read, Topic, m)
<1>1. /\ v \in Sessions /\ v.wanted \in Materials
      /\ v.step = "claims" /\ i \in v.unread
  BY DEF ReadClaims, TurnInv, IInv, TypeOK, Sessions
<1>2. /\ m \in [content : {m.content}, meta : {v.wanted.meta}]
      /\ m.content = v.wanted.content \cup ({i} \cap Trusted(t))
  BY <1>1 DEF Materials
<1>3. tx' = [tx EXCEPT ![t] = u]
  BY <1>1, ClaimsRead
<1>4. pages' = pages /\ UNCHANGED <<verified, outdated, overlapped>>
  BY DEF ReadClaims
<1>5. /\ read.held = v.held /\ read.draft = v.draft /\ read.claims = v.claims
      /\ read.step = "claims" /\ read.unread = left /\ read.wanted = m
  BY <1>1 DEF Sessions
<1>6. /\ u.held = v.held /\ u.draft = v.draft /\ u.claims = v.claims
      /\ IF left # {}
         THEN u.step = "claims" /\ u.unread = left /\ u.wanted = m
         ELSE IF m.content = {} THEN u.step = "retire"
         ELSE u.step = "page" /\ u.target = Topic /\ u.wanted = m
  <2> HIDE DEF left, m
  <2> QED
    BY <1>1 DEF Upsert, Sessions
<1> HIDE DEF m, read, u
<1>7. ASSUME ~overlapped PROVE ReadsInTurn(pages, verified, u)
  <2> DEFINE seen == AllSeenBy(pages, u)
             items == Naming(seen)
             trust == verified \cup u.claims
  <2>1. AllSeenBy(pages, v) = seen /\ v.claims = u.claims
    BY <1>6, SameSight
  <2>2. /\ Cardinality(items) >= 2
        /\ v.wanted.meta = items
        /\ v.unread \subseteq items
        /\ v.wanted.content = (items \ v.unread) \cap trust
    BY <1>1, <1>7, <2>1 DEF TurnInv, Turn, ReadsInTurn
  <2>3. m.content = (items \ left) \cap trust
    BY <1>1, <1>2, <2>1, <2>2 DEF Trusted
  <2>4. m = [content |-> (items \ left) \cap trust, meta |-> items]
    BY <1>2, <2>2, <2>3
  <2>5. left \subseteq items
    BY <2>2
  <2> HIDE DEF left, seen, trust
  <2>6. CASE left # {}
    BY <1>6, <2>2, <2>4, <2>5, <2>6 DEF ReadsInTurn, seen, trust
  <2>7. CASE left = {} /\ m.content = {}
    <3>1. ~Supported(items, trust)
      BY <2>3, <2>7 DEF Supported
    <3> QED
      BY <1>6, <2>7, <3>1 DEF ReadsInTurn, seen, trust
  <2>8. CASE left = {} /\ m.content # {}
    <3>1. m = Material(seen, trust) /\ Supported(items, trust)
      BY <2>2, <2>3, <2>4, <2>8 DEF Material, Supported
    <3> QED
      BY <1>6, <2>8, <3>1 DEF ReadsInTurn, StartsFrom, seen, trust
  <2> QED
    BY <2>6, <2>7, <2>8
<1> QED
  BY <1>3, <1>4, <1>6, <1>7, ReadInTurn

\* A change of a document begins, and reads nothing the topic is made from.
LEMMA ChangeDocumentInTurn ==
  ASSUME TurnInv, NEW t \in Transactions, NEW s \in Summaries,
         NEW g \in Generations \cup {None}, ChangeDocument(t, s, g)
  PROVE  InTurn
<1> DEFINE lost == Invalidated(s)
           u == [tx[t] EXCEPT !.step = "changed", !.target = s, !.next = g,
                              !.distrusted = lost]
<1>1. tx[t] \in Sessions
  BY DEF TurnInv, IInv, TypeOK
<1> HIDE DEF lost
<1>2. /\ u.step = "changed"
      /\ u.held = tx[t].held /\ u.draft = tx[t].draft /\ u.claims = tx[t].claims
  BY <1>1 DEF Sessions
<1>3. /\ tx' = [tx EXCEPT ![t] = u] /\ pages' = pages
      /\ UNCHANGED <<verified, outdated, overlapped>>
  BY <1>1 DEF ChangeDocument, TurnInv, IInv, TypeOK, Sessions, lost
<1> HIDE DEF u
<1>4. ReadsInTurn(pages, verified, u)
  BY <1>2 DEF ReadsInTurn
<1> QED
  BY <1>2, <1>3, <1>4, ReadInTurn

\* It commits: the topic is outdated, or made from claims it leaves alone.
LEMMA CommitDocumentInTurn ==
  ASSUME TurnInv, NEW t \in Transactions, CommitDocument(t)
  PROVE  InTurn
<1>1. /\ \A v \in Transactions : tx'[v] = IF v = t THEN Idle ELSE tx[v]
      /\ pages' = pages
      /\ verified' = verified \ tx[t].distrusted
      /\ outdated' = (outdated \/ Naming(pages) \cap tx[t].distrusted # {})
      /\ overlapped' = (overlapped \/ \E u \in Transactions \ {t} : tx[u].step # "idle")
  BY DEF TurnInv, IInv, TypeOK, CommitDocument, End
<1>2. Deciding'
  BY <1>1 DEF TurnInv, Deciding, Idle
<1>3. ASSUME ~overlapped', NEW v \in Transactions
      PROVE  DraftInTurn(pages, tx'[v]) /\ ReadsInTurn(pages, verified', tx'[v])
  <2>1. tx'[v].step = "idle" /\ tx'[v].held = None /\ tx'[v].claims = {}
    <3>1. CASE v = t
      BY <1>1, <3>1 DEF Idle
    <3>2. CASE v # t
      BY <1>1, <1>3, <3>2 DEF TurnInv, Turn, ReadsInTurn
    <3> QED
      BY <3>1, <3>2
  <2> QED
    BY <2>1 DEF DraftInTurn, ReadsInTurn
<1>4. ASSUME ~overlapped', ~outdated' PROVE Answered(pages, verified')
  <2>1. Answered(pages, verified)
    BY <1>1, <1>4 DEF TurnInv, Turn
  <2>2. Naming(pages) \cap verified' = Naming(pages) \cap verified
    BY <1>1, <1>4
  <2> QED
    BY <2>1, <2>2 DEF Answered, Supported, Material
<1>5. Turn'
  BY <1>1, <1>3, <1>4 DEF Turn
<1>6. ReviewsFinal /\ EditsKept
  BY <1>1 DEF ReviewsFinal, EditsKept, Overwritten
<1> QED
  BY <1>2, <1>5, <1>6 DEF InTurn

\* A transaction that fails has nothing any more.
LEMMA AbortInTurn ==
  ASSUME TurnInv, NEW t \in Transactions, Abort(t)
  PROVE  InTurn
<1>1. /\ tx' = [tx EXCEPT ![t] = Idle] /\ pages' = pages
      /\ UNCHANGED <<verified, outdated, overlapped>>
  BY DEF Abort
<1>2. Idle.step = "idle" /\ Idle.held = None /\ Idle.claims = {}
  BY DEF Idle
<1>3. DraftInTurn(pages, Idle) /\ ReadsInTurn(pages, verified, Idle)
  BY <1>2 DEF DraftInTurn, ReadsInTurn
<1> QED
  BY <1>1, <1>2, <1>3, StepInTurn

\* States that change twice.
LEMMA ReviewedThrough ==
  ASSUME NEW a, NEW b, NEW c, DOMAIN a.versions \subseteq DOMAIN b.versions,
         Reviewed(a, b),
         \A i \in DOMAIN b.versions :
           c.versions[i].state # b.versions[i].state => c.versions[i].state = "superseded"
  PROVE  Reviewed(a, c)
BY DEF Reviewed

LEMMA ReviewedOnceThrough ==
  ASSUME NEW a, NEW b, NEW c, DOMAIN a.versions \subseteq DOMAIN b.versions,
         ReviewedOnce(a, b), ReviewedOnce(b, c)
  PROVE  ReviewedOnce(a, c)
BY DEF ReviewedOnce

\* The row a transaction sees evolves, and decides reviews, from the committed one.
LEMMA SeenRow ==
  ASSUME TurnInv, NEW t \in Transactions, NEW p \in Pages
  PROVE  LET row == View(t, p)
         IN /\ WellFormed(row)
            /\ DOMAIN pages[p].versions \subseteq DOMAIN row.versions
            /\ Reviewed(pages[p], row)
            /\ Free(t, p) \/ row = pages[p]
            /\ ~overlapped =>
                 ReviewedOnce(pages[p], row) /\ ReplacedByUsers(pages[p], row)
<1> DEFINE row == View(t, p)
<1>1. /\ WellFormed(pages[p])
      /\ WellFormed(row) /\ Evolves(pages[p], row)
      /\ Free(t, p) \/ row = pages[p]
  BY WrittenRows, RowsWellFormed DEF TurnInv
<1>2. /\ DOMAIN row.versions = 1 .. Len(row.versions) /\ Len(row.versions) \in Nat
      /\ DOMAIN pages[p].versions = 1 .. Len(pages[p].versions)
      /\ Len(pages[p].versions) \in Nat
  BY <1>1 DEF WellFormed, Rows
<1>3. DOMAIN pages[p].versions \subseteq DOMAIN row.versions
  BY <1>1, <1>2 DEF Evolves
<1>4. p # None
  BY PagesAssumption DEF Pages
<1>5. /\ Reviewed(pages[p], row)
      /\ ~overlapped => ReviewedOnce(pages[p], row) /\ ReplacedByUsers(pages[p], row)
  <2>1. CASE tx[t].held = p
    BY <1>4, <2>1 DEF View, TurnInv, Deciding, Turn, DraftInTurn
  <2>2. CASE tx[t].held # p
    BY <2>2 DEF View, Reviewed, ReviewedOnce, ReplacedByUsers
  <2> QED
    BY <2>1, <2>2
<1> QED
  BY <1>1, <1>3, <1>5

\* The version of a summary is inserted: nobody else's work is lost.
LEMMA InsertSummaryInTurn ==
  ASSUME TurnInv, NEW t \in Transactions, InsertSummary(t)
  PROVE  InTurn
<1> DEFINE v == tx[t]
           p == v.target
           old == View(t, p)
           row == Upserted(old, v)
           cited == {i \in {<<p, Len(row.versions)>>} : v.wanted.meta \in Cited}
           u == AfterUpsert([v EXCEPT !.held = p, !.draft = row, !.claims = cited])
<1>1. /\ v \in Sessions
      /\ v.wanted \in Materials /\ v.seen \in Nat /\ v.hidden \in BOOLEAN
      /\ p \in Pages /\ p # Topic
      /\ v.step = "insert"
      /\ old = SeenBy(pages, v, p)
  BY Sights DEF InsertSummary, TurnInv, IInv, TypeOK, Upserting, Sessions
<1>2. /\ tx' = [tx EXCEPT ![t] = u] /\ pages' = pages
      /\ UNCHANGED <<verified, outdated, overlapped>>
  BY DEF InsertSummary
<1>3. /\ WellFormed(old)
      /\ DOMAIN pages[p].versions \subseteq DOMAIN old.versions
      /\ Reviewed(pages[p], old)
  BY <1>1, SeenRow
<1> HIDE DEF old
<1>4. \A i \in DOMAIN old.versions :
        row.versions[i].state # old.versions[i].state => row.versions[i].state = "superseded"
  BY <1>1, <1>3, UpsertedVersions
<1>5. Reviewed(pages[p], row)
  BY <1>3, <1>4, ReviewedThrough
<1>6. ASSUME ~overlapped
      PROVE  /\ ReviewedOnce(pages[p], row) /\ KeepsContents(pages[p], row)
             /\ ReplacedByUsers(pages[p], row)
  <2>1. /\ v.held = None
        /\ v.seen = old.current /\ v.hidden = old.deleted
        /\ ByUser(old, old.current) => v.candidates = Candidates(old)
        /\ ~ByUser(old, old.current) => v.candidates = {}
    BY <1>1, <1>6 DEF TurnInv, Turn, ReadsInTurn, StartsFrom
  <2>2. old = pages[p]
    BY <1>1, <2>1, PagesAssumption DEF SeenBy, Pages
  <2>3. /\ KeepsContents(old, row) /\ ReviewedOnce(old, row)
        /\ ByUser(old, old.current) => row.current = old.current
    BY <1>1, <1>3, <2>1, UpsertedInTurn
  <2> HIDE DEF row
  <2> QED
    BY <2>2, <2>3 DEF ReplacedByUsers
<1> HIDE DEF row, cited
<1>7. u.step = "sources" /\ u.held = p /\ u.draft = row
  BY <1>1 DEF AfterUpsert, Idle, Sessions
<1> HIDE DEF u
<1>8. ReadsInTurn(pages, verified, u)
  BY <1>7 DEF ReadsInTurn
<1>9. ~overlapped => DraftInTurn(pages, u)
  BY <1>1, <1>6, <1>7 DEF DraftInTurn
<1> QED
  BY <1>2, <1>5, <1>7, <1>8, <1>9, StepInTurn
-----------------------------------------------------------------------------
\* A user's change of a page that is locked and shown.
LEMMA ChangeInTurn ==
  ASSUME TurnInv, NEW t \in Transactions, NEW p \in Pages, NEW row, NEW claims,
         p = Topic => claims = {},
         Open(t, p), Change(t, p, row, claims), row.deleted = pages[p].deleted,
         ReviewedOnce(pages[p], row), KeepsContents(pages[p], row),
         ReplacedByUsers(pages[p], row)
  PROVE  InTurn
<1> DEFINE u == [tx[t] EXCEPT !.step = "sources", !.held = p, !.draft = row,
                              !.claims = claims]
<1>1. tx[t] \in Sessions
  BY DEF TurnInv, IInv, TypeOK
<1>2. u.step = "sources" /\ u.held = p /\ u.draft = row /\ u.claims = claims
  BY <1>1 DEF Sessions
<1>3. /\ tx' = [tx EXCEPT ![t] = u] /\ pages' = pages
      /\ UNCHANGED <<verified, outdated, overlapped>>
  BY <1>1 DEF Change, TurnInv, IInv, TypeOK, Sessions
<1> HIDE DEF u
<1>4. Reviewed(pages[p], row)
  BY DEF Reviewed, ReviewedOnce
<1>5. ReadsInTurn(pages, verified, u)
  BY <1>2 DEF ReadsInTurn
<1>6. DraftInTurn(pages, u)
  BY <1>2 DEF DraftInTurn, Open
<1> QED
  BY <1>2, <1>3, <1>4, <1>5, <1>6, StepInTurn

\* An edit and a revert add a version of a user and touch no other.
LEMMA NewVersionInTurn ==
  ASSUME NEW row, WellFormed(row), NEW content, NEW meta, NEW origin \in {"user", "revert"}
  PROVE  LET new == NewVersion(row, content, meta, origin)
         IN /\ new.deleted = row.deleted
            /\ ReviewedOnce(row, new)
            /\ KeepsContents(row, new)
            /\ ReplacedByUsers(row, new)
<1> DEFINE new == NewVersion(row, content, meta, origin)
           n == Len(row.versions)
           last == [content |-> content, meta |-> meta, origin |-> origin,
                    state |-> "published", base |-> row.current]
<1>1. /\ row \in Rows
      /\ n \in Nat /\ DOMAIN row.versions = 1 .. n
  BY DEF WellFormed, Rows
<1>2. /\ new.versions = Append(row.versions, last)
      /\ new.current = n + 1
      /\ new.deleted = row.deleted
  BY <1>1 DEF NewVersion, Rows
<1>3. last.origin = origin
  OBVIOUS
<1> HIDE DEF new, last
<1>4. /\ \A i \in 1 .. n : new.versions[i] = row.versions[i]
      /\ new.versions[n + 1] = last
  BY <1>1, <1>2 DEF Rows
<1>5. ReviewedOnce(row, new) /\ KeepsContents(row, new)
  BY <1>1, <1>4 DEF ReviewedOnce, KeepsContents
<1>6. ByUser(new, new.current)
  BY <1>1, <1>2, <1>3, <1>4 DEF ByUser
<1> QED
  BY <1>2, <1>5, <1>6 DEF ReplacedByUsers, new

\* A review decides the state of one candidate.
Decided(row, i, state, current) ==
  [row EXCEPT !.versions[i].state = state, !.current = current]

LEMMA DecidedRow ==
  ASSUME NEW row, WellFormed(row), NEW i, Reviewable(row, i),
         NEW state, NEW current, NEW new, new = Decided(row, i, state, current)
  PROVE  /\ new.deleted = row.deleted
         /\ new.current = current
         /\ DOMAIN new.versions = DOMAIN row.versions
         /\ ReviewedOnce(row, new)
         /\ KeepsContents(row, new)
         /\ \A j \in DOMAIN row.versions :
              /\ new.versions[j].origin = row.versions[j].origin
              /\ new.versions[j].base = row.versions[j].base
              /\ new.versions[j].state = IF j = i THEN state ELSE row.versions[j].state
<1> DEFINE v == [row.versions[i] EXCEPT !.state = state]
           versions == [row.versions EXCEPT ![i] = v]
<1>1. /\ row \in Rows /\ row.versions \in Seq(Versions)
      /\ i \in DOMAIN row.versions
      /\ row.versions[i].state = "pending_review"
  BY DEF WellFormed, Rows, Reviewable, Candidates
<1>2. /\ v.origin = row.versions[i].origin
      /\ v.base = row.versions[i].base
      /\ v.content = row.versions[i].content
      /\ v.meta = row.versions[i].meta
      /\ v.state = state
  <2>1. row.versions[i] \in Versions
    BY <1>1
  <2> QED
    BY <2>1 DEF Versions
<1>3. /\ new.versions = versions
      /\ new.current = current
      /\ new.deleted = row.deleted
  BY <1>1 DEF Rows, Decided
<1> HIDE DEF v
<1>4. /\ DOMAIN versions = DOMAIN row.versions
      /\ versions[i] = v
      /\ \A j \in DOMAIN row.versions : j # i => versions[j] = row.versions[j]
  BY <1>1
<1> HIDE DEF versions
<1>5. ReviewedOnce(row, new) /\ KeepsContents(row, new)
  BY <1>1, <1>2, <1>3, <1>4 DEF ReviewedOnce, KeepsContents
<1> QED
  BY <1>2, <1>3, <1>4, <1>5

\* edit_page.
LEMMA EditPageInTurn ==
  ASSUME TurnInv, NEW t \in Transactions, NEW p \in Pages, EditPage(t, p)
  PROVE  InTurn
<1> DEFINE row == pages[p]
           meta == row.versions[row.current].meta
           new == NewVersion(row, Manual, meta, "user")
<1>1. WellFormed(row)
  BY RowsWellFormed DEF TurnInv
<1>2. Open(t, p) /\ Change(t, p, new, {})
  BY DEF EditPage
<1> HIDE DEF meta
<1>3. /\ new.deleted = row.deleted
      /\ ReviewedOnce(row, new) /\ KeepsContents(row, new) /\ ReplacedByUsers(row, new)
  BY <1>1, NewVersionInTurn
<1> HIDE DEF new
<1> QED
  BY <1>2, <1>3, ChangeInTurn

\* revert_page.
LEMMA RevertPageInTurn ==
  ASSUME TurnInv, NEW t \in Transactions, NEW p \in Pages,
         NEW i \in DOMAIN pages[p].versions, RevertPage(t, p, i)
  PROVE  InTurn
<1> DEFINE row == pages[p]
           content == row.versions[i].content
           meta == row.versions[i].meta
           new == NewVersion(row, content, meta, "revert")
           claims == CopiedClaims(p, i, new.current)
<1>1. WellFormed(row)
  BY RowsWellFormed DEF TurnInv
<1>2. Open(t, p) /\ Change(t, p, new, claims)
  BY DEF RevertPage
<1> HIDE DEF meta, content
<1>3. /\ new.deleted = row.deleted
      /\ ReviewedOnce(row, new) /\ KeepsContents(row, new) /\ ReplacedByUsers(row, new)
  BY <1>1, NewVersionInTurn
<1>4. p = Topic => claims = {}
  BY PagesAssumption DEF TurnInv, IInv, TypeOK, Items, CopiedClaims
<1> HIDE DEF new, claims
<1> QED
  BY <1>2, <1>3, <1>4, ChangeInTurn

\* review_page, deciding to publish.
LEMMA PublishCandidateInTurn ==
  ASSUME TurnInv, NEW t \in Transactions, NEW p \in Pages, NEW i, PublishCandidate(t, p, i)
  PROVE  InTurn
<1> DEFINE row == pages[p]
           new == Decided(row, i, "published", i)
<1>1. WellFormed(row)
  BY RowsWellFormed DEF TurnInv
<1>2. Open(t, p) /\ Change(t, p, new, {}) /\ Reviewable(row, i)
  BY DEF PublishCandidate, Decided
<1>3. /\ new.deleted = row.deleted
      /\ new.current = i
      /\ ReviewedOnce(row, new) /\ KeepsContents(row, new)
      /\ new.versions[i].state = "published"
  BY <1>1, <1>2, DecidedRow DEF Reviewable, Candidates
<1> HIDE DEF new
<1>4. ReplacedByUsers(row, new)
  BY <1>2, <1>3 DEF ReplacedByUsers
<1> QED
  BY <1>2, <1>3, <1>4, ChangeInTurn

\* A rejection leaves what the topic is made from, and what is offered, alone.
LEMMA RejectedStillOffered ==
  ASSUME NEW row, WellFormed(row), NEW material, Offered(row, material),
         NEW i, Reviewable(row, i), NEW new,
         new = Decided(row, i, "rejected", row.current)
  PROVE  Offered(new, material)
<1>1. /\ new.current = row.current
      /\ DOMAIN new.versions = DOMAIN row.versions
      /\ KeepsContents(row, new)
      /\ \A j \in DOMAIN row.versions :
           /\ new.versions[j].origin = row.versions[j].origin
           /\ new.versions[j].base = row.versions[j].base
           /\ new.versions[j].state = IF j = i THEN "rejected" ELSE row.versions[j].state
  BY DecidedRow
<1>2. row.current # 0 => row.current \in DOMAIN row.versions
  BY DEF WellFormed, Rows
<1>3. \A j \in DOMAIN row.versions :
        MadeFrom(new.versions[j], material) <=> MadeFrom(row.versions[j], material)
  BY <1>1 DEF MadeFrom, KeepsContents
<1>4. CASE UpToDate(row, material)
  <2>1. UpToDate(new, material)
    BY <1>1, <1>2, <1>3, <1>4 DEF UpToDate
  <2> QED
    BY <2>1 DEF Offered
<1>5. CASE ~UpToDate(row, material)
  <2>1. ByUser(new, new.current)
    BY <1>1, <1>2, <1>5 DEF Offered, ByUser
  <2>2. PICK j \in DOMAIN row.versions :
          /\ MadeFrom(row.versions[j], material)
          /\ row.versions[j].base = row.current
          /\ row.versions[j].state \in {"pending_review", "rejected"}
    BY <1>5 DEF Offered
  <2>3. /\ j \in DOMAIN new.versions
        /\ MadeFrom(new.versions[j], material)
        /\ new.versions[j].base = new.current
        /\ new.versions[j].state \in {"pending_review", "rejected"}
    BY <1>1, <1>3, <2>2
  <2>4. \A k \in DOMAIN new.versions : Reviewable(new, k) => Reviewable(row, k)
    BY <1>1 DEF Reviewable, Candidates
  <2>5. \A k \in DOMAIN row.versions :
          Reviewable(row, k) => MadeFrom(row.versions[k], material)
    BY <1>5 DEF Offered
  <2>6. \A k \in DOMAIN new.versions :
          Reviewable(new, k) => MadeFrom(new.versions[k], material)
    BY <1>1, <1>3, <2>4, <2>5
  <2> QED
    BY <2>1, <2>3, <2>6 DEF Offered
<1> QED
  BY <1>4, <1>5

\* review_page, deciding to reject.
LEMMA RejectCandidateInTurn ==
  ASSUME TurnInv, NEW t \in Transactions, NEW p \in Pages, NEW i, RejectCandidate(t, p, i)
  PROVE  InTurn
<1> DEFINE row == pages[p]
           new == Decided(row, i, "rejected", row.current)
           rows == [pages EXCEPT ![p].versions[i].state = "rejected"]
<1>1. /\ WellFormed(row)
      /\ pages \in [Pages -> Rows]
      /\ Topic \in Pages /\ WellFormed(pages[Topic])
  BY RowsWellFormed DEF TurnInv, IInv, TypeOK, Pages
<1>2. Open(t, p) /\ Commit(t, rows) /\ Reviewable(row, i) /\ outdated' = outdated
  BY DEF RejectCandidate
<1>3. /\ new.deleted = row.deleted
      /\ new.current = row.current
      /\ DOMAIN new.versions = DOMAIN row.versions
      /\ ReviewedOnce(row, new) /\ KeepsContents(row, new)
  BY <1>1, <1>2, DecidedRow
<1>4. rows = [pages EXCEPT ![p] = new]
  BY <1>1 DEF Rows, Decided
<1> HIDE DEF rows
<1>5. /\ rows[p] = new
      /\ \A q \in Pages : q # p => rows[q] = pages[q]
  BY <1>1, <1>4
<1>6. row.current # 0 => row.current \in DOMAIN row.versions
  BY <1>1 DEF WellFormed, Rows
<1>7. Naming(rows) = Naming(pages)
  <2>1. ASSUME NEW s \in Summaries
        PROVE  /\ rows[s].current = pages[s].current
               /\ rows[s].current # 0 =>
                    rows[s].versions[rows[s].current].meta =
                      pages[s].versions[pages[s].current].meta
    <3> HIDE DEF new
    <3>1. s \in Pages
      BY DEF Pages
    <3> QED
      BY <1>3, <1>5, <1>6, <3>1 DEF KeepsContents
  <2> HIDE DEF new
  <2> QED
    BY <2>1, SameNaming
<1>8. ASSUME ~overlapped, ~outdated' PROVE Answered(rows, verified')
  <2> DEFINE due == Material(pages, verified)
  <2>1. Answered(pages, verified)
    BY <1>2, <1>8 DEF TurnInv, Turn
  <2>4. verified' = verified
    BY <1>2, <1>8 DEF Open, Commit, TurnInv, Turn, ReadsInTurn
  <2>2. /\ rows[Topic].deleted = pages[Topic].deleted
        /\ rows[Topic].current = pages[Topic].current
    <3> HIDE DEF new
    <3> QED
      BY <1>1, <1>3, <1>5
  <2>3. Offered(pages[Topic], due) => Offered(rows[Topic], due)
    <3> HIDE DEF due
    <3>1. CASE p = Topic
      BY <1>1, <1>2, <1>5, <3>1, RejectedStillOffered
    <3>2. CASE p # Topic
      BY <1>1, <1>5, <3>2
    <3> QED
      BY <3>1, <3>2
  <2> QED
    BY <1>7, <2>1, <2>2, <2>3, <2>4 DEF Answered, Material
<1> HIDE DEF new
<1>9. ASSUME NEW q \in Pages
      PROVE  /\ Reviewed(pages[q], rows[q]) /\ ReviewedOnce(pages[q], rows[q])
             /\ Kept(q, pages[q], rows[q])
             /\ Free(t, q) \/ rows[q].versions = pages[q].versions
  <2>1. CASE q = p
    BY <1>2, <1>3, <1>5, <2>1 DEF Open, Reviewed, ReviewedOnce, Replaces, Kept
  <2>2. CASE q # p
    BY <1>5, <2>2 DEF Reviewed, ReviewedOnce, Replaces, Kept
  <2> QED
    BY <2>1, <2>2
<1> QED
  BY <1>2, <1>8, <1>9, CommitInTurn
-----------------------------------------------------------------------------
\* A commit that writes the topic page in a last step.
LEMMA CommitTopicRow ==
  ASSUME TurnInv, NEW t \in Transactions, NEW row,
         Commit(t, [Written(t) EXCEPT ![Topic] = row]),
         Reviewed(pages[Topic], row),
         Free(t, Topic) \/ row.versions = pages[Topic].versions,
         ~overlapped =>
           /\ ReviewedOnce(pages[Topic], row)
           /\ Kept(Topic, pages[Topic], row)
           /\ IF Supported(Naming(Written(t)), Trusted(t))
              THEN ~row.deleted /\ Offered(row, Material(Written(t), Trusted(t)))
              ELSE row.current = 0 \/ row.deleted
  PROVE  InTurn
<1> DEFINE rows == [Written(t) EXCEPT ![Topic] = row]
<1>1. /\ rows[Topic] = row
      /\ \A p \in Pages : p # Topic => rows[p] = View(t, p) /\ rows[p] = Written(t)[p]
  BY DEF Written, Pages
<1>2. Commit(t, rows)
  OBVIOUS
<1> HIDE DEF rows
<1>3. Naming(rows) = Naming(Written(t))
  <2>1. \A s \in Summaries : rows[s] = Written(t)[s]
    BY <1>1, PagesAssumption DEF Pages
  <2> QED
    BY <2>1, SameNaming
<1>6. verified' = Trusted(t)
  BY <1>2 DEF Commit, Trusted
<1>4. ~overlapped => Answered(rows, verified')
  BY <1>1, <1>3, <1>6 DEF Answered, Material
<1>5. ASSUME NEW p \in Pages
      PROVE  /\ Reviewed(pages[p], rows[p])
             /\ Free(t, p) \/ rows[p].versions = pages[p].versions
             /\ ~overlapped => ReviewedOnce(pages[p], rows[p]) /\ Kept(p, pages[p], rows[p])
  <2>1. CASE p = Topic
    BY <1>1, <2>1
  <2>2. CASE p # Topic
    <3>1. rows[p] = View(t, p)
      BY <1>1, <2>2
    <3>2. /\ Reviewed(pages[p], View(t, p))
          /\ Free(t, p) \/ View(t, p) = pages[p]
          /\ ~overlapped =>
               ReviewedOnce(pages[p], View(t, p)) /\ ReplacedByUsers(pages[p], View(t, p))
      BY SeenRow
    <3>3. ReplacedByUsers(pages[p], View(t, p)) => ~Replaces(pages[p], View(t, p))
      BY NothingReplaced
    <3> QED
      BY <3>1, <3>2, <3>3 DEF Kept
  <2> QED
    BY <2>1, <2>2
<1> QED
  BY <1>2, <1>4, <1>5, CommitInTurn

\* The new version of the topic replaces a user's version only with its own
\* content, unless claims have lost their trust: a candidate that could be
\* published was up to date, or the version it replaces was.
LEMMA TopicInTurn ==
  ASSUME TurnInv, NEW t \in Transactions, CommitTopic(t), ~overlapped
  PROVE  LET row == Upserted(View(t, Topic), tx[t])
             items == Naming(Written(t))
         IN /\ ReviewedOnce(pages[Topic], row)
            /\ Kept(Topic, pages[Topic], row)
            /\ Supported(items, Trusted(t))
            /\ ~row.deleted
            /\ Offered(row, Material(Written(t), Trusted(t)))
<1> DEFINE u == tx[t]
           was == pages[Topic]
           old == View(t, Topic)
           row == Upserted(old, u)
           items == Naming(Written(t))
           due == Material(Written(t), Trusted(t))
<1>1. /\ u.wanted \in Materials /\ u.target = Topic /\ u.step = "insert"
      /\ Topic \in Pages
      /\ old = SeenBy(pages, u, Topic)
      /\ Written(t) = AllSeenBy(pages, u)
      /\ Trusted(t) = verified \cup u.claims
  BY Sights DEF CommitTopic, TurnInv, IInv, TypeOK, Sessions, Pages, Trusted
<1>2. /\ u.wanted = due /\ Supported(items, Trusted(t))
      /\ u.seen = old.current /\ u.hidden = old.deleted
      /\ ~UpToDate(old, due)
      /\ ByUser(old, old.current) => u.candidates = Candidates(old)
      /\ ~ByUser(old, old.current) => u.candidates = {}
  BY <1>1 DEF TurnInv, Turn, ReadsInTurn, StartsFrom
<1>3. /\ WellFormed(old) /\ WellFormed(was)
      /\ DOMAIN was.versions \subseteq DOMAIN old.versions
      /\ ReviewedOnce(was, old) /\ ReplacedByUsers(was, old)
      /\ Evolves(was, old)
  BY <1>1, SeenRow, RowsWellFormed, WrittenRows DEF TurnInv
<1>4. /\ ReviewedOnce(old, row)
      /\ Offered(row, due) /\ ~row.deleted
      /\ ByUser(old, old.current) => row.current = old.current /\ ByUser(row, row.current)
      /\ ~ByUser(old, old.current) => MadeFrom(Current(row), due)
  BY <1>1, <1>2, <1>3, UpsertedInTurn
<1> HIDE DEF row, old, items, due, u
<1>5. ReviewedOnce(was, row)
  BY <1>3, <1>4, ReviewedOnceThrough
<1>6. ASSUME Replaces(was, row)
      PROVE  outdated /\ \E i \in Candidates(was) : row.versions[i].state = "published"
  <2>1. /\ ByUser(was, was.current) /\ Current(row).content # Current(was).content
        /\ row.current # was.current
        /\ ~ByUser(row, row.current)
    BY <1>6 DEF Replaces, Current, ByUser
  <2>2. ~ByUser(old, old.current) /\ Current(row).content = due.content
    BY <1>4, <2>1 DEF MadeFrom
  <2>3. was.current \in DOMAIN was.versions
    BY <1>3, <2>1 DEF ByUser, WellFormed, Rows
  <2>4. old.current # was.current
    BY <1>3, <2>1, <2>2, <2>3 DEF ByUser, Evolves
  <2>5. Reviewable(was, old.current) /\ old.versions[old.current].state = "published"
    BY <1>3, <2>1, <2>2, <2>4 DEF ReplacedByUsers
  <2>6. u.held = Topic
    BY <1>1, <2>4 DEF SeenBy
  <2>7. KeepsContents(was, old) /\ ~was.deleted /\ u.claims = {}
    BY <1>1, <2>6, PagesAssumption DEF TurnInv, Turn, DraftInTurn, SeenBy, u, Pages
  <2>8. items = Naming(pages) /\ due = Material(pages, verified)
    <3>1. \A s \in Summaries : Written(t)[s] = pages[s]
      BY <1>1, <2>6, PagesAssumption DEF AllSeenBy, SeenBy, Pages
    <3>2. Naming(Written(t)) = Naming(pages)
      BY <3>1, SameNaming
    <3> QED
      BY <1>1, <2>7, <3>2 DEF items, due, Material
  <2>9. old.current \in Candidates(was) /\ old.current \in DOMAIN old.versions
    BY <1>3, <2>5 DEF Reviewable, Candidates
  <2>10. row.versions[old.current].state = "published"
    BY <1>4, <2>5, <2>9 DEF ReviewedOnce
  <2>11. ASSUME ~outdated PROVE FALSE
    <3>1. Offered(was, due)
      BY <1>1, <1>2, <2>7, <2>8, <2>11 DEF TurnInv, Turn, Answered
    <3>2. CASE UpToDate(was, due)
      BY <2>1, <2>2, <3>2 DEF UpToDate, MadeFrom, Current
    <3>3. CASE ~UpToDate(was, due)
      <4>1. old.current \in DOMAIN was.versions
        BY <2>5 DEF Reviewable, Candidates
      <4>2. MadeFrom(was.versions[old.current], due)
        BY <2>5, <3>1, <3>3, <4>1 DEF Offered
      <4>3. MadeFrom(old.versions[old.current], due)
        BY <2>7, <4>1, <4>2 DEF MadeFrom, KeepsContents
      <4>4. old.current # 0
        BY <1>3, <4>1 DEF WellFormed, Rows
      <4> QED
        BY <1>2, <4>3, <4>4 DEF UpToDate
    <3> QED
      BY <3>2, <3>3
  <2>12. outdated
    BY <2>11
  <2> QED
    BY <2>9, <2>10, <2>12
<1> QED
  BY <1>2, <1>4, <1>5, <1>6 DEF row, old, items, due, u, Kept

\* The insert of a version of the topic, and the commit.
LEMMA CommitTopicInTurn ==
  ASSUME TurnInv, NEW t \in Transactions, CommitTopic(t)
  PROVE  InTurn
<1> DEFINE u == tx[t]
           old == View(t, Topic)
           row == Upserted(old, u)
<1>1. /\ u.wanted \in Materials /\ u.seen \in Nat /\ u.hidden \in BOOLEAN
      /\ Topic \in Pages
  BY DEF TurnInv, IInv, TypeOK, Sessions, Pages
<1>2. /\ WellFormed(old)
      /\ DOMAIN pages[Topic].versions \subseteq DOMAIN old.versions
      /\ Reviewed(pages[Topic], old)
  BY <1>1, SeenRow
<1>3. \A i \in DOMAIN old.versions :
        row.versions[i].state # old.versions[i].state => row.versions[i].state = "superseded"
  <2> HIDE DEF u, old
  <2> QED
    BY <1>1, <1>2, UpsertedVersions
<1>4. Commit(t, [Written(t) EXCEPT ![Topic] = row]) /\ Free(t, Topic)
  BY DEF CommitTopic
<1>5. ~overlapped =>
        /\ ReviewedOnce(pages[Topic], row)
        /\ Kept(Topic, pages[Topic], row)
        /\ Supported(Naming(Written(t)), Trusted(t))
        /\ ~row.deleted
        /\ Offered(row, Material(Written(t), Trusted(t)))
  BY TopicInTurn
<1> HIDE DEF row
<1>6. Reviewed(pages[Topic], row)
  <2> HIDE DEF old
  <2> QED
    BY <1>2, <1>3, ReviewedThrough
<1> QED
  BY <1>4, <1>5, <1>6, CommitTopicRow

\* A commit that only deletes the topic page or takes it out of deletion.
LEMMA KeepOrRetireInTurn ==
  ASSUME TurnInv, NEW t \in Transactions, KeepTopic(t) \/ RetireTopic(t)
  PROVE  InTurn
<1> DEFINE u == tx[t]
           old == View(t, Topic)
           items == Naming(Written(t))
           due == Material(Written(t), Trusted(t))
           deleted == IF KeepTopic(t) THEN old.deleted /\ ~u.hidden
                      ELSE old.deleted \/ (old.current # 0 /\ ~old.deleted)
           row == [old EXCEPT !.deleted = deleted]
<1>1. /\ Topic \in Pages
      /\ old = SeenBy(pages, u, Topic)
      /\ Written(t) = AllSeenBy(pages, u)
      /\ Written(t)[Topic] = old /\ Topic \in DOMAIN Written(t)
  BY Sights DEF Pages, Written
<1>2. /\ WellFormed(old)
      /\ Reviewed(pages[Topic], old)
      /\ Free(t, Topic) \/ old = pages[Topic]
      /\ ~overlapped => ReviewedOnce(pages[Topic], old) /\ ReplacedByUsers(pages[Topic], old)
  BY <1>1, SeenRow
<1>3. Commit(t, [Written(t) EXCEPT ![Topic] = row])
  <2>1. CASE KeepTopic(t)
    <3>1. Commit(t, [Written(t) EXCEPT ![Topic].deleted = @ /\ ~u.hidden])
      BY <2>1 DEF KeepTopic
    <3>2. row = [old EXCEPT !.deleted = old.deleted /\ ~u.hidden]
      BY <2>1
    <3> HIDE DEF row, old
    <3>3. [Written(t) EXCEPT ![Topic].deleted = @ /\ ~u.hidden]
            = [Written(t) EXCEPT ![Topic] = row]
      BY <1>1, <3>2
    <3> QED
      BY <3>1, <3>3
  <2>2. CASE ~KeepTopic(t)
    <3>1. RetireTopic(t)
      BY <2>2
    <3>2. Commit(t, [Written(t) EXCEPT ![Topic].deleted =
                       @ \/ (old.current # 0 /\ ~old.deleted)])
      BY <3>1 DEF RetireTopic
    <3>3. row = [old EXCEPT !.deleted = old.deleted \/ (old.current # 0 /\ ~old.deleted)]
      BY <2>2
    <3> HIDE DEF row, old
    <3>4. [Written(t) EXCEPT ![Topic].deleted = @ \/ (old.current # 0 /\ ~old.deleted)]
            = [Written(t) EXCEPT ![Topic] = row]
      BY <1>1, <3>3
    <3> QED
      BY <3>2, <3>4
  <2> QED
    BY <2>1, <2>2
<1>4. /\ row.versions = old.versions /\ row.current = old.current
      /\ row.deleted = deleted
  BY <1>2 DEF WellFormed, Rows
<1> HIDE DEF row
<1>5. /\ Reviewed(pages[Topic], row)
      /\ Free(t, Topic) \/ row.versions = pages[Topic].versions
      /\ ~overlapped => ReviewedOnce(pages[Topic], row) /\ Kept(Topic, pages[Topic], row)
  <2> HIDE DEF old
  <2>1. /\ Reviewed(pages[Topic], row)
        /\ ~overlapped => ReviewedOnce(pages[Topic], row)
    BY <1>2, <1>4 DEF Reviewed, ReviewedOnce
  <2>2. Replaces(pages[Topic], row) => Replaces(pages[Topic], old)
    BY <1>4 DEF Replaces, Current
  <2>3. ~overlapped => ~Replaces(pages[Topic], old)
    BY <1>2, NothingReplaced
  <2> QED
    BY <1>2, <1>4, <2>1, <2>2, <2>3 DEF Kept
<1>6. ASSUME ~overlapped
      PROVE  IF Supported(items, Trusted(t))
             THEN ~row.deleted /\ Offered(row, due)
             ELSE row.current = 0 \/ row.deleted
  <2>1. ReadsInTurn(pages, verified, u) /\ Trusted(t) = verified \cup u.claims
    BY <1>6 DEF TurnInv, Turn, Trusted
  <2>2. CASE KeepTopic(t)
    <3>1. u.step = "kept"
      BY <2>2 DEF KeepTopic
    <3> HIDE DEF u, old
    <3>2. /\ u.target = Topic
          /\ u.wanted = due /\ Supported(items, Trusted(t))
      BY <1>1, <2>1, <3>1 DEF ReadsInTurn, StartsFrom
    <3>3. u.hidden = old.deleted /\ UpToDate(old, due)
      BY <1>1, <2>1, <3>1, <3>2 DEF ReadsInTurn
    <3>4. ~row.deleted
      BY <1>4, <2>2, <3>3
    <3>5. Offered(row, due)
      BY <1>4, <3>3 DEF Offered, UpToDate
    <3> QED
      BY <3>2, <3>4, <3>5
  <2>3. CASE ~KeepTopic(t)
    <3>1. u.step = "retire"
      BY <2>3 DEF RetireTopic
    <3> HIDE DEF u, old
    <3>2. ~Supported(items, Trusted(t))
      BY <1>1, <2>1, <3>1 DEF ReadsInTurn
    <3>3. row.current = 0 \/ row.deleted
      BY <1>4, <2>3
    <3> QED
      BY <3>2, <3>3
  <2> QED
    BY <2>2, <2>3
<1> QED
  BY <1>3, <1>5, <1>6, CommitTopicRow
-----------------------------------------------------------------------------
\* Every step, from a state of the invariant, takes its turn.
LEMMA NextInTurn ==
  ASSUME TurnInv, [Next]_vars
  PROVE  TurnInv' /\ ReviewsFinal /\ EditsKept
<1>1. ASSUME NEW t \in Transactions, NEW s \in Summaries, NEW g \in Generations,
             Publish(t, s, g)
      PROVE  InTurn
  BY <1>1, PublishInTurn
<1>8. ASSUME NEW t \in Transactions, NEW s \in Summaries, NEW g \in Generations \cup {None},
             ChangeDocument(t, s, g)
      PROVE  InTurn
  BY <1>8, ChangeDocumentInTurn
<1>2. ASSUME NEW t \in Transactions, NEW p \in Pages, EditPage(t, p) PROVE InTurn
  BY <1>2, EditPageInTurn
<1>3. ASSUME NEW t \in Transactions, NEW p \in Pages, NEW i \in DOMAIN pages[p].versions,
             RevertPage(t, p, i) \/ PublishCandidate(t, p, i) \/ RejectCandidate(t, p, i)
      PROVE  InTurn
  BY <1>3, RevertPageInTurn, PublishCandidateInTurn, RejectCandidateInTurn
<1>4. ASSUME NEW t \in Transactions,
             \/ ReadPage(t) \/ ReadNumber(t) \/ InsertSummary(t) \/ ReadSources(t)
             \/ CommitTopic(t) \/ KeepTopic(t) \/ RetireTopic(t) \/ CommitDocument(t)
             \/ Abort(t)
      PROVE  InTurn
  BY <1>4, ReadPageInTurn, ReadNumberInTurn, InsertSummaryInTurn, ReadSourcesInTurn,
     CommitTopicInTurn, KeepOrRetireInTurn, CommitDocumentInTurn, AbortInTurn
<1>9. ASSUME NEW t \in Transactions, NEW i \in tx[t].unread, ReadClaims(t, i) PROVE InTurn
  BY <1>9, ReadClaimsInTurn
<1>5. ASSUME UNCHANGED vars PROVE InTurn
  <2>1. UNCHANGED <<pages, verified, tx, outdated, overlapped>>
    BY <1>5 DEF vars
  <2>2. Deciding' /\ Turn'
    BY <2>1 DEF TurnInv, Deciding, Turn
  <2>3. ReviewsFinal /\ EditsKept
    BY <2>1 DEF ReviewsFinal, EditsKept, Overwritten
  <2> QED
    BY <2>2, <2>3 DEF InTurn
<1>6. InTurn
  BY <1>1, <1>2, <1>3, <1>4, <1>5, <1>8, <1>9 DEF Next
<1>7. IInv'
  BY NextStep DEF TurnInv, Preserved
<1> QED
  BY <1>6, <1>7 DEF InTurn, TurnInv

\* An empty wiki satisfies the invariant: no topic, no transaction.
LEMMA InitInTurn ==
  ASSUME Init
  PROVE  TurnInv
<1>1. /\ Deciding
      /\ \A t \in Transactions :
           DraftInTurn(pages, tx[t]) /\ ReadsInTurn(pages, verified, tx[t])
  BY DEF Init, Idle, Deciding, DraftInTurn, ReadsInTurn
<1>2. \A p \in Pages : pages[p].current = 0
  BY DEF Init, NoRow
<1>3. Naming(pages) = {}
  BY <1>2 DEF Naming, Pages
<1>4. Answered(pages, verified)
  BY <1>2, <1>3 DEF Answered, Supported, Pages
<1> QED
  BY <1>1, <1>4, InitHolds DEF TurnInv, Turn

LEMMA TurnInvariance == Spec => []TurnInv
<1>1. TurnInv /\ [Next]_vars => TurnInv'
  BY NextInTurn
<1> QED
  BY <1>1, InitInTurn, PTL DEF Spec

\* As long as no two transactions overlapped, _rebuild_topic_pages, at the end of
\* every edit, revert, publication and review, leaves the topic page as the
\* current summaries and their verified claims make it, or with that update as
\* its only candidate; or gone, if no verified claim supports it.  It stays so
\* until invalidate_document_claims takes the trust of claims away.
THEOREM TopicFollows == Spec => []TopicFollowsSummaries
<1>1. TurnInv => TopicFollowsSummaries
  BY DEF TurnInv, Turn, Answered, Material, Due, TopicFollowsSummaries, TopicIsCurrent
<1> QED
  BY <1>1, TurnInvariance, PTL

\* review_page decides a candidate once; only an _upsert_page that overlapped the
\* decision marks it superseded afterwards.
THEOREM ReviewsDecidedOnce == Spec => ReviewsAreFinal
<1>1. TurnInv /\ [Next]_vars => [ReviewsFinal]_vars
  BY NextInTurn
<1>2. Spec => [][ReviewsFinal]_vars
  BY <1>1, TurnInvariance, PTL DEF Spec
<1> QED
  BY <1>2 DEF ReviewsAreFinal, ReviewsFinal

\* As long as no two transactions overlapped, the pipeline never puts another
\* content in place of a user's without a review.  The one exception needs a
\* document whose claims lost their trust after the candidate was laid before
\* the users: the rebuild that follows the publication of that candidate of the
\* topic makes another version, and that one is current at once.
THEOREM EditsStandInEveryTurn == Spec => EditsStandInTurn
<1>1. TurnInv /\ [Next]_vars => [EditsKept]_vars
  BY NextInTurn
<1>2. Spec => [][EditsKept]_vars
  BY <1>1, TurnInvariance, PTL DEF Spec
<1> QED
  BY <1>2 DEF EditsStandInTurn, EditsKept
-----------------------------------------------------------------------------
(* Claims that are verified, while no two transactions overlapped.         *)

\* A version of a summary that is there, and made for the active version of
\* its document.
Stands(row, i) == i[2] \in DOMAIN row.versions /\ row.versions[i[2]].meta = active[i[1]]

\* The same of the claims a transaction has written, and what it goes by.
StandsInTurn(u) ==
  /\ \A i \in u.claims : Stands(SeenBy(pages, u, i[1]), i)
  /\ u.step \in {"page", "number", "insert"} /\ u.target # Topic =>
       u.wanted.meta = active[u.target]
  /\ u.step = "changed" => u.distrusted = Invalidated(u.target)

Standing ==
  ~overlapped =>
    /\ \A i \in verified : Stands(pages[i[1]], i)
    /\ \A t \in Transactions : StandsInTurn(tx[t])

StandInv == TurnInv /\ Standing

\* A step that commits nothing.
LEMMA StepStands ==
  ASSUME StandInv, NEW t \in Transactions, NEW u, tx' = [tx EXCEPT ![t] = u],
         UNCHANGED <<pages, active, verified, overlapped>>,
         ~overlapped => StandsInTurn(u)
  PROVE  Standing'
<1>1. \A v \in Transactions : tx'[v] = IF v = t THEN u ELSE tx[v]
  BY DEF StandInv, TurnInv, IInv, TypeOK
<1>2. \A v \in Transactions : ~overlapped => StandsInTurn(tx'[v])
  BY <1>1 DEF StandInv, Standing
<1>3. ASSUME NEW w, StandsInTurn(w) PROVE StandsInTurn(w)'
  BY <1>3 DEF StandsInTurn, Stands, SeenBy, Invalidated
<1> QED
  BY <1>1, <1>2, <1>3 DEF StandInv, Standing, StandsInTurn, Stands, SeenBy, Invalidated

\* One that leaves its page and claims alone.
LEMMA ReadStands ==
  ASSUME StandInv, NEW t \in Transactions, NEW u, tx' = [tx EXCEPT ![t] = u],
         UNCHANGED <<pages, active, verified, overlapped>>,
         u.held = tx[t].held, u.draft = tx[t].draft, u.claims = tx[t].claims,
         ~overlapped /\ u.step \in {"page", "number", "insert"} /\ u.target # Topic =>
           u.wanted.meta = active[u.target],
         u.step = "changed" => u.distrusted = Invalidated(u.target)
  PROVE  Standing'
<1>1. \A p : SeenBy(pages, u, p) = SeenBy(pages, tx[t], p)
  BY DEF SeenBy
<1>2. ~overlapped => StandsInTurn(u)
  BY <1>1 DEF StandInv, Standing, StandsInTurn
<1> QED
  BY <1>2, StepStands

\* A commit: the versions that were there stay as they are, and the claims of
\* the transaction stand in the rows it commits.
LEMMA CommitStands ==
  ASSUME StandInv, NEW t \in Transactions, NEW rows, Commit(t, rows),
         ~overlapped =>
           /\ \A s \in Summaries :
                /\ DOMAIN pages[s].versions \subseteq DOMAIN rows[s].versions
                /\ KeepsContents(pages[s], rows[s])
           /\ \A i \in tx[t].claims : Stands(rows[i[1]], i)
  PROVE  Standing'
<1>1. /\ \A v \in Transactions : tx'[v] = IF v = t THEN Idle ELSE tx[v]
      /\ pages' = rows /\ active' = active /\ verified' = verified \cup tx[t].claims
      /\ overlapped' = (overlapped \/ \E u \in Transactions \ {t} : tx[u].step # "idle")
  BY DEF StandInv, TurnInv, IInv, TypeOK, Commit, End
<1>2. ASSUME ~overlapped', NEW i \in verified' PROVE (Stands(pages[i[1]], i))'
  <2>1. CASE i \in verified
    <3>1. i[1] \in Summaries
      BY <2>1 DEF StandInv, TurnInv, IInv, TypeOK, Items
    <3>2. Stands(pages[i[1]], i)
      BY <1>1, <1>2, <2>1 DEF StandInv, Standing
    <3> QED
      BY <1>1, <1>2, <3>1, <3>2 DEF Stands, KeepsContents
  <2>2. CASE i \in tx[t].claims
    BY <1>1, <1>2, <2>2 DEF Stands
  <2> QED
    BY <1>1, <1>2, <2>1, <2>2
<1>3. ASSUME ~overlapped', NEW v \in Transactions PROVE (StandsInTurn(tx[v]))'
  <2>1. tx'[v].step = "idle" /\ tx'[v].claims = {}
    <3>1. CASE v = t
      BY <1>1, <3>1 DEF Idle
    <3>2. CASE v # t
      BY <1>1, <1>3, <3>2 DEF StandInv, TurnInv, Turn, ReadsInTurn
    <3> QED
      BY <3>1, <3>2
  <2> QED
    BY <2>1 DEF StandsInTurn
<1> QED
  BY <1>2, <1>3 DEF Standing

\* A commit of what the transaction sees, but for the topic page.
LEMMA TopicStands ==
  ASSUME StandInv, NEW t \in Transactions, NEW rows, Commit(t, rows),
         \A s \in Summaries : rows[s] = Written(t)[s]
  PROVE  Standing'
<1>1. ASSUME NEW s \in Summaries PROVE rows[s] = View(t, s) /\ s \in Pages /\ s # None
  BY PagesAssumption DEF Written, Pages
<1>2. ASSUME ~overlapped, NEW s \in Summaries
      PROVE  /\ DOMAIN pages[s].versions \subseteq DOMAIN rows[s].versions
             /\ KeepsContents(pages[s], rows[s])
  <2>1. DOMAIN pages[s].versions \subseteq DOMAIN rows[s].versions
    BY <1>1, SeenRow DEF StandInv
  <2>2. CASE tx[t].held = s
    BY <1>1, <1>2, <2>1, <2>2 DEF StandInv, TurnInv, Turn, DraftInTurn, View
  <2>3. CASE tx[t].held # s
    BY <1>1, <2>1, <2>3 DEF View, KeepsContents
  <2> QED
    BY <2>1, <2>2, <2>3
<1>3. ASSUME ~overlapped, NEW i \in tx[t].claims PROVE Stands(rows[i[1]], i)
  <2>1. i[1] \in Summaries
    BY DEF StandInv, TurnInv, IInv, TypeOK, Sessions, Items
  <2>2. Stands(SeenBy(pages, tx[t], i[1]), i)
    BY <1>3 DEF StandInv, Standing, StandsInTurn
  <2> QED
    BY <1>1, <2>1, <2>2 DEF View, SeenBy
<1> QED
  BY <1>2, <1>3, CommitStands

\* The commits of the topic page, and a rejection, which writes no claims.
LEMMA CommitsStand ==
  ASSUME StandInv, NEW t \in Transactions,
         \/ CommitTopic(t) \/ KeepTopic(t) \/ RetireTopic(t)
         \/ \E p \in Pages : \E i : RejectCandidate(t, p, i)
  PROVE  Standing'
<1>1. CASE CommitTopic(t) \/ KeepTopic(t) \/ RetireTopic(t)
  <2>1. PICK rows : /\ Commit(t, rows)
                    /\ \A p \in Pages : p # Topic => rows[p] = Written(t)[p]
    <3>1. CASE CommitTopic(t)
      BY <3>1 DEF CommitTopic, Written, Pages
    <3>2. CASE KeepTopic(t)
      BY <3>2 DEF KeepTopic, Written, Pages
    <3>3. CASE RetireTopic(t)
      BY <3>3 DEF RetireTopic, Written, Pages
    <3> QED
      BY <1>1, <3>1, <3>2, <3>3
  <2>2. \A s \in Summaries : rows[s] = Written(t)[s]
    BY <2>1, PagesAssumption DEF Pages
  <2> QED
    BY <2>1, <2>2, TopicStands
<1>2. ASSUME NEW p \in Pages, NEW i, RejectCandidate(t, p, i) PROVE Standing'
  <2> DEFINE rows == [pages EXCEPT ![p].versions[i].state = "rejected"]
             new == Decided(pages[p], i, "rejected", pages[p].current)
  <2>1. Commit(t, rows) /\ Reviewable(pages[p], i) /\ tx[t].step = "idle"
    BY <1>2 DEF RejectCandidate, Open
  <2>2. WellFormed(pages[p]) /\ pages \in [Pages -> Rows]
    BY RowsWellFormed DEF StandInv, TurnInv, IInv, TypeOK
  <2>3. rows = [pages EXCEPT ![p] = new]
    BY <2>2 DEF Rows, Decided
  <2>4. DOMAIN new.versions = DOMAIN pages[p].versions /\ KeepsContents(pages[p], new)
    BY <2>1, <2>2, DecidedRow
  <2> HIDE DEF rows, new
  <2>5. \A s \in Summaries : s \in Pages /\ rows[s] = IF s = p THEN new ELSE pages[s]
    BY <2>2, <2>3 DEF Pages
  <2>6. \A s \in Summaries : /\ DOMAIN pages[s].versions \subseteq DOMAIN rows[s].versions
                             /\ KeepsContents(pages[s], rows[s])
    BY <2>4, <2>5 DEF KeepsContents
  <2>7. ~overlapped => tx[t].claims = {}
    BY <2>1 DEF StandInv, TurnInv, Turn, ReadsInTurn
  <2> QED
    BY <2>1, <2>6, <2>7, CommitStands
<1> QED
  BY <1>1, <1>2

\* The statements of _publish and _rebuild_topic_pages, and of a change of a
\* document.
LEMMA StatementsStand ==
  ASSUME StandInv, NEW t \in Transactions,
         \/ \E s \in Summaries, g \in Generations : Publish(t, s, g)
         \/ \E s \in Summaries, g \in Generations \cup {None} : ChangeDocument(t, s, g)
         \/ ReadPage(t) \/ ReadNumber(t) \/ ReadSources(t)
         \/ \E i \in tx[t].unread : ReadClaims(t, i)
  PROVE  Standing'
<1> DEFINE v == tx[t]
           row == View(t, v.target)
<1>1. v \in Sessions
  BY DEF StandInv, TurnInv, IInv, TypeOK
<1>2. ASSUME NEW s \in Summaries, NEW g \in Generations, Publish(t, s, g) PROVE Standing'
  <2> DEFINE u == [Upsert(v, s, [content |-> g, meta |-> g]) EXCEPT !.pipeline = TRUE]
  <2>1. /\ u.step = "page" /\ u.target = s /\ u.wanted.meta = g
        /\ u.held = v.held /\ u.draft = v.draft /\ u.claims = v.claims
    BY <1>1 DEF Upsert, Sessions
  <2>2. /\ tx' = [tx EXCEPT ![t] = u] /\ active[s] = g
        /\ UNCHANGED <<pages, active, verified, overlapped>>
    BY <1>2 DEF Publish
  <2> HIDE DEF u, v
  <2> QED
    BY <2>1, <2>2, ReadStands DEF v
<1>3. ASSUME NEW s \in Summaries, NEW g \in Generations \cup {None}, ChangeDocument(t, s, g)
      PROVE  Standing'
  <2> DEFINE lost == Invalidated(s)
             u == [v EXCEPT !.step = "changed", !.target = s, !.next = g,
                            !.distrusted = lost]
  <2>1. /\ tx' = [tx EXCEPT ![t] = u]
        /\ UNCHANGED <<pages, active, verified, overlapped>>
    BY <1>1, <1>3 DEF ChangeDocument, StandInv, TurnInv, IInv, TypeOK, Sessions
  <2> HIDE DEF lost
  <2>2. /\ u.step = "changed" /\ u.target = s /\ u.distrusted = lost
        /\ u.held = v.held /\ u.draft = v.draft /\ u.claims = v.claims
    BY <1>1 DEF Sessions
  <2> HIDE DEF u, v
  <2> QED
    BY <2>1, <2>2, ReadStands DEF v, lost
<1>4. CASE ReadPage(t)
  <2> DEFINE read == [v EXCEPT !.seen = row.current, !.hidden = row.deleted]
             u == IF ~UpToDate(row, v.wanted) THEN [read EXCEPT !.step = "number"]
                  ELSE IF v.target = Topic THEN [read EXCEPT !.step = "kept"]
                  ELSE AfterUpsert(v)
  <2>1. /\ tx' = [tx EXCEPT ![t] = u] /\ v.step = "page"
        /\ UNCHANGED <<pages, active, verified, overlapped>>
    BY <1>4 DEF ReadPage
  <2> HIDE DEF row
  <2>2. /\ u.held = v.held /\ u.draft = v.draft /\ u.claims = v.claims
        /\ \/ u.step \in {"kept", "sources"}
           \/ u.step = "number" /\ u.target = v.target /\ u.wanted = v.wanted
    BY <1>1 DEF AfterUpsert, Idle, Sessions
  <2> HIDE DEF u
  <2>3. ~overlapped /\ v.target # Topic => v.wanted.meta = active[v.target]
    BY <2>1 DEF StandInv, Standing, StandsInTurn
  <2> HIDE DEF v
  <2> QED
    BY <2>1, <2>2, <2>3, ReadStands DEF v
<1>5. CASE ReadNumber(t)
  <2> DEFINE candidates == IF ByUser(row, v.seen) THEN Candidates(row) ELSE {}
             u == [v EXCEPT !.step = "insert", !.number = Len(row.versions) + 1,
                            !.candidates = candidates]
  <2>1. /\ tx' = [tx EXCEPT ![t] = u] /\ v.step = "number"
        /\ UNCHANGED <<pages, active, verified, overlapped>>
    BY <1>5 DEF ReadNumber, StandInv, TurnInv, IInv, TypeOK, Sessions
  <2> HIDE DEF row, candidates
  <2>2. /\ u.held = v.held /\ u.draft = v.draft /\ u.claims = v.claims
        /\ u.step = "insert" /\ u.target = v.target /\ u.wanted = v.wanted
    BY <1>1 DEF Sessions
  <2> HIDE DEF u
  <2>3. ~overlapped /\ v.target # Topic => v.wanted.meta = active[v.target]
    BY <2>1 DEF StandInv, Standing, StandsInTurn
  <2> HIDE DEF v
  <2> QED
    BY <2>1, <2>2, <2>3, ReadStands DEF v
<1>6. CASE ReadSources(t)
  <2> DEFINE items == Naming(Written(t))
             m == [content |-> {}, meta |-> items]
             u == IF Cardinality(items) >= 2
                  THEN [v EXCEPT !.step = "claims", !.unread = items, !.wanted = m]
                  ELSE [v EXCEPT !.step = "retire"]
  <2>1. /\ tx' = [tx EXCEPT ![t] = u]
        /\ UNCHANGED <<pages, active, verified, overlapped>>
    BY <1>6 DEF ReadSources
  <2> HIDE DEF items, m
  <2>2. /\ u.held = v.held /\ u.draft = v.draft /\ u.claims = v.claims
        /\ u.step \in {"claims", "retire"}
    BY <1>1 DEF Sessions
  <2> HIDE DEF u, v
  <2> QED
    BY <2>1, <2>2, ReadStands DEF v
<1>7. ASSUME NEW i \in v.unread, ReadClaims(t, i) PROVE Standing'
  <2> DEFINE left == v.unread \ {i}
             m == [v.wanted EXCEPT !.content = @ \cup ({i} \cap Trusted(t))]
             read == [v EXCEPT !.unread = left, !.wanted = m]
             u == IF left # {} THEN read
                  ELSE IF m.content = {} THEN [read EXCEPT !.step = "retire"]
                  ELSE Upsert(read, Topic, m)
  <2>1. tx' = [tx EXCEPT ![t] = u] /\ v.step = "claims"
        /\ UNCHANGED <<pages, active, verified, overlapped>>
    <3>1. v.wanted \in Materials
      BY <1>1 DEF Sessions
    <3> QED
      BY <1>1, <1>7, <3>1, ClaimsRead DEF ReadClaims
  <2> HIDE DEF left, m
  <2>2. /\ u.held = v.held /\ u.draft = v.draft /\ u.claims = v.claims
        /\ \/ u.step \in {"claims", "retire"}
           \/ u.step = "page" /\ u.target = Topic
    BY <1>1, <2>1 DEF Upsert, Sessions
  <2> HIDE DEF u, v
  <2> QED
    BY <2>1, <2>2, ReadStands DEF v
<1> QED
  BY <1>2, <1>3, <1>4, <1>5, <1>6, <1>7

\* A new version of a summary is of the active version, in its turn.
LEMMA InsertStands ==
  ASSUME StandInv, NEW t \in Transactions, InsertSummary(t)
  PROVE  Standing'
<1> DEFINE v == tx[t]
           p == v.target
           old == View(t, p)
           row == Upserted(old, v)
           cited == {i \in {<<p, Len(row.versions)>>} : v.wanted.meta \in Cited}
           u == AfterUpsert([v EXCEPT !.held = p, !.draft = row, !.claims = cited])
<1>1. /\ v \in Sessions /\ v.wanted \in Materials /\ v.seen \in Nat /\ v.hidden \in BOOLEAN
      /\ p \in Pages /\ p # Topic /\ v.step = "insert"
  BY DEF InsertSummary, StandInv, TurnInv, IInv, TypeOK, Upserting, Sessions
<1>2. /\ tx' = [tx EXCEPT ![t] = u]
      /\ UNCHANGED <<pages, active, verified, overlapped>>
  BY DEF InsertSummary
<1>3. WellFormed(old)
  BY <1>1, RowsWellFormed DEF StandInv, TurnInv
<1> HIDE DEF old
<1>4. /\ Len(row.versions) = Len(old.versions) + 1
      /\ Len(row.versions) \in DOMAIN row.versions
      /\ row.versions[Len(row.versions)].meta = v.wanted.meta
  BY <1>1, <1>3, UpsertedRow, UpsertedVersions DEF MadeFrom
<1> HIDE DEF row
<1>5. u.step = "sources" /\ u.held = p /\ u.draft = row /\ u.claims = cited
  BY <1>1 DEF AfterUpsert, Idle, Sessions
<1>6. ~overlapped => v.wanted.meta = active[p]
  BY <1>1 DEF StandInv, Standing, StandsInTurn
<1> HIDE DEF u
<1>7. ~overlapped => StandsInTurn(u)
  BY <1>4, <1>5, <1>6 DEF StandsInTurn, Stands, SeenBy
<1> QED
  BY <1>2, <1>7, StepStands

\* A user's change: only a revert copies claims, and their trust with them.
LEMMA ChangesStand ==
  ASSUME StandInv, NEW t \in Transactions, NEW p \in Pages, NEW row, NEW claims,
         Change(t, p, row, claims),
         ~overlapped => \A i \in claims : i[1] = p /\ Stands(row, i)
  PROVE  Standing'
<1> DEFINE u == [tx[t] EXCEPT !.step = "sources", !.held = p, !.draft = row,
                              !.claims = claims]
<1>1. tx[t] \in Sessions
  BY DEF StandInv, TurnInv, IInv, TypeOK
<1>2. u.step = "sources" /\ u.held = p /\ u.draft = row /\ u.claims = claims
  BY <1>1 DEF Sessions
<1>3. /\ tx' = [tx EXCEPT ![t] = u]
      /\ UNCHANGED <<pages, active, verified, overlapped>>
  BY <1>1 DEF Change, StandInv, TurnInv, IInv, TypeOK, Sessions
<1> HIDE DEF u
<1>4. ~overlapped => StandsInTurn(u)
  BY <1>2 DEF StandsInTurn, SeenBy
<1> QED
  BY <1>3, <1>4, StepStands

LEMMA RevertStands ==
  ASSUME StandInv, NEW t \in Transactions, NEW p \in Pages,
         NEW i \in DOMAIN pages[p].versions, RevertPage(t, p, i)
  PROVE  Standing'
<1> DEFINE row == pages[p]
           content == row.versions[i].content
           meta == row.versions[i].meta
           last == [content |-> content, meta |-> meta, origin |-> "revert",
                    state |-> "published", base |-> row.current]
           new == NewVersion(row, content, meta, "revert")
           claims == CopiedClaims(p, i, new.current)
<1>1. /\ row \in Rows
      /\ Len(row.versions) \in Nat /\ DOMAIN row.versions = 1 .. Len(row.versions)
  BY RowsWellFormed DEF StandInv, TurnInv, WellFormed, Rows
<1>2. Change(t, p, new, claims)
  BY DEF RevertPage
<1>3. new.versions = Append(row.versions, last) /\ new.current = Len(row.versions) + 1
  BY <1>1 DEF NewVersion, Rows
<1>4. last.meta = meta
  OBVIOUS
<1> HIDE DEF new, last
<1>5. new.current \in DOMAIN new.versions /\ new.versions[new.current].meta = meta
  BY <1>1, <1>3, <1>4 DEF Rows
<1>6. ~overlapped /\ <<p, i>> \in verified => meta = active[p]
  BY DEF StandInv, Standing, Stands
<1> HIDE DEF meta
<1>7. ~overlapped => \A c \in claims : c[1] = p /\ Stands(new, c)
  BY <1>5, <1>6 DEF Stands, CopiedClaims
<1> QED
  BY <1>2, <1>7, ChangesStand

\* A change of a document, and what it leaves.
LEMMA DocumentStands ==
  ASSUME StandInv, NEW t \in Transactions, CommitDocument(t)
  PROVE  Standing'
<1>1. /\ \A v \in Transactions : tx'[v] = IF v = t THEN Idle ELSE tx[v]
      /\ pages' = pages
      /\ active' = [active EXCEPT ![tx[t].target] = tx[t].next]
      /\ verified' = verified \ tx[t].distrusted
      /\ overlapped' = (overlapped \/ \E u \in Transactions \ {t} : tx[u].step # "idle")
      /\ tx[t].step = "changed"
  BY DEF StandInv, TurnInv, IInv, TypeOK, CommitDocument, End
<1>2. ASSUME ~overlapped', NEW i \in verified' PROVE (Stands(pages[i[1]], i))'
  <2>1. i \in verified /\ i \notin tx[t].distrusted /\ i[1] \in Summaries
    BY <1>1, <1>2 DEF StandInv, TurnInv, IInv, TypeOK, Items
  <2>2. tx[t].distrusted = Invalidated(tx[t].target)
    BY <1>1, <1>2 DEF StandInv, Standing, StandsInTurn
  <2>3. active'[i[1]] = active[i[1]]
    BY <1>1, <2>1, <2>2 DEF StandInv, TurnInv, IInv, TypeOK, Invalidated
  <2>4. Stands(pages[i[1]], i)
    BY <1>1, <1>2, <2>1 DEF StandInv, Standing
  <2> QED
    BY <1>1, <2>3, <2>4 DEF Stands
<1>3. ASSUME ~overlapped', NEW v \in Transactions PROVE (StandsInTurn(tx[v]))'
  <2>1. tx'[v].step = "idle" /\ tx'[v].claims = {}
    <3>1. CASE v = t
      BY <1>1, <3>1 DEF Idle
    <3>2. CASE v # t
      BY <1>1, <1>3, <3>2 DEF StandInv, TurnInv, Turn, ReadsInTurn
    <3> QED
      BY <3>1, <3>2
  <2> QED
    BY <2>1 DEF StandsInTurn
<1> QED
  BY <1>2, <1>3 DEF Standing

\* Every step keeps verified claims on active versions.
LEMMA NextStands ==
  ASSUME StandInv, [Next]_vars
  PROVE  StandInv'
<1>1. ASSUME NEW t \in Transactions, InsertSummary(t) \/ CommitDocument(t) PROVE Standing'
  BY <1>1, InsertStands, DocumentStands
<1>2. ASSUME NEW t \in Transactions, NEW p \in Pages, EditPage(t, p) PROVE Standing'
  <2>1. PICK row : Change(t, p, row, {})
    BY <1>2 DEF EditPage
  <2> QED
    BY <2>1, ChangesStand
<1>3. ASSUME NEW t \in Transactions, NEW p \in Pages, NEW i \in DOMAIN pages[p].versions,
             RevertPage(t, p, i) \/ PublishCandidate(t, p, i) \/ RejectCandidate(t, p, i)
      PROVE  Standing'
  <2>1. CASE PublishCandidate(t, p, i)
    <3>1. PICK row : Change(t, p, row, {})
      BY <2>1 DEF PublishCandidate
    <3> QED
      BY <3>1, ChangesStand
  <2> QED
    BY <1>3, <2>1, RevertStands, CommitsStand
<1>4. ASSUME NEW t \in Transactions, CommitTopic(t) \/ KeepTopic(t) \/ RetireTopic(t)
      PROVE  Standing'
  BY <1>4, CommitsStand
<1>5. ASSUME NEW t \in Transactions,
             \/ \E s \in Summaries, g \in Generations : Publish(t, s, g)
             \/ \E s \in Summaries, g \in Generations \cup {None} : ChangeDocument(t, s, g)
             \/ ReadPage(t) \/ ReadNumber(t) \/ ReadSources(t)
             \/ \E i \in tx[t].unread : ReadClaims(t, i)
      PROVE  Standing'
  BY <1>5, StatementsStand
<1>6. ASSUME NEW t \in Transactions, Abort(t) PROVE Standing'
  <2>1. /\ tx' = [tx EXCEPT ![t] = Idle]
        /\ UNCHANGED <<pages, active, verified, overlapped>>
    BY <1>6 DEF Abort
  <2>2. StandsInTurn(Idle)
    BY DEF StandsInTurn, Idle
  <2> QED
    BY <2>1, <2>2, StepStands
<1>7. ASSUME UNCHANGED vars PROVE Standing'
  <2>1. UNCHANGED <<pages, active, verified, tx, overlapped>>
    BY <1>7 DEF vars
  <2> QED
    BY <2>1 DEF StandInv, Standing, StandsInTurn, Stands, SeenBy, Invalidated
<1>8. Standing'
  BY <1>1, <1>2, <1>3, <1>4, <1>5, <1>6, <1>7 DEF Next
<1>9. TurnInv'
  BY NextInTurn DEF StandInv
<1> QED
  BY <1>8, <1>9 DEF StandInv

\* As long as no two transactions overlapped, a claim is verified only on the
\* active version of its document, as invalidate_document_claims means it:
\* a revert copies the trust of the claims with them, and a publication gives
\* it to the version that is active.
THEOREM VerifiedClaimsStand == Spec => []VerifiedInTurn
<1>1. Init => StandInv
  <2>1. Init => Standing
    BY DEF Init, Standing, StandsInTurn, Idle
  <2> QED
    BY <2>1, InitInTurn DEF StandInv
<1>2. StandInv /\ [Next]_vars => StandInv'
  BY NextStands
<1>3. StandInv => VerifiedInTurn
  BY DEF StandInv, Standing, Stands, VerifiedInTurn, VerifiedIsActive
<1> QED
  BY <1>1, <1>2, <1>3, PTL DEF Spec
=============================================================================
