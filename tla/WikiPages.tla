----------------------------- MODULE WikiPages -----------------------------
(***************************************************************************)
(* The pages of one wiki: the summary of each document, and the page of a  *)
(* topic that summaries of several documents share.  The pipeline (wiki/   *)
(* processor.py) and the users (wiki/service.py) write the same pages in   *)
(* transactions of PostgreSQL that run READ COMMITTED: a statement reads   *)
(* what is committed when it runs, and what its own transaction wrote.     *)
(* The actions between the start and the commit of a transaction are its   *)
(* statements.                                                             *)
(*                                                                         *)
(* Locks: a user's transaction locks its page FOR UPDATE; one that has     *)
(* inserted a version of a page holds FOR KEY SHARE on it, which conflicts *)
(* with FOR UPDATE.  Either way the transaction "holds" the page, and      *)
(* others wait.  The row of wiki_configs, locked FOR UPDATE, serialises    *)
(* the pipeline, and (page_id, version_no) is unique.                      *)
(*                                                                         *)
(* Abstractions: one topic, which a generation mentions or not; contents   *)
(* are what they were made from; the claims of a version of a summary are  *)
(* verified or not, all together; everything users write is Manual;        *)
(* titles, aliases and the index page are left out.                        *)
(***************************************************************************)
EXTENDS Naturals, Sequences, FiniteSets

CONSTANTS
  Summaries,     \* summary pages, one for each document
  Topic,         \* the page of the topic
  Generations,   \* checkpoints of the generator, one for each document version
  Topical,       \* those that name the topic
  Cited,         \* those with a claim that cites the topic's chunks
  Manual,        \* the content of a version written by a user
  Transactions,  \* database sessions of the worker and of the API
  None,          \* no page, no document version
  MaxChanges     \* bound on edits, reverts, reviews and changes of documents

ASSUME PagesAssumption ==
  /\ IsFiniteSet(Summaries)
  /\ Topic \notin Summaries
  /\ None \notin Summaries \cup {Topic}
  /\ Cited \subseteq Topical /\ Topical \subseteq Generations
  /\ None \notin Generations
  /\ MaxChanges \in Nat

VARIABLES
  pages,      \* pages[p]: the committed rows of wiki_pages and its versions
  active,     \* active[s]: the document's active version; None once it is deleted
  verified,   \* versions of summaries with verified claims that cite the topic
  tx,         \* tx[t]: what transaction t has read and written
  changes,    \* how many changes have been begun
  outdated,   \* history: claims of current summaries have lost their trust
              \* since the topic was rebuilt
  overlapped  \* history: some transaction committed while another one ran

vars == <<pages, active, verified, tx, changes, outdated, overlapped>>
-----------------------------------------------------------------------------
Pages == Summaries \cup {Topic}

\* What the topic page is made from: versions of summaries that name it.
Items == Summaries \X Nat
Sources == Generations \cup SUBSET Items

\* A version of the topic page has sentences of some items, and names all.
Materials == [content : Sources, meta : Sources]

Versions ==
  [content : Sources \cup {Manual},
   meta    : Sources,                         \* generation_metadata
   origin  : {"pipeline", "user", "revert"},
   state   : {"published", "pending_review", "rejected", "superseded"},
   base    : Nat]                             \* base_published_version_id

\* A version is named by its version_no.  A page without versions is not
\* there yet: a page and its first version are inserted together.
Rows == [versions : Seq(Versions), current : Nat, deleted : BOOLEAN]

NoRow == [versions |-> <<>>, current |-> 0, deleted |-> FALSE]

Steps ==
  {"idle", "page", "number", "insert", "sources", "claims", "kept", "retire", "changed"}

Sessions ==
  [step : Steps, pipeline : BOOLEAN, held : Pages \cup {None}, draft : Rows,
   claims : SUBSET Items, target : Pages \cup {None}, wanted : Materials,
   unread : SUBSET Items, seen : Nat, hidden : BOOLEAN, number : Nat,
   candidates : SUBSET Nat, distrusted : SUBSET Items,
   next : Generations \cup {None}]

Nothing == [content |-> {}, meta |-> {}]

Idle ==
  [step       |-> "idle",
   pipeline   |-> FALSE,   \* holds the lock on wiki_configs
   held       |-> None,    \* the page it holds
   draft      |-> NoRow,   \* its uncommitted row of that page
   claims     |-> {},      \* versions of its own whose claims are verified
   target     |-> None,    \* _upsert_page: the page (or the document changed),
   wanted     |-> Nothing, \*   what it is to be made from,
   unread     |-> {},      \*   versions whose claims are still to be read,
   seen       |-> 0,       \*   current_version_id as read,
   hidden     |-> FALSE,   \*   was deleted_at set when read?
   number     |-> 0,       \*   version_no of the new version,
   candidates |-> {},      \*   the candidates it supersedes
   distrusted |-> {},      \* versions whose claims it has invalidated
   next       |-> None]    \* the active version it sets

\* The wiki may be switched on when documents have versions already.
Init ==
  /\ pages = [p \in Pages |-> NoRow]
  /\ active \in [Summaries -> Generations \cup {None}]
  /\ verified = {}
  /\ tx = [t \in Transactions |-> Idle]
  /\ changes = 0
  /\ outdated = FALSE
  /\ overlapped = FALSE
-----------------------------------------------------------------------------
(* What a transaction reads, and how it waits.                             *)

View(t, p) == IF tx[t].held = p THEN tx[t].draft ELSE pages[p]

\* The versions of summaries whose claims t sees verified.
Trusted(t) == verified \cup tx[t].claims

\* Mutant: pages are not locked.
FreeAnyway(t, p) == TRUE

\* No other transaction has locked p, or has inserted a version of it.
Free(t, p) == \A u \in Transactions \ {t} : tx[u].held # p

ByUser(row, i) == i # 0 /\ row.versions[i].origin \in {"user", "revert"}

Candidates(row) ==
  {i \in DOMAIN row.versions : row.versions[i].state = "pending_review"}

End(t) ==
  /\ tx' = [tx EXCEPT ![t] = Idle]
  /\ overlapped' = (overlapped \/ \E u \in Transactions \ {t} : tx[u].step # "idle")

Commit(t, rows) ==
  /\ pages' = rows
  /\ verified' = verified \cup tx[t].claims
  /\ End(t)
  /\ UNCHANGED active

Rebuilt == outdated' = FALSE

\* The rows as they are when t commits.
Written(t) == [p \in Pages |-> View(t, p)]
-----------------------------------------------------------------------------
(* _upsert_page, as the pipeline calls it for a summary and everyone calls *)
(* it for the topic.                                                       *)

Upsert(u, p, material) ==
  [u EXCEPT !.step = "page", !.target = p, !.wanted = material]

AfterUpsert(u) ==
  [Idle EXCEPT !.step = "sources", !.pipeline = u.pipeline,
               !.held = u.held, !.draft = u.draft, !.claims = u.claims]

MadeFrom(version, material) ==
  version.content = material.content /\ version.meta = material.meta

\* The page has this content already: no version is made, and no candidate is
\* superseded.
UpToDate(row, material) ==
  row.current # 0 /\ MadeFrom(row.versions[row.current], material)

ReadPage(t) ==
  LET u == tx[t]
      row == View(t, u.target)
      read == [u EXCEPT !.seen = row.current, !.hidden = row.deleted]
  IN /\ u.step = "page"
     /\ tx' = [tx EXCEPT ![t] =
                 IF ~UpToDate(row, u.wanted) THEN [read EXCEPT !.step = "number"]
                 ELSE IF u.target = Topic THEN [read EXCEPT !.step = "kept"]
                 ELSE AfterUpsert(u)]
     /\ UNCHANGED <<pages, active, verified, changes, outdated, overlapped>>

\* Mutant: the candidates are selected without their review_state.
ReadNumberOnly(t) ==
  LET u == tx[t]
      row == View(t, u.target)
  IN /\ u.step = "number"
     /\ tx' = [tx EXCEPT ![t].step = "insert",
                         ![t].number = Len(row.versions) + 1,
                         ![t].candidates =
                            IF ByUser(row, u.seen) THEN DOMAIN row.versions ELSE {}]
     /\ UNCHANGED <<pages, active, verified, changes, outdated, overlapped>>

\* The highest version_no and the candidates are read after the page.
ReadNumber(t) ==
  LET u == tx[t]
      row == View(t, u.target)
  IN /\ u.step = "number"
     /\ tx' = [tx EXCEPT ![t].step = "insert",
                         ![t].number = Len(row.versions) + 1,
                         ![t].candidates =
                            IF ByUser(row, u.seen) THEN Candidates(row) ELSE {}]
     /\ UNCHANGED <<pages, active, verified, changes, outdated, overlapped>>

\* Mutant: (page_id, version_no) is not unique.
NumberTaken(t) == TRUE

\* Nobody inserted a version with this number meanwhile.
NumberFree(t) == tx[t].number = Len(View(t, tx[t].target).versions) + 1

Superseding(versions, C) ==
  [i \in DOMAIN versions |->
     IF i \in C THEN [versions[i] EXCEPT !.state = "superseded"] ELSE versions[i]]

\* Mutant: a revert does not count as a change by a user.
RevertsForgotten(row, u) ==
  LET pending == u.seen # 0 /\ row.versions[u.seen].origin = "user"
      new == [content |-> u.wanted.content, meta |-> u.wanted.meta, origin |-> "pipeline",
              state |-> IF pending THEN "pending_review" ELSE "published",
              base |-> u.seen]
  IN [versions |-> Append(Superseding(row.versions, u.candidates), new),
      current |-> IF pending THEN row.current ELSE Len(row.versions) + 1,
      deleted |-> row.deleted /\ ~u.hidden]

\* A page whose current version, as read, is a user's gets a candidate; any
\* other page gets a new current version.
Upserted(row, u) ==
  LET pending == ByUser(row, u.seen)
      new == [content |-> u.wanted.content, meta |-> u.wanted.meta, origin |-> "pipeline",
              state |-> IF pending THEN "pending_review" ELSE "published",
              base |-> u.seen]
  IN [versions |-> Append(Superseding(row.versions, u.candidates), new),
      current |-> IF pending THEN row.current ELSE Len(row.versions) + 1,
      deleted |-> row.deleted /\ ~u.hidden]

InsertSummary(t) ==
  LET u == tx[t]
      row == Upserted(View(t, u.target), u)
      cited == {i \in {<<u.target, Len(row.versions)>>} : u.wanted.meta \in Cited}
  IN /\ u.step = "insert"
     /\ u.target # Topic
     /\ Free(t, u.target)
     /\ NumberFree(t)
     /\ tx' = [tx EXCEPT ![t] =
                 AfterUpsert([u EXCEPT !.held = u.target, !.draft = row,
                                       !.claims = cited])]
     /\ UNCHANGED <<pages, active, verified, changes, outdated, overlapped>>
-----------------------------------------------------------------------------
(* _rebuild_topic_pages, the end of every transaction but a rejection.     *)

\* The current versions of summaries that name the topic.
Naming(rows) ==
  {i \in {<<s, rows[s].current>> : s \in {x \in Summaries : rows[x].current # 0}} :
     rows[i[1]].versions[i[2]].meta \in Topical}

\* A topic needs two documents, and a verified claim that cites its chunks.
Supported(items, trusted) ==
  /\ Cardinality(items) >= 2
  /\ items \cap trusted # {}

ReadSources(t) ==
  LET items == Naming(Written(t))
  IN /\ tx[t].step = "sources"
     /\ tx' = [tx EXCEPT ![t] =
                 IF Cardinality(items) >= 2
                 THEN [tx[t] EXCEPT !.step = "claims", !.unread = items,
                                    !.wanted = [content |-> {}, meta |-> items]]
                 ELSE [tx[t] EXCEPT !.step = "retire"]]
     /\ UNCHANGED <<pages, active, verified, changes, outdated, overlapped>>

\* One statement for each version, in the order the sources were listed in.
ReadClaims(t, i) ==
  LET u == tx[t]
      read == [u EXCEPT !.unread = @ \ {i},
                        !.wanted.content = @ \cup ({i} \cap Trusted(t))]
  IN /\ u.step = "claims"
     /\ i \in u.unread
     /\ tx' = [tx EXCEPT ![t] =
                 IF read.unread # {} THEN read
                 ELSE IF read.wanted.content = {} THEN [read EXCEPT !.step = "retire"]
                 ELSE Upsert(read, Topic, read.wanted)]
     /\ UNCHANGED <<pages, active, verified, changes, outdated, overlapped>>

CommitTopic(t) ==
  /\ tx[t].step = "insert"
  /\ tx[t].target = Topic
  /\ Free(t, Topic)
  /\ NumberFree(t)
  /\ Commit(t, [Written(t) EXCEPT ![Topic] = Upserted(View(t, Topic), tx[t])])
  /\ Rebuilt
  /\ UNCHANGED changes

\* The topic page is as it should be, or is only taken out of deletion.
KeepTopic(t) ==
  /\ tx[t].step = "kept"
  /\ tx[t].hidden => Free(t, Topic)
  /\ Commit(t, [Written(t) EXCEPT ![Topic].deleted = @ /\ ~tx[t].hidden])
  /\ Rebuilt
  /\ UNCHANGED changes

RetireTopic(t) ==
  LET row == View(t, Topic)
      stale == row.current # 0 /\ ~row.deleted
  IN /\ tx[t].step = "retire"
     /\ stale => Free(t, Topic)
     /\ Commit(t, [Written(t) EXCEPT ![Topic].deleted = @ \/ stale])
     /\ Rebuilt
     /\ UNCHANGED changes
-----------------------------------------------------------------------------
(* The pipeline publishes the summary of an active document version.       *)

\* Each document version is generated and published once.
Unpublished(s, g) ==
  \A i \in DOMAIN pages[s].versions :
    pages[s].versions[i].origin = "pipeline" => pages[s].versions[i].meta # g

Publish(t, s, g) ==
  /\ tx[t].step = "idle"
  /\ \A u \in Transactions : ~tx[u].pipeline
  /\ active[s] = g
  /\ Unpublished(s, g)
  /\ tx' = [tx EXCEPT ![t] = [Upsert(tx[t], s, [content |-> g, meta |-> g])
                                EXCEPT !.pipeline = TRUE]]
  /\ UNCHANGED <<pages, active, verified, changes, outdated, overlapped>>
-----------------------------------------------------------------------------
(* A version of a document is activated, or the document is deleted.  Its  *)
(* row is locked, and the claims of its summary that are verified now lose *)
(* their trust.  The topic is not rebuilt.                                 *)

Counted == changes < MaxChanges /\ changes' = changes + 1

\* invalidate_document_claims
Invalidated(s) == {i \in verified : i[1] = s}

ChangeDocument(t, s, g) ==
  /\ tx[t].step = "idle"
  /\ g # active[s]
  /\ \A u \in Transactions : tx[u].step = "changed" => tx[u].target # s
  /\ Counted
  /\ tx' = [tx EXCEPT ![t].step = "changed", ![t].target = s, ![t].next = g,
                      ![t].distrusted = Invalidated(s)]
  /\ UNCHANGED <<pages, active, verified, outdated, overlapped>>

CommitDocument(t) ==
  /\ tx[t].step = "changed"
  /\ active' = [active EXCEPT ![tx[t].target] = tx[t].next]
  /\ verified' = verified \ tx[t].distrusted
  /\ outdated' = (outdated \/ Naming(pages) \cap tx[t].distrusted # {})
  /\ End(t)
  /\ UNCHANGED <<pages, changes>>
-----------------------------------------------------------------------------
(* Users.  The page is locked first, and the version the user has seen     *)
(* must still be current: otherwise the answer is 409 and nothing changes. *)

Open(t, p) ==
  /\ tx[t].step = "idle"
  /\ pages[p].current # 0
  /\ ~pages[p].deleted
  /\ Free(t, p)
  /\ Counted

Change(t, p, row, claims) ==
  /\ tx' = [tx EXCEPT ![t].step = "sources", ![t].held = p, ![t].draft = row,
                      ![t].claims = claims]
  /\ UNCHANGED <<pages, active, verified, outdated, overlapped>>

NewVersion(row, content, meta, origin) ==
  [row EXCEPT
     !.versions = Append(@, [content |-> content, meta |-> meta, origin |-> origin,
                             state |-> "published", base |-> row.current]),
     !.current = Len(row.versions) + 1]

EditPage(t, p) ==
  LET row == pages[p]
  IN /\ Open(t, p)
     /\ Change(t, p, NewVersion(row, Manual, row.versions[row.current].meta, "user"), {})

\* _copy_claims, from version i to version n: they keep the trust they have.
CopiedClaims(p, i, n) == {c \in {<<p, n>>} : <<p, i>> \in verified}

RevertPage(t, p, i) ==
  LET row == pages[p]
      new == NewVersion(row, row.versions[i].content, row.versions[i].meta, "revert")
  IN /\ Open(t, p)
     /\ i \in DOMAIN row.versions \ {row.current}
     /\ Change(t, p, new, CopiedClaims(p, i, new.current))

Reviewable(row, i) == i \in Candidates(row) /\ row.versions[i].base = row.current

\* Mutant: a published candidate does not rebuild the topic.
PublishOnly(t, p, i) ==
  /\ Open(t, p)
  /\ Reviewable(pages[p], i)
  /\ Commit(t, [pages EXCEPT ![p].versions[i].state = "published", ![p].current = i])
  /\ UNCHANGED outdated

PublishCandidate(t, p, i) ==
  LET row == pages[p]
  IN /\ Open(t, p)
     /\ Reviewable(row, i)
     /\ Change(t, p, [row EXCEPT !.versions[i].state = "published", !.current = i], {})

\* A rejection commits at once: the topic is not rebuilt.
RejectCandidate(t, p, i) ==
  /\ Open(t, p)
  /\ Reviewable(pages[p], i)
  /\ Commit(t, [pages EXCEPT ![p].versions[i].state = "rejected"])
  /\ UNCHANGED outdated
-----------------------------------------------------------------------------
\* A lost connection, a violated constraint, or the victim of a deadlock.
Abort(t) ==
  /\ tx[t].step # "idle"
  /\ tx' = [tx EXCEPT ![t] = Idle]
  /\ UNCHANGED <<pages, active, verified, changes, outdated, overlapped>>

Next ==
  \E t \in Transactions :
    \/ \E s \in Summaries, g \in Generations : Publish(t, s, g)
    \/ \E s \in Summaries, g \in Generations \cup {None} : ChangeDocument(t, s, g)
    \/ CommitDocument(t)
    \/ \E p \in Pages : EditPage(t, p)
    \/ \E p \in Pages : \E i \in DOMAIN pages[p].versions :
         \/ RevertPage(t, p, i)
         \/ PublishCandidate(t, p, i)
         \/ RejectCandidate(t, p, i)
    \/ ReadPage(t)
    \/ ReadNumber(t)
    \/ InsertSummary(t)
    \/ ReadSources(t)
    \/ \E i \in tx[t].unread : ReadClaims(t, i)
    \/ CommitTopic(t)
    \/ KeepTopic(t)
    \/ RetireTopic(t)
    \/ Abort(t)

Spec == Init /\ [][Next]_vars
-----------------------------------------------------------------------------
\* Rows, and what transactions hold of them, have their types; a current
\* version exists.
TypeOK ==
  /\ pages \in [Pages -> Rows]
  /\ tx \in [Transactions -> Sessions]
  /\ \A p \in Pages : pages[p].current \in 0 .. Len(pages[p].versions)
  /\ \A t \in Transactions : tx[t].draft.current \in 0 .. Len(tx[t].draft.versions)
  /\ active \in [Summaries -> Generations \cup {None}]
  /\ verified \subseteq Items
  /\ changes \in 0 .. MaxChanges
  /\ outdated \in BOOLEAN
  /\ overlapped \in BOOLEAN

\* A page has one version under review, also when the pipeline and a user's
\* transaction both rebuild the topic page: the unique version_no lets only
\* one of them add a candidate, and the next one supersedes it.
OneCandidate == \A p \in Pages : Cardinality(Candidates(pages[p])) <= 1

Current(row) == row.versions[row.current]

\* The version made from the material is current, or was laid before the users
\* who wrote the page; then no other version can be published in a review.
Offered(row, material) ==
  \/ UpToDate(row, material)
  \/ /\ ByUser(row, row.current)
     /\ \E i \in DOMAIN row.versions :
          /\ MadeFrom(row.versions[i], material)
          /\ row.versions[i].base = row.current
          /\ row.versions[i].state \in {"pending_review", "rejected"}
     /\ \A i \in DOMAIN row.versions :
          Reviewable(row, i) => MadeFrom(row.versions[i], material)

\* What a rebuild makes of the pages and claims as they are.
Due == [content |-> Naming(pages) \cap verified, meta |-> Naming(pages)]

\* The topic is shown exactly if two summaries name it and a verified claim
\* supports it, as the current summaries and their verified claims make it or
\* with that update offered.  (Does not hold as it stands.)
TopicIsCurrent ==
  LET row == pages[Topic]
  IN IF Supported(Naming(pages), verified) THEN ~row.deleted /\ Offered(row, Due)
                                           ELSE row.current = 0 \/ row.deleted

\* As long as no two transactions overlapped, every edit, revert, review and
\* publication of either page leaves the topic as the current summaries and
\* their verified claims make it, until a change of a document takes claims
\* away; then the next of them does.
TopicFollowsSummaries == ~overlapped /\ ~outdated => TopicIsCurrent

\* The same when a document has changed.  (Does not hold.)
TopicFollowsClaims == ~overlapped => TopicIsCurrent

\* Verified claims stand on the active version of their document: they lose
\* their trust before it stops being active, says jobs.py:63.
VerifiedIsActive == \A i \in verified : pages[i[1]].versions[i[2]].meta = active[i[1]]

\* It holds as long as no two transactions overlapped.
VerifiedInTurn == ~overlapped => VerifiedIsActive

\* A candidate can be published or rejected.  (Does not hold.)
CandidatesCanBeDecided ==
  \A p \in Pages : \A i \in Candidates(pages[p]) : Reviewable(pages[p], i)

\* A candidate of the topic that a user can publish is made from the current
\* summaries, whose claims still have their trust: old candidates are marked
\* superseded, the design says, so that nobody reviews outdated content.  (Does
\* not hold.)
CandidatesAreFresh ==
  ~outdated /\ ~pages[Topic].deleted =>
    \A i \in Candidates(pages[Topic]) :
      Reviewable(pages[Topic], i) => MadeFrom(pages[Topic].versions[i], Due)

\* An edit, a revert or a reviewed candidate replaces the version its author
\* had before them, whatever the pipeline does meanwhile: the page is locked
\* from the comparison with base_version to the commit.
ChangesReplaceTheirBase ==
  [][\A p \in Pages :
       LET new == Current(pages'[p])
           reviewed == pages'[p].current \in DOMAIN pages[p].versions
       IN /\ pages'[p].current # pages[p].current
          /\ reviewed \/ new.origin # "pipeline"
          => new.base = pages[p].current]_vars

\* A review is decided once.  Only an overlapping _upsert_page, which read the
\* candidate before the decision, may still mark it superseded.
ReviewsAreFinal ==
  [][\A p \in Pages : \A i \in DOMAIN pages[p].versions :
       LET before == pages[p].versions[i].state
           after == pages'[p].versions[i].state
       IN after # before =>
            \/ before = "pending_review"
            \/ after = "superseded" /\ overlapped']_vars

\* The same whatever overlaps.  (Does not hold.)
ReviewsStand ==
  [][\A p \in Pages : \A i \in DOMAIN pages[p].versions :
       pages'[p].versions[i].state # pages[p].versions[i].state =>
         pages[p].versions[i].state = "pending_review"]_vars

\* The pipeline puts another content in place of a user's without a review.
Overwritten(p) ==
  LET old == pages[p]
      new == pages'[p]
  IN /\ new.current # old.current
     /\ ByUser(old, old.current)
     /\ Current(new).origin = "pipeline"
     /\ Current(new).content # Current(old).content
     /\ new.current \notin Candidates(old)

ReviewPublished(p) ==
  \E i \in Candidates(pages[p]) : pages'[p].versions[i].state = "published"

\* What users wrote is only replaced by what they reviewed, as long as no two
\* transactions overlapped; but after a document has changed, the rebuild that
\* follows the publication of a candidate of the topic may replace it at once.
EditsStandInTurn ==
  [][\A p \in Pages :
       Overwritten(p) => \/ overlapped'
                         \/ p = Topic /\ outdated /\ ReviewPublished(p)]_vars

\* The same when a document has changed.  (Does not hold.)
EditsStandAlone == [][\A p \in Pages : Overwritten(p) => overlapped']_vars

\* The same whatever overlaps, as rule 4 of REQ-006 says: the published
\* version is kept until a user confirms the update.
EditsStand == [][\A p \in Pages : ~Overwritten(p)]_vars
=============================================================================
