------------------------------- MODULE Retrieval -------------------------------
(***************************************************************************)
(* The tool calls of one chat turn: what they read from the database while *)
(* versions are switched, documents deleted, wiki pages replaced and       *)
(* knowledge bases switched off, how they number the sources they found,   *)
(* and how the agent shows the client sources and text                     *)
(* (application/retrieval.py, wiki/retrieval.py, tools/readonly.py and     *)
(* llm/agent.py).                                                          *)
(*                                                                         *)
(* An action is one statement of the database (READ COMMITTED), one await  *)
(* on another service, or what happens between two awaits.  The calls of a *)
(* round run at the same time; the model goes on when all have returned.   *)
(* Scores, excerpts and limits on their length are left out: an index may  *)
(* find, and a ranking may choose, anything in any order.                  *)
(***************************************************************************)
EXTENDS Naturals, Sequences, FiniteSets, SequencesExt, FiniteSetsExt

CONSTANTS
  Bases,       \* knowledge bases
  Scope,       \* scope_ids of the turn
  Documents,
  BaseOf,      \* documents.knowledge_base_id
  MaxVersions, \* bound on the versions of a document
  Pages,       \* wiki pages
  PageBaseOf,  \* wiki_pages.knowledge_base_id
  Claims,      \* wiki claims: [page, version, sources]
  Calls,       \* tool calls of the turn
  MaxSources,  \* sources of a turn (8 in the code)
  MaxChanges   \* bound on changes of the database during the turn

Versions == 1..MaxVersions
Chunks == [doc : Documents, version : Versions, kind : {"parent", "child"}]

ASSUME BoundsAssumption == {MaxVersions, MaxSources} \subseteq Nat \ {0} /\ MaxChanges \in Nat
\* A database holds finitely many rows.
ASSUME FiniteAssumption == IsFiniteSet(Documents) /\ IsFiniteSet(Claims)
ASSUME BaseAssumption ==
  /\ Scope \subseteq Bases
  /\ BaseOf \in [Documents -> Bases] /\ PageBaseOf \in [Pages -> Bases]
ASSUME ClaimsAssumption == Claims \subseteq [page : Pages, version : Versions, sources : SUBSET Chunks]

VARIABLES
  active,    \* documents.active_version_id, 0 before the first
  deleted,   \* documents with deleted_at set
  ready,     \* documents with status ready
  enabled,   \* knowledge bases that are enabled
  wiki,      \* knowledge bases whose wiki is enabled
  current,   \* wiki_pages.current_version_id
  verified,  \* claims with trust_state verified
  changes,   \* changes so far
  call,      \* call[c]: the local state of a tool call
  sources,   \* TurnKnowledgeState.sources: the chunk of each number
  answer,    \* answer[c]: the entries of the call's result
  pieces,    \* what the model writes while no call runs: markers not yet handled
  client,    \* the sources the client has been sent
  shown,     \* the markers the client has been sent
  served,    \* history: served[c]: chunks of active versions, at some moment of c
  open       \* history: open[c]: knowledge bases enabled at some moment of c

databaseVars == <<active, deleted, ready, enabled, wiki, current, verified>>
historyVars == <<served, open>>
turnVars == <<sources, answer, pieces, client, shown>>
vars == <<databaseVars, changes, call, turnVars, historyVars>>
-------------------------------------------------------------------------------
Steps == {"fetch", "match", "context", "metadata", "candidates", "source_pages", "pages",
          "claims", "register", "register_claims"}

\* A call that has not begun.
Idle == [step |-> "idle", scope |-> {}, among |-> {}, found |-> {}, ids |-> {},
         titles |-> {}, claims |-> {}]

Locals == [step : {"idle", "returned"} \cup Steps, scope : SUBSET Scope, among : SUBSET Chunks,
           found : SUBSET Chunks, ids : SUBSET Pages,
           titles : SUBSET (Pages \X Versions),
           claims : SUBSET [claim : Claims, chunks : SUBSET Chunks]]

\* An entry of a result: a claim of a wiki page, or {} for sources alone.
Entries == [claim : SUBSET Claims, cites : SUBSET (1..MaxSources)]

TypeOK ==
  /\ active \in [Documents -> 0..MaxVersions]
  /\ deleted \subseteq Documents /\ ready \subseteq Documents
  /\ enabled \subseteq Bases /\ wiki \subseteq Bases
  /\ current \in [Pages -> Versions]
  /\ verified \subseteq Claims
  /\ changes \in 0..MaxChanges
  /\ call \in [Calls -> Locals]
  /\ sources \in Seq(Chunks) /\ Len(sources) <= MaxSources
  /\ answer \in [Calls -> SUBSET Entries]
  /\ pieces \subseteq Nat /\ shown \subseteq Nat
  /\ client \in Seq(Chunks)
  /\ served \in [Calls -> SUBSET Chunks]
  /\ open \in [Calls -> SUBSET Bases]

Init ==
  /\ active = [d \in Documents |-> 1]
  /\ deleted = {} /\ ready = Documents
  /\ enabled = Bases /\ wiki = Bases
  /\ current = [p \in Pages |-> 1]
  /\ verified = Claims
  /\ changes = 0
  /\ call = [c \in Calls |-> Idle]
  /\ sources = <<>>
  /\ answer = [c \in Calls |-> {}]
  /\ pieces = {} /\ client = <<>> /\ shown = {}
  /\ served = [c \in Calls |-> {}]
  /\ open = [c \in Calls |-> {}]

Running(c) == call[c].step \in Steps
-------------------------------------------------------------------------------
(* What the statements let through.                                        *)

\* Document.active_version_id == Chunk.document_version_id, deleted_at IS NULL.
Live(chunk) == active[chunk.doc] = chunk.version /\ chunk.doc \notin deleted

InScope(chunk, scope) == BaseOf[chunk.doc] \in scope

\* Mutant: whatever the index finds, of any version.
FetchableAnyVersion(scope) ==
  {chunk \in Chunks : InScope(chunk, scope) /\ BaseOf[chunk.doc] \in enabled
                      /\ chunk.doc \notin deleted}

\* Mutant: knowledge bases that are switched off, too.
FetchableSwitchedOff(scope) == {chunk \in Chunks : Live(chunk) /\ InScope(chunk, scope)}

\* The join of _fetch_sources, and base_query of read.
Fetchable(scope) ==
  {chunk \in Chunks : Live(chunk) /\ InScope(chunk, scope) /\ BaseOf[chunk.doc] \in enabled}

\* The join that a page must pass to be found or shown.
Visible(page, scope) == PageBaseOf[page] \in scope \cap enabled \cap wiki

\* The chunks a claim is supported by now.
Support(claim) ==
  {chunk \in claim.sources : /\ Live(chunk) /\ chunk.doc \in ready
                             /\ BaseOf[chunk.doc] = PageBaseOf[claim.page]}

\* The rows of source_rows: verified claims of current page versions, each with
\* the chunks that support it.
ClaimRows(ids) ==
  {row \in [claim : verified, chunks : SUBSET Chunks] :
     /\ row.claim.page \in ids /\ row.claim.version = current[row.claim.page]
     /\ row.chunks = Support(row.claim) /\ row.chunks # {}}

\* Mutant: the claims of the page, of whatever version.
OfAnyTitle(row, titles) == \E title \in titles : title[1] = row.claim.page

\* item.page_version_id == version.id
OfTitle(row, titles) == <<row.claim.page, row.claim.version>> \in titles
-------------------------------------------------------------------------------
(* The tools.                                                              *)

Goto(c, step, local) == call' = [call EXCEPT ![c] = [local EXCEPT !.step = step]]

\* Of a finished call only the titles are remembered.
Return(c) == Goto(c, "returned", [Idle EXCEPT !.titles = call[c].titles])
Quiet == UNCHANGED <<databaseVars, changes, turnVars, historyVars>>

Start(c, step, scope, among, ids) ==
  call' = [call EXCEPT ![c] = [Idle EXCEPT !.step = step, !.scope = scope,
                                           !.among = among, !.ids = ids]]

\* The calls a model can make: search_knowledge and wiki_search, read_document with
\* a chunk or a document, and wiki_read_page.  A call's scope is within the turn's
\* (_scope).
Begin(c) ==
  /\ call[c].step = "idle" /\ pieces = {}
  /\ \/ \E step \in {"fetch", "metadata"}, scope \in (SUBSET Scope) \ {{}} :
          Start(c, step, scope, {}, {})
     \/ \E chunk \in Chunks : Start(c, "match", Scope, {chunk}, {})
     \/ \E d \in Documents : Start(c, "context", Scope, {chunk \in Chunks : chunk.doc = d}, {})
     \/ \E base \in Scope, page \in Pages : Start(c, "pages", {base}, {}, {page})
  /\ served' = [served EXCEPT ![c] = {chunk \in Chunks : Live(chunk)}]
  /\ open' = [open EXCEPT ![c] = enabled]
  /\ UNCHANGED <<databaseVars, changes, turnVars>>

\* search: whatever the index finds; the reranker is awaited afterwards.
Fetch(c) ==
  /\ call[c].step = "fetch"
  /\ \E hits \in SUBSET {chunk \in Chunks : chunk.kind = "child"} :
       Goto(c, "register", [call[c] EXCEPT !.found = hits \cap Fetchable(call[c].scope)])
  /\ Quiet

\* read, with a chunk: first the chunk itself, then those around it.
Match(c) ==
  LET matched == call[c].among \cap Fetchable(call[c].scope)
      version == {chunk \in Chunks : \E m \in matched : chunk.doc = m.doc /\ chunk.version = m.version}
  IN /\ call[c].step = "match"
     /\ IF matched = {} THEN Return(c) ELSE Goto(c, "context", [call[c] EXCEPT !.among = version])
     /\ Quiet

Context(c) ==
  /\ call[c].step = "context"
  /\ Goto(c, "register",
          [call[c] EXCEPT !.found = {chunk \in call[c].among \cap Fetchable(call[c].scope) :
                                       chunk.kind = "parent"}])
  /\ Quiet

\* _metadata_page_ids: pages whose title, summary, alias or slug fits.
Metadata(c) ==
  /\ call[c].step = "metadata"
  /\ \E ids \in SUBSET {page \in Pages : Visible(page, call[c].scope)} :
       Goto(c, "candidates", [call[c] EXCEPT !.ids = ids])
  /\ Quiet

\* search_candidates; finding nothing stands for its failure, too.
Candidates(c) ==
  /\ call[c].step = "candidates"
  /\ \E hits \in SUBSET {chunk \in Chunks : chunk.kind = "child"} :
       Goto(c, "source_pages", [call[c] EXCEPT !.found = hits \cap Fetchable(call[c].scope)])
  /\ Quiet

\* _source_page_ids, and the fusion of the two channels.
SourcePages(c) ==
  LET pages == {page \in Pages : /\ Visible(page, call[c].scope)
                                 /\ \E row \in ClaimRows({page}) : row.chunks \cap call[c].found # {}}
  IN /\ call[c].step = "source_pages"
     /\ IF call[c].ids \cup pages = {} THEN Return(c)
        ELSE Goto(c, "pages", [call[c] EXCEPT !.ids = @ \cup pages])
     /\ Quiet

\* _hydrate_pages, the first statement: titles of current versions.
HydratePages(c) ==
  /\ call[c].step = "pages"
  /\ Goto(c, "claims",
          [call[c] EXCEPT !.titles = {<<page, current[page]>> :
                                        page \in {p \in call[c].ids : Visible(p, call[c].scope)}}])
  /\ Quiet

\* The third one, and the records made of both.
HydrateClaims(c) ==
  /\ call[c].step = "claims"
  /\ Goto(c, "register_claims",
          [call[c] EXCEPT !.claims = {row \in ClaimRows(call[c].ids) : OfTitle(row, call[c].titles)}])
  /\ Quiet

\* The tool answers "retrieval_unavailable".
Unavailable(c) ==
  /\ Running(c)
  /\ Return(c)
  /\ Quiet
-------------------------------------------------------------------------------
(* TurnKnowledgeState.register                                             *)

\* A new source gets the next number, as long as there is room.
Add(known, chunk) ==
  IF chunk \in ToSet(known) \/ Len(known) = MaxSources THEN known ELSE Append(known, chunk)

Extend(list) ==
  LET known[i \in 0 .. Len(list)] == IF i = 0 THEN sources ELSE Add(known[i - 1], list[i])
  IN known[Len(list)]

\* The numbers returned for a list: up to the first source there is no room for.
Numbers(list, known) ==
  LET kept == Max({n \in 0 .. Len(list) : \A i \in 1..n : list[i] \in ToSet(known)})
  IN {SelectInSeq(known, LAMBDA chunk : chunk = list[i]) : i \in 1..kept}

Register(c) ==
  /\ call[c].step = "register"
  /\ \E list \in SetToAllKPermutations(call[c].found) :
       /\ sources' = Extend(list)
       /\ answer' = [answer EXCEPT ![c] = {[claim |-> {}, cites |-> Numbers(list, sources')]}]
  /\ Return(c)
  /\ UNCHANGED <<databaseVars, changes, pieces, client, shown, historyVars>>

\* The sources of each claim, in some order.
Lists(rows) ==
  {lists \in [DOMAIN rows -> UNION {SetToSeqs(rows[i].chunks) : i \in DOMAIN rows}] :
     \A i \in DOMAIN rows : ToSet(lists[i]) = rows[i].chunks}

\* Claim after claim; one without a registered source is dropped.
RegisterClaims(c) ==
  /\ call[c].step = "register_claims"
  /\ \E rows \in SetToAllKPermutations(call[c].claims) :
       \E lists \in Lists(rows) :
         /\ sources' = Extend(FlattenSeq(lists))
         /\ answer' = [answer EXCEPT ![c] =
              {[claim |-> {rows[i].claim}, cites |-> Numbers(lists[i], sources')] :
                 i \in {j \in DOMAIN rows : Numbers(lists[j], sources') # {}}}]
  /\ Return(c)
  /\ UNCHANGED <<databaseVars, changes, pieces, client, shown, historyVars>>
-------------------------------------------------------------------------------
(* The agent: LangChainAgentStream.stream_events.                          *)

\* The model writes while no tool runs; its text waits to be handled.
Write ==
  /\ pieces = {} /\ \A c \in Calls : ~Running(c)
  /\ pieces' \in (SUBSET (1 .. MaxSources + 1)) \ {{}}
  /\ UNCHANGED <<databaseVars, changes, call, sources, answer, client, shown, historyVars>>

\* An event "sources" lists all sources of the turn.
Publish ==
  /\ Len(sources) > Len(client)
  /\ client' = sources
  /\ UNCHANGED <<databaseVars, changes, call, sources, answer, pieces, shown, historyVars>>

\* Mutant: sources are published when the stream ends.
PublishedLater == TRUE

\* What is new has been published before an item's text is handled.
Published == Len(sources) <= Len(client)

\* The text passes the citation filter.
Show ==
  /\ pieces # {} /\ Published
  /\ shown' = shown \cup (pieces \cap (1 .. Len(sources)))
  /\ pieces' = {}
  /\ UNCHANGED <<databaseVars, changes, call, sources, answer, client, historyVars>>
-------------------------------------------------------------------------------
(* What others do to the database during the turn.                         *)

Change ==
  /\ changes < MaxChanges /\ changes' = changes + 1
  /\ served' = [c \in Calls |-> IF Running(c)
                                THEN served[c] \cup {chunk \in Chunks : Live(chunk)'} ELSE served[c]]
  /\ open' = [c \in Calls |-> IF Running(c) THEN open[c] \cup enabled' ELSE open[c]]
  /\ UNCHANGED <<call, turnVars>>

\* Activation of the next version; the claims there are on the document become
\* stale.
Switch(d) ==
  /\ d \notin deleted /\ active[d] < MaxVersions
  /\ active' = [active EXCEPT ![d] = @ + 1]
  /\ ready' = ready \cup {d}
  /\ verified' = {claim \in verified : claim.version <= current[claim.page]
                                       => \A chunk \in claim.sources : chunk.doc # d}
  /\ UNCHANGED <<deleted, enabled, wiki, current>>

\* A new upload, a reindexing or a deletion has begun.
Unready(d) ==
  /\ d \in ready
  /\ ready' = ready \ {d}
  /\ UNCHANGED <<active, deleted, enabled, wiki, current, verified>>

Delete(d) ==
  /\ d \notin ready \cup deleted
  /\ deleted' = deleted \cup {d}
  /\ UNCHANGED <<active, ready, enabled, wiki, current, verified>>

SetEnabled(base) ==
  /\ enabled' = IF base \in enabled THEN enabled \ {base} ELSE enabled \cup {base}
  /\ UNCHANGED <<active, deleted, ready, wiki, current, verified>>

SetWiki(base) ==
  /\ wiki' = IF base \in wiki THEN wiki \ {base} ELSE wiki \cup {base}
  /\ UNCHANGED <<active, deleted, ready, enabled, current, verified>>

\* A page version is published.
Replace(page) ==
  /\ current[page] < MaxVersions
  /\ current' = [current EXCEPT ![page] = @ + 1]
  /\ UNCHANGED <<active, deleted, ready, enabled, wiki, verified>>

Environment ==
  /\ \/ \E d \in Documents : Switch(d) \/ Unready(d) \/ Delete(d)
     \/ \E base \in Bases : SetEnabled(base) \/ SetWiki(base)
     \/ \E page \in Pages : Replace(page)
  /\ Change

Tool(c) ==
  \/ Begin(c) \/ Unavailable(c)
  \/ Fetch(c) \/ Match(c) \/ Context(c) \/ Register(c)
  \/ Metadata(c) \/ Candidates(c) \/ SourcePages(c)
  \/ HydratePages(c) \/ HydrateClaims(c) \/ RegisterClaims(c)

Agent == Write \/ Publish \/ Show

Next == (\E c \in Calls : Tool(c)) \/ Agent \/ Environment

Spec == Init /\ [][Next]_vars
-------------------------------------------------------------------------------
Cited(c) == UNION {entry.cites : entry \in answer[c]}

\* What a tool cites is a chunk that was being served at some moment of the call:
\* its version active, its document not deleted, its knowledge base within the
\* turn's scope and enabled; not what an old index row or an earlier statement
\* still names (_fetch_sources, read, _hydrate_pages).
SourcesWereServed ==
  \A c \in Calls : \A n \in Cited(c) :
    sources[n] \in served[c] /\ BaseOf[sources[n].doc] \in open[c] \cap Scope

\* One result never mixes two versions of a document, though the index holds both
\* until the clean-up of the old one and a version may be switched between the
\* statements of a call.
OneVersionPerAnswer ==
  \A c \in Calls : \A m, n \in Cited(c) :
    sources[m].doc = sources[n].doc => sources[m].version = sources[n].version

\* The claims shown under a page's title belong to the version the title is of,
\* even if the page was replaced between the statements that read them.
ClaimsMatchTheirPage ==
  \A c \in Calls : \A entry \in answer[c] : \A claim \in entry.claim :
    <<claim.page, claim.version>> \in call[c].titles

\* Every marker the client has seen names a source it has been sent, and always
\* the source that bears this number in the turn, whatever calls run at the same
\* time.
MarkersResolve == shown \subseteq DOMAIN client /\ IsPrefix(client, sources)
=============================================================================
