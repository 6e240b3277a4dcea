---------------------------- MODULE SearchIndex ----------------------------
(***************************************************************************)
(* The two indexes behind guidance search (lib/search.ts,                  *)
(* lib/embeddings.ts).  The FTS rows of a spec are replaced in the turn    *)
(* that commits its text.  Its embeddings follow section by section, each  *)
(* after an answer of the embedding provider, while other handlers release,*)
(* delete and restore specs and administrators change the provider; a      *)
(* handler that lost its provider leaves the rest of its sections alone.   *)
(*                                                                         *)
(* Of the engine only what the indexes see is kept: drafts, stable         *)
(* releases, deletion, restoration and purge.                              *)
(***************************************************************************)
EXTENDS Naturals, Sequences, FiniteSets, FiniteSetsExt, SequencesExt

CONSTANTS
  SpecIds, Contents,
  SectionsOf,     \* splitSections: the sections of a text, in order
  Models,         \* pairs of provider and model
  Handlers,       \* handlers that may await the provider at a time
  MaxChanges,     \* bound on changes of the registry and its settings
  MaxFailures     \* bound on failed calls of the provider

VARIABLES
  specs,        \* table specs
  chunks,       \* table spec_chunks, by spec
  embeddings,   \* table spec_embeddings
  model,        \* settings embedding.provider and embedding.model
  handlers,     \* what is left to embed for each suspended handler
  changes, failures

searchVars == <<specs, chunks, embeddings, model, handlers, changes, failures>>

Section == UNION {ToSet(SectionsOf[c]) : c \in Contents}
NoSpec == [status |-> "absent"]
SpecRow == [status : {"draft", "published"}, deleted : BOOLEAN, content : Contents]
EmbeddingRow == [spec : SpecIds, anchor : {x.anchor : x \in Section}, model : Models,
              text : {x.text : x \in Section}]
Idle == [model |-> "none", todo |-> <<>>]

Live(s) == specs[s] # NoSpec /\ ~specs[s].deleted
Governed(row) == row # NoSpec /\ row.status # "draft" /\ ~row.deleted

\* PRIMARY KEY (spec_id, section_anchor, provider, model)
KeysAreUnique ==
  \A e, f \in embeddings :
    e.spec = f.spec /\ e.anchor = f.anchor /\ e.model = f.model => e = f

SearchTypeOK ==
  /\ specs \in [SpecIds -> SpecRow \cup {NoSpec}]
  /\ chunks \in [SpecIds -> SUBSET Section]
  /\ embeddings \subseteq EmbeddingRow /\ KeysAreUnique
  /\ model \in Models
  /\ \A h \in Handlers :
       \/ handlers[h] = Idle
       \/ /\ handlers[h].model \in Models
          /\ handlers[h].todo \in Seq([spec : SpecIds, section : Section]) \ {<<>>}
  /\ changes \in 0..MaxChanges /\ failures \in 0..MaxFailures

SearchInit ==
  /\ specs = [s \in SpecIds |-> NoSpec]
  /\ chunks = [s \in SpecIds |-> {}]
  /\ embeddings = {}
  /\ model \in Models
  /\ handlers = [h \in Handlers |-> Idle]
  /\ changes = 0 /\ failures = 0

Change == changes < MaxChanges /\ changes' = changes + 1 /\ UNCHANGED failures
-----------------------------------------------------------------------------
(* Indexing.                                                               *)

\* Mutant of Reindexed: the rows of the last text stay.
ReindexedOver(s, content) == [chunks EXCEPT ![s] = @ \cup ToSet(SectionsOf[content])]
\* reindexSpec
Reindexed(s, content) == [chunks EXCEPT ![s] = ToSet(SectionsOf[content])]

\* Mutant of Embedded: any row of the section will do.
EmbeddedOnce(x, m, rows) ==
  \E e \in rows : e.spec = x.spec /\ e.anchor = x.section.anchor /\ e.model = m
\* The row of the section has the hash of its text.
Embedded(x, m, rows) ==
  \E e \in rows : /\ e.spec = x.spec /\ e.anchor = x.section.anchor /\ e.model = m
                  /\ e.text = x.section.text

\* Sections that are embedded are passed over; the handler awaits the first other one.
Awaiting(todo, m, rows) ==
  LET stale == {i \in DOMAIN todo : ~Embedded(todo[i], m, rows)}
  IN  IF stale = {} THEN Idle
      ELSE [model |-> m, todo |-> SubSeq(todo, Min(stale), Len(todo))]

Todo(s, content) ==
  [i \in DOMAIN SectionsOf[content] |-> [spec |-> s, section |-> SectionsOf[content][i]]]

\* INSERT OR REPLACE INTO spec_embeddings
Inserted(x, m) ==
  {e \in embeddings : ~(e.spec = x.spec /\ e.anchor = x.section.anchor /\ e.model = m)}
    \cup {[spec |-> x.spec, anchor |-> x.section.anchor, model |-> m, text |-> x.section.text]}

Suspend(h, todo) ==
  /\ handlers[h] = Idle
  /\ handlers' = [handlers EXCEPT ![h] = Awaiting(todo, model, embeddings)]

\* reindexSpecSearch
Reindex(h, s, content) ==
  /\ chunks' = Reindexed(s, content)
  /\ Suspend(h, Todo(s, content))
  /\ UNCHANGED embeddings

\* The provider answers; the row is written whatever became of the spec meanwhile.
Answer(h) ==
  /\ handlers[h] # Idle
  /\ LET x == Head(handlers[h].todo)
         m == handlers[h].model
     IN  /\ embeddings' = Inserted(x, m)
         /\ handlers' = [handlers EXCEPT ![h] = Awaiting(Tail(@.todo), m, embeddings')]
  /\ UNCHANGED <<specs, chunks, model, changes, failures>>

\* The provider fails: the error is swallowed, or returned by a manual reindex.
Fail(h) ==
  /\ handlers[h] # Idle /\ failures < MaxFailures
  /\ failures' = failures + 1
  /\ handlers' = [handlers EXCEPT ![h] = Idle]
  /\ UNCHANGED <<specs, chunks, embeddings, model, changes>>

\* POST /embeddings/reindex: reindexSemanticAll takes the texts when it starts.
ReindexSemanticAll(h) ==
  /\ \E order \in SetToSeqs({s \in SpecIds : Governed(specs[s])}) :
       Suspend(h, FlattenSeq([i \in DOMAIN order |-> Todo(order[i], specs[order[i]].content)]))
  /\ UNCHANGED <<specs, chunks, embeddings, model, changes, failures>>
-----------------------------------------------------------------------------
(* What the engine does to the indexes.                                    *)

\* POST /specs and PUT /specs/:key write drafts, which are not indexed.
WriteDraft(s, content) ==
  /\ Change
  /\ \/ specs[s] = NoSpec
     \/ Live(s) /\ specs[s].status = "draft"
  /\ specs' = [specs EXCEPT ![s] = [status |-> "draft", deleted |-> FALSE, content |-> content]]
  /\ UNCHANGED <<chunks, embeddings, model, handlers>>

\* A committed stable release: POST /specs/:key/publish, an approval or a promotion.
Released(s, content) ==
  /\ Live(s)
  /\ specs[s].status = "draft" => content = specs[s].content
  /\ specs' = [specs EXCEPT ![s].status = "published", ![s].content = content]

Release(h, s, content) ==
  /\ Change
  /\ Released(s, content)
  /\ Reindex(h, s, content)
  /\ UNCHANGED model

\* DELETE /specs/:id
Delete(s) ==
  /\ Change
  /\ Live(s)
  /\ specs' = [specs EXCEPT ![s].deleted = TRUE]
  /\ chunks' = [chunks EXCEPT ![s] = {}]
  /\ embeddings' = {e \in embeddings : e.spec # s}
  /\ UNCHANGED <<model, handlers>>

\* POST /specs/:id/restore answers without awaiting the embeddings.
Reinstate(h, s) ==
  /\ Change
  /\ specs[s] # NoSpec /\ specs[s].deleted
  /\ specs' = [specs EXCEPT ![s].deleted = FALSE]
  /\ Reindex(h, s, specs[s].content)
  /\ UNCHANGED model

\* POST /specs/purge, fourteen days later: no handler is suspended that long.
Purge(s) ==
  /\ Change
  /\ specs[s] # NoSpec /\ specs[s].deleted
  /\ \A h \in Handlers : \A i \in DOMAIN handlers[h].todo : handlers[h].todo[i].spec # s
  /\ specs' = [specs EXCEPT ![s] = NoSpec]
  /\ chunks' = [chunks EXCEPT ![s] = {}]
  /\ embeddings' = {e \in embeddings : e.spec # s}
  /\ UNCHANGED <<model, handlers>>

\* PUT /embeddings/config; a handler keeps the configuration it started with.
ChangeModel(m) ==
  /\ Change
  /\ model' = m
  /\ UNCHANGED <<specs, chunks, embeddings, handlers>>

\* reindexAll
ReindexedAll(rows) ==
  [s \in SpecIds |-> IF Governed(rows[s]) THEN ToSet(SectionsOf[rows[s].content]) ELSE {}]

\* The process dies, possibly between the commit of a release and its indexing, and
\* is started again: buildApp rebuilds the FTS rows before it serves a request.
Restart ==
  /\ Change
  /\ \/ UNCHANGED specs
     \/ \E s \in SpecIds, content \in Contents : Released(s, content)
  /\ chunks' = ReindexedAll(specs')
  /\ handlers' = [h \in Handlers |-> Idle]
  /\ UNCHANGED <<embeddings, model>>

SearchNext ==
  \/ \E h \in Handlers : Answer(h) \/ Fail(h) \/ ReindexSemanticAll(h)
  \/ \E s \in SpecIds, content \in Contents : WriteDraft(s, content)
  \/ \E h \in Handlers, s \in SpecIds :
       \/ \E content \in Contents : Release(h, s, content)
       \/ Reinstate(h, s)
  \/ \E s \in SpecIds : Delete(s) \/ Purge(s)
  \/ \E m \in Models : ChangeModel(m)
  \/ Restart

\* The provider answers in the end, and an administrator keeps asking for a reindex.
SearchFairness ==
  /\ \A h \in Handlers : WF_searchVars(Answer(h))
  /\ \A h \in Handlers : SF_searchVars(ReindexSemanticAll(h))

SearchSpec == SearchInit /\ [][SearchNext]_searchVars /\ SearchFairness
-----------------------------------------------------------------------------
(* What searches find.                                                     *)

\* searchSpecs: rows joined with the specs that are not deleted.
Found(s) == IF Live(s) THEN chunks[s] ELSE {}

\* semanticSearchSpecs ranks the rows of the configured model only.
SemanticallyFound(s, section) ==
  /\ Live(s)
  /\ \E e \in embeddings : /\ e.spec = s /\ e.model = model
                           /\ e.anchor = section.anchor /\ e.text = section.text

\* Search by terms finds exactly the sections of the governed text of every spec and
\* nothing of a deleted one, at every moment a request can be served, whatever
\* was released, deleted, restored or interrupted.  Drafts are excluded: a restored
\* draft is indexed until the next start.
SearchServesTheHead ==
  \A s \in SpecIds :
    /\ Governed(specs[s]) => Found(s) = ToSet(SectionsOf[specs[s].content])
    /\ ~Live(s) => Found(s) = {}

\* Late answers may overwrite newer embeddings and failures may leave holes, but
\* once releases, settings and the provider settle, manual reindexing brings semantic
\* search back to the governed texts for good.
SemanticIndexCatchesUp ==
  <>[](\A s \in SpecIds : Governed(specs[s]) =>
         \A section \in ToSet(SectionsOf[specs[s].content]) : SemanticallyFound(s, section))
=============================================================================
