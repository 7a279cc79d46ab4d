------------------------------ MODULE Pragyaan ------------------------------
(***************************************************************************)
(* The knowledge base of the assistant: lib/pragyaan/{ingest,scheduler,    *)
(* audit,retrieval,cache}.ts and routes/admin/pragyaan.ts.                 *)
(*                                                                         *)
(* An ingestion looks for the source of its page, writes the row, asks an  *)
(* external provider for embeddings and replaces the chunks in one         *)
(* transaction.  A sweep ingests every public page, one after the other:   *)
(* each machine runs one every 15 minutes and an administrator may start   *)
(* another.  A text stands for its checksum too; versions, titles,         *)
(* languages and the ranking of chunks are left out.                       *)
(***************************************************************************)
EXTENDS Requests

CONSTANTS
    Pages,       \* public pages: (origin_kind, origin_id)
    Texts,       \* what a page may say
    SourceIds,   \* rows of kb_sources, in the order they are inserted
    Audiences    \* scope sets of callers

\* Rows of kb_sources, each with the text of its chunks.
SourceRows ==
    [origin : Pages \cup {None}, text : Texts, scope : {"public"} \cup UNION Audiences,
     status : {"chunking", "indexed", "failed"}, chunks : Texts \cup {None},
     approved : BOOLEAN, retired : BOOLEAN, expired : BOOLEAN]

ASSUME PragyaanAssumption ==
    /\ SourceIds \subseteq Nat /\ IsFiniteSet(Pages)
    /\ None \notin Pages \cup Texts \cup SourceRows
    /\ \A s \in Audiences : "public" \in s

VARIABLES
    page,        \* page[o]: the text published, or None
    source,      \* source[i]: a row of kb_sources with its chunks, or None
    audited,     \* audited[i]: the actions kb_audit holds for source i
    answer,      \* answer[s]: the sources of the answer cached for scope set s, or None
    stirred      \* history: sweeps that listed a page whose source somebody else wrote since

knowledge == <<page, source, audited, answer>>
knowledgeVars == <<requests, knowledge, stirred>>

PragyaanInit ==
    /\ page = [o \in Pages |-> None]
    /\ source = [i \in SourceIds |-> None]
    /\ audited = [i \in SourceIds |-> {}]
    /\ answer = [s \in Audiences |-> None]
    /\ stirred = {}

SetSource(i, row) ==
    /\ source' = [source EXCEPT ![i] = row]
    /\ UNCHANGED <<page, audited, answer>>

Stored == {i \in SourceIds : source[i] # None}

-----------------------------------------------------------------------------
(* Sweeps.                                                                 *)

\* A mix names the pages that change.
Publish(o, text) ==
    /\ Serves(o)
    /\ page' = [page EXCEPT ![o] = text]
    /\ UNCHANGED <<source, audited, answer>>

Doc(origin, text, scope, approve) ==
    [origin |-> origin, text |-> text, scope |-> scope, approve |-> approve]

\* buildPublicDocs: the pages that are published now.
PublicDocs == {Doc(o, page[o], "public", TRUE) : o \in {p \in Pages : page[p] # None}}

\* The record of an ingestion: what is left, what was listed, what failed.
Ingesting(kind, docs) == [pc |-> "find", kind |-> kind, todo |-> docs, listed |-> docs, failed |-> {}]

Sweeping(w) == "kind" \in DOMAIN txn[w] /\ txn[w].kind = "sweep"

\* inFlight: one at a time, in one process.
ScheduledSweep(w) ==
    /\ Ready(w, "sweep")
    /\ \A v \in Workers : ~Sweeping(v)
    /\ Hold(w, Ingesting("sweep", PublicDocs))
    /\ UNCHANGED knowledge

\* POST /ingest/public asks for no other sweep; nor does a second machine's.
AdminSweep(w) ==
    /\ Serve(w, "ingest", Ingesting("ingest", PublicDocs))
    /\ UNCHANGED knowledge

\* POST /sources has no origin, and a public source is approved at once.
Upload(w, text, scope) ==
    /\ Serve(w, "upload", Ingesting("upload", {Doc(None, text, scope, scope = "public")}))
    /\ UNCHANGED knowledge

\* Nor has a reindex: it takes the chunks of a source into a new one.
Reindex(w, i) ==
    /\ Ready(w, "reindex")
    /\ i \in Stored /\ source[i].chunks # None
    /\ Hold(w, Ingesting("upload", {Doc(None, source[i].chunks, source[i].scope, source[i].approved)}))
    /\ UNCHANGED knowledge

NextDoc(w) == CHOOSE doc \in txn[w].todo : TRUE

\* The next document, or the end; after a failure the sweep goes on.
Proceed(w, failed) ==
    LET t == txn[w]
    IN  /\ txn' = [txn EXCEPT ![w] =
              IF Cardinality(t.todo) <= 1 THEN Idle
              ELSE [pc |-> "find", kind |-> t.kind, todo |-> t.todo \ {NextDoc(w)}, listed |-> t.listed,
                    failed |-> t.failed \cup failed]]
        /\ UNCHANGED mix

NothingListed(w) ==
    /\ At(w, "find") /\ txn[w].todo = {}
    /\ End(w)
    /\ UNCHANGED knowledge

-----------------------------------------------------------------------------
(* ingestSource.                                                           *)

Sources(origin) == {i \in Stored : origin # None /\ source[i].origin = origin}

\* findExistingSource: the page's source, any one of them if there are more.
Existing(origin) == Sources(origin)

\* Mutant: the checksum alone decides.
UnchangedText(i, text) == source[i].text = text

Unchanged(i, text) == source[i].text = text /\ source[i].status = "indexed"

\* A source with this text that is indexed is passed over.
Skip(w) ==
    /\ At(w, "find") /\ txn[w].todo # {}
    /\ \E i \in Existing(NextDoc(w).origin) : Unchanged(i, NextDoc(w).text)
    /\ Proceed(w, {})
    /\ UNCHANGED knowledge

Found(w, i) ==
    LET t == txn[w]
    IN  /\ Hold(w, [pc |-> "upsert", kind |-> t.kind, todo |-> t.todo, listed |-> t.listed, failed |-> t.failed, i |-> i])
        /\ UNCHANGED knowledge

Find(w) ==
    /\ At(w, "find") /\ txn[w].todo # {}
    /\ LET doc == NextDoc(w)
       IN  IF Existing(doc.origin) = {} THEN Found(w, None)
           ELSE \E i \in Existing(doc.origin) : ~Unchanged(i, doc.text) /\ Found(w, i)

NewId == CHOOSE i \in SourceIds \ Stored : \A j \in SourceIds \ Stored : i <= j

Upserted(w, row) ==
    LET i == IF txn[w].i = None THEN NewId ELSE txn[w].i
    IN  /\ SetSource(i, row)
        /\ txn' = [txn EXCEPT ![w].pc = "index", ![w].i = i]
        /\ UNCHANGED mix

Insert(w) ==
    LET doc == NextDoc(w)
    IN  /\ At(w, "upsert") /\ txn[w].i = None
        /\ SourceIds # Stored
        /\ Upserted(w, [origin |-> doc.origin, text |-> doc.text, scope |-> doc.scope, status |-> "chunking",
                        chunks |-> None, approved |-> doc.approve, retired |-> FALSE, expired |-> FALSE])

\* By id; retired_at stays as it is.
Update(w) ==
    /\ At(w, "upsert") /\ txn[w].i # None
    /\ Upserted(w, [source[txn[w].i] EXCEPT !.text = NextDoc(w).text, !.status = "chunking",
                                            !.approved = @ \/ NextDoc(w).approve])

\* The embeddings are there: one transaction replaces the chunks.
Index(w) ==
    /\ At(w, "index")
    /\ SetSource(txn[w].i, [source[txn[w].i] EXCEPT !.chunks = NextDoc(w).text, !.status = "indexed"])
    /\ Goto(w, "log")

\* They are not: the source is marked, and nothing is logged.
Fail(w) ==
    /\ At(w, "index")
    /\ SetSource(txn[w].i, [source[txn[w].i] EXCEPT !.status = "failed"])
    /\ Proceed(w, {NextDoc(w)})

\* writeAudit, under its advisory lock.
Audit(i, action) ==
    /\ audited' = [audited EXCEPT ![i] = @ \cup {action}]
    /\ UNCHANGED <<page, source, answer>>

LogIngest(w) ==
    /\ At(w, "log")
    /\ Audit(txn[w].i, "ingest")
    /\ Proceed(w, {})

-----------------------------------------------------------------------------
(* Governance: each decision reads the source, updates it by id and is     *)
(* then logged.                                                            *)

Decide(w, i, action, row) ==
    /\ SetSource(i, row)
    /\ txn' = [txn EXCEPT ![w] = [pc |-> "decided", i |-> i, action |-> action]]
    /\ UNCHANGED mix

\* Nobody asks for the status, so a source is approved while it is chunked.
ApproveRead(w, i) ==
    /\ Ready(w, "approve")
    /\ i \in Stored /\ ~source[i].retired /\ ~source[i].approved
    /\ Hold(w, [pc |-> "approve", i |-> i])
    /\ UNCHANGED knowledge

ApproveWrite(w) ==
    LET i == txn[w].i
    IN  /\ At(w, "approve")
        /\ Decide(w, i, "approve", [source[i] EXCEPT !.approved = TRUE, !.status = "indexed"])

\* retired_at never goes back to NULL: rollback asks for supersedes_id, which
\* no statement sets.  So what these two read does not matter.
Retire(w, i) ==
    /\ "retire" \in mix /\ txn[w] = Idle
    /\ i \in Stored /\ ~source[i].retired
    /\ Decide(w, i, "retire", [source[i] EXCEPT !.retired = TRUE])

Reject(w, i) ==
    /\ "reject" \in mix /\ txn[w] = Idle
    /\ i \in Stored
    /\ Decide(w, i, "reject", [source[i] EXCEPT !.status = "failed", !.retired = TRUE, !.approved = FALSE])

LogDecision(w) ==
    /\ At(w, "decided")
    /\ Audit(txn[w].i, txn[w].action)
    /\ End(w)

\* PATCH of the retention date; a date to come is set when it passes.
Retain(w, i, expired) ==
    /\ "retention" \in mix /\ txn[w] = Idle
    /\ i \in Stored
    /\ Decide(w, i, "retention", [source[i] EXCEPT !.expired = expired])

-----------------------------------------------------------------------------
(* Answers.                                                                *)

Live(i) ==
    /\ source[i].status = "indexed" /\ source[i].chunks # None
    /\ source[i].approved /\ ~source[i].retired /\ ~source[i].expired

\* retrieve: nothing found, no answer.
Ask(w, scopes) ==
    LET chunks == {i \in Stored : Live(i) /\ source[i].scope \in scopes}
    IN  /\ chunks # {}
        /\ Serve(w, "ask", [pc |-> "answer", scopes |-> scopes, chunks |-> chunks])
        /\ UNCHANGED knowledge

\* answerKey, of one question in one language.
Key(scopes) == scopes

\* The cache answers, whatever was retrieved.
AnswerCached(w) ==
    /\ At(w, "answer") /\ answer[Key(txn[w].scopes)] # None
    /\ End(w)
    /\ UNCHANGED knowledge

\* The model answers and the answer is cached.
Generate(w) ==
    /\ At(w, "answer") /\ answer[Key(txn[w].scopes)] = None
    /\ Goto(w, "keep")
    /\ UNCHANGED knowledge

Keep(w) ==
    /\ At(w, "keep")
    /\ answer' = [answer EXCEPT ![Key(txn[w].scopes)] = txn[w].chunks]
    /\ End(w)
    /\ UNCHANGED <<page, source, audited>>

\* Three minutes pass, or the process is restarted.
Forget(scopes) ==
    /\ Serves("ask")
    /\ answer[scopes] # None
    /\ answer' = [answer EXCEPT ![scopes] = None]
    /\ UNCHANGED <<page, source, audited>>

KnowledgeStep ==
    \/ \E o \in Pages, text \in Texts \cup {None} : Publish(o, text)
    \/ \E scopes \in Audiences : Forget(scopes)
    \/ \E w \in Workers :
          \/ \E text \in Texts, scope \in UNION Audiences : Upload(w, text, scope)
          \/ \E i \in SourceIds : Reindex(w, i) \/ ApproveRead(w, i) \/ Retire(w, i) \/ Reject(w, i)
          \/ \E i \in SourceIds, expired \in BOOLEAN : Retain(w, i, expired)
          \/ \E scopes \in Audiences : Ask(w, scopes)
          \/ ScheduledSweep(w) \/ AdminSweep(w) \/ NothingListed(w) \/ Skip(w) \/ Find(w) \/ Insert(w) \/ Update(w)
          \/ Index(w) \/ Fail(w) \/ LogIngest(w) \/ ApproveWrite(w) \/ LogDecision(w)
          \/ AnswerCached(w) \/ Generate(w) \/ Keep(w)
          \/ Crash(w) /\ UNCHANGED knowledge

\* The public pages are ingested, by the scheduler or for an administrator.
Runs(w) == "kind" \in DOMAIN txn[w] /\ txn[w].kind \in {"sweep", "ingest"}

\* Somebody else writes the text or the status of a source it is about.
Stirs(w) ==
    /\ ~Steps(w)
    /\ \E i \in Stored :
          /\ source[i].origin \in {doc.origin : doc \in txn[w].listed}
          /\ source'[i].text # source[i].text \/ source'[i].status # source[i].status

KnowledgeNext ==
    /\ KnowledgeStep
    /\ stirred' = {w \in Workers : Runs(w)' /\ (w \in stirred \/ Stirs(w))}

KnowledgeSpec == RequestsInit /\ PragyaanInit /\ [][KnowledgeNext]_knowledgeVars

-----------------------------------------------------------------------------
(* Properties.                                                             *)

\* The last document of a sweep is done with; a crash is no end.
Ends(w) == Runs(w) /\ (NothingListed(w) \/ Skip(w) \/ Fail(w) \/ LogIngest(w)) /\ txn'[w] = Idle

\* Indexed under one text, with the chunks of another.
Mislabelled(i) == source[i] # None /\ source[i].status = "indexed" /\ source[i].chunks # source[i].text

\* A sweep that ends, whoever started it and whatever failures, crashes and
\* other sweeps came before, leaves the source of every page it listed indexed
\* under the text it listed; but for a page whose embedding failed in it, and
\* unless somebody else wrote such a source meanwhile.  The chunks are of that
\* text too, except where an ingestion replaced the chunks of a source that
\* another had given a new text, or an administrator approved what was not
\* indexed: no later sweep looks at the chunks of what it passes over.
SweepsRepair ==
    [][/\ \A w \in Workers :
            Ends(w) /\ w \notin stirred
            => \A doc \in txn[w].listed \ (txn[w].failed \cup {d \in txn[w].todo : At(w, "index")}) :
                 \E i \in Sources(doc.origin) : source'[i].status = "indexed" /\ source'[i].text = doc.text
       /\ \A i \in SourceIds :
            Mislabelled(i)' /\ ~Mislabelled(i)
            => \E w \in Workers : /\ ApproveWrite(w) \/ (Index(w) /\ source[i].text # NextDoc(w).text)
                                  /\ txn[w].i = i]_knowledgeVars
=============================================================================
