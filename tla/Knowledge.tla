------------------------------ MODULE Knowledge ------------------------------
(***************************************************************************)
(* A tenant's knowledge base (src/knowledge, src/api/knowledgeRoutes.ts):  *)
(* syncs of a web page or a sitemap, documents written by hand, edits and  *)
(* deletions, uploads and Shopify's catalogue, while the site changes.  A  *)
(* request waits at every await, and nothing keeps two requests for one    *)
(* source apart.                                                           *)
(*                                                                         *)
(* A page is the sequence of its chunks; a product is a page.  The         *)
(* wording, the extractors and the embeddings are left out.                *)
(***************************************************************************)
EXTENDS Naturals, Sequences, FiniteSets

CONSTANTS Urls,       \* pages of the site
          Pages,      \* what a page may hold; <<>> is a page that is gone
          Kinds,      \* kinds of source requested
          Home,       \* the page of a "url" source
          Procs,      \* requests in flight
          Edited,     \* a text nobody's page has
          None,
          MaxDocs, MaxRequests, MaxChanges  \* bounds on documents made, on requests, and on
                          \* changes of the site or by hand

KnowledgeAssumption ==
  /\ IsFiniteSet(Urls) /\ Home \in Urls /\ None \notin Urls
  /\ \A page \in Pages : Len(page) \in Nat /\ DOMAIN page = 1..Len(page)
  /\ Kinds \subseteq {"url", "sitemap", "products", "upload", "manual"}
  /\ MaxDocs \in Nat /\ MaxRequests \in Nat /\ MaxChanges \in Nat

VARIABLES
  site,      \* the page at each URL
  sources,   \* tenant_knowledge_sources: id, kind, status, count
  docs,      \* tenant_knowledge_documents
  ids,       \* documents made so far
  made,      \* sources made so far
  begun,     \* bound: requests so far
  pc,        \* where each request is
  req,       \* what it works on
  changes,   \* bound
  messy      \* history: sources two requests, or a hand, have worked on

vars == <<site, sources, docs, ids, made, begun, pc, req, changes, messy>>

Idle == [kind |-> None, source |-> 0, todo |-> {}, urls |-> {}, url |-> None,
         page |-> <<>>, seen |-> {}, got |-> {}, shot |-> None, count |-> 0]

Init ==
  /\ site \in [Urls -> Pages]
  /\ sources = {} /\ docs = {} /\ ids = 0 /\ made = 0 /\ begun = 0
  /\ pc = [p \in Procs |-> "idle"] /\ req = [p \in Procs |-> Idle]
  /\ changes = 0 /\ messy = {}

At(p, l) == pc[p] = l
Goto(p, l) == pc' = [pc EXCEPT ![p] = l]
OfSource(s) == {d \in docs : d.source = s}
There(s) == \E r \in sources : r.id = s
SetSource(s, f(_)) == sources' = {IF r.id = s THEN f(r) ELSE r : r \in sources}
Working(s) == {q \in Procs : pc[q] # "idle" /\ req[q].source = s}

Finish(p) ==
  /\ pc' = [pc EXCEPT ![p] = "idle"] /\ req' = [req EXCEPT ![p] = Idle]

-----------------------------------------------------------------------------
(* The source. *)

\* A request for a kind of source, also to sync one again, looks whether there
\* is one; an upload makes one of its own ...
Ensure(p, k) ==
  /\ At(p, "idle") /\ begun < MaxRequests /\ begun' = begun + 1
  /\ LET old == {r.id : r \in {r \in sources : r.kind = k /\ k # "upload"}}
     IN \/ /\ old = {} /\ req' = [req EXCEPT ![p].kind = k]
           /\ Goto(p, "insert") /\ UNCHANGED messy
        \/ \E s \in old :
             /\ req' = [req EXCEPT ![p].kind = k, ![p].source = s]
             /\ Goto(p, IF k = "manual" THEN "add" ELSE "mark")
             /\ messy' = IF Working(s) # {} THEN messy \cup {s} ELSE messy
  /\ UNCHANGED <<site, sources, docs, ids, made, changes>>

\* ... and makes one if there was not.
InsertSource(p) ==
  /\ At(p, "insert")
  /\ made' = made + 1
  /\ sources' = sources \cup {[id |-> made + 1, kind |-> req[p].kind, count |-> 0,
                             status |-> IF req[p].kind = "manual" THEN "completed" ELSE "pending"]}
  /\ req' = [req EXCEPT ![p].source = made + 1]
  /\ Goto(p, IF req[p].kind = "manual" THEN "add" ELSE "mark")
  /\ UNCHANGED <<site, docs, ids, changes, messy, begun>>

MarkSyncing(p) ==
  /\ At(p, "mark")
  /\ SetSource(req[p].source, LAMBDA r : [r EXCEPT !.status = "syncing"])
  /\ Goto(p, "list")
  /\ UNCHANGED <<site, docs, ids, made, req, changes, messy, begun>>

MarkFailed(p) ==
  /\ SetSource(req[p].source, LAMBDA r : [r EXCEPT !.status = "failed"])
  /\ Finish(p)
  /\ UNCHANGED <<site, docs, ids, made, changes, messy, begun>>

Present == {u \in Urls : site[u] # <<>>}

\* The pages of the source: its own, or those the sitemap lists.  A sitemap of
\* sitemaps lists nothing for one that answers with an error.
List(p) ==
  /\ At(p, "list") /\ req[p].kind \in {"url", "sitemap"}
  /\ \E urls \in IF req[p].kind = "url" THEN {{Home}} ELSE SUBSET Present :
       req' = [req EXCEPT ![p].todo = urls, ![p].urls = urls]
  /\ Goto(p, "page")
  /\ UNCHANGED <<site, sources, docs, ids, made, changes, messy, begun>>

\* The catalogue comes with all its products.
FetchProducts(p) ==
  /\ At(p, "list") /\ req[p].kind = "products"
  /\ req' = [req EXCEPT ![p].todo = Present, ![p].urls = Present, ![p].shot = site]
  /\ Goto(p, "page")
  /\ UNCHANGED <<site, sources, docs, ids, made, changes, messy, begun>>

\* An upload comes with its text, which is a page without a URL.
ExtractFile(p) ==
  /\ At(p, "list") /\ req[p].kind = "upload"
  /\ \E page \in Pages \ {<<>>} : req' = [req EXCEPT ![p].page = page]
  /\ Goto(p, "read")
  /\ UNCHANGED <<site, sources, docs, ids, made, changes, messy, begun>>

\* The fetch of the sitemap, of the catalogue or of the page of a "url" source
\* fails, or the type of the file is not supported.
SyncFails(p) ==
  /\ \/ At(p, "list") /\ req[p].kind # "url"
     \/ At(p, "page") /\ req[p].kind = "url" /\ req[p].todo # {}
  /\ MarkFailed(p)

-----------------------------------------------------------------------------
(* The pages. *)

\* fetchUrl and the extractor.  A page of a sitemap that fails or has too
\* little text is left as it was; so is an empty one of a "url" source.
Fetch(p, u) ==
  /\ At(p, "page") /\ u \in req[p].todo
  /\ LET page == IF req[p].kind = "products" THEN req[p].shot[u] ELSE site[u] IN
     \/ /\ page # <<>>
        /\ req' = [req EXCEPT ![p].todo = @ \ {u}, ![p].url = u, ![p].page = page]
        /\ Goto(p, "read")
     \/ /\ page = <<>> \/ req[p].kind = "sitemap"
        /\ req' = [req EXCEPT ![p].todo = @ \ {u}]
        /\ UNCHANGED pc
  /\ UNCHANGED <<site, sources, docs, ids, made, changes, messy, begun>>

\* upsertDocuments reads the chunks there are ...
ReadExisting(p) ==
  /\ At(p, "read")
  /\ req' = [req EXCEPT ![p].seen = {d \in OfSource(req[p].source) : d.url = req[p].url}]
  /\ Goto(p, "write")
  /\ UNCHANGED <<site, sources, docs, ids, made, changes, messy, begun>>

NewDoc(p, i, id) ==
  [id |-> id, source |-> req[p].source, url |-> req[p].url, index |-> i,
   body |-> req[p].page[i], hash |-> req[p].page[i]]

\* The chunks the page no longer has.
Orphans(p) == {d.id : d \in {d \in req[p].seen : d.index > Len(req[p].page)}}

\* ... of each index takes the first, rewrites it if its hash differs, inserts
\* the others and drops the orphans.
Write(p) ==
  /\ At(p, "write") /\ There(req[p].source)
  /\ LET page == req[p].page
         seen == req[p].seen
         first(i) == CHOOSE d \in seen : d.index = i /\ \A e \in seen : e.index = i => d.id <= e.id
         had == {i \in DOMAIN page : \E d \in seen : d.index = i}
         new == {i \in DOMAIN page : i \notin had}
         changed == {i \in had : first(i).hash # page[i]}
         rank(i) == ids + Cardinality({j \in new : j <= i})
         rewrite(d) == IF \E i \in changed : first(i).id = d.id
                       THEN [d EXCEPT !.body = page[d.index], !.hash = page[d.index]] ELSE d
     IN /\ ids + Cardinality(new) <= MaxDocs
        /\ ids' = ids + Cardinality(new)
        /\ docs' = {rewrite(d) : d \in {e \in docs : e.id \notin Orphans(p)}}
                   \cup {NewDoc(p, i, rank(i)) : i \in new}
        /\ req' = [req EXCEPT ![p].got = @ \cup {<<req[p].url, page>>},
                               ![p].url = None, ![p].page = <<>>, ![p].seen = {}]
  /\ Goto(p, "page")
  /\ UNCHANGED <<site, sources, made, changes, messy, begun>>

\* The source was deleted, and its documents with it: an insert breaks its
\* foreign key, and updates find nothing.
WriteFails(p) ==
  /\ At(p, "write") /\ ~There(req[p].source)
  /\ IF req[p].kind = "sitemap"
     THEN /\ req' = [req EXCEPT ![p].url = None, ![p].page = <<>>, ![p].seen = {}]
          /\ Goto(p, "page")
          /\ UNCHANGED <<site, sources, docs, ids, made, changes, messy, begun>>
     ELSE MarkFailed(p)

\* Mutant: nothing is pruned.
PruneNothing(p) == {}

\* What a sitemap, unless it lists nothing, no longer lists.
Stale(p) ==
  IF req[p].kind = "sitemap" /\ req[p].urls # {}
  THEN {d \in OfSource(req[p].source) : d.url \notin req[p].urls} ELSE {}

\* The ids are read and then deleted, here in one step: what another request adds to the source in
\* between stays, and the source is messy by then.
Prune(p) ==
  /\ At(p, "page") /\ req[p].todo = {}
  /\ docs' = docs \ Stale(p)
  /\ Goto(p, "count")
  /\ UNCHANGED <<site, sources, ids, made, req, changes, messy, begun>>

\* markCompleted counts, and stores what it has counted.
Count(p) ==
  /\ At(p, "count")
  /\ req' = [req EXCEPT ![p].count = Cardinality(OfSource(req[p].source)),
                         ![p].urls = {}, ![p].got = {}, ![p].shot = None]
  /\ Goto(p, "complete")
  /\ UNCHANGED <<site, sources, docs, ids, made, changes, messy, begun>>

Complete(p) ==
  /\ At(p, "complete")
  /\ SetSource(req[p].source, LAMBDA r : [r EXCEPT !.status = "completed", !.count = req[p].count])
  /\ Finish(p)
  /\ UNCHANGED <<site, docs, ids, made, changes, messy, begun>>

-----------------------------------------------------------------------------
(* Documents by hand. *)

AddDoc(p) ==
  /\ At(p, "add")
  /\ IF There(req[p].source)
     THEN /\ ids < MaxDocs /\ ids' = ids + 1
          /\ docs' = docs \cup {[id |-> ids + 1, source |-> req[p].source, url |-> None, index |-> 0,
                               body |-> Edited, hash |-> None]}
          /\ Goto(p, "bump") /\ UNCHANGED req
     ELSE Finish(p) /\ UNCHANGED <<docs, ids>>
  /\ UNCHANGED <<site, sources, made, changes, messy, begun>>

BumpCount(p) ==
  /\ At(p, "bump")
  /\ SetSource(req[p].source, LAMBDA r : [r EXCEPT !.count = @ + 1])
  /\ Finish(p)
  /\ UNCHANGED <<site, docs, ids, made, changes, messy, begun>>

Change == changes < MaxChanges /\ changes' = changes + 1

\* PUT /:id.  The hash is that of the text synced last.
EditDoc(d) ==
  /\ Change
  /\ docs' = (docs \ {d}) \cup {[d EXCEPT !.body = Edited]}
  /\ messy' = messy \cup {d.source}
  /\ UNCHANGED <<site, sources, ids, made, pc, req, begun>>

\* DELETE /:id.  No count is corrected.
DeleteDoc(d) ==
  /\ Change
  /\ docs' = docs \ {d}
  /\ messy' = messy \cup {d.source}
  /\ UNCHANGED <<site, sources, ids, made, pc, req, begun>>

DeleteSource(r) ==
  /\ Change
  /\ sources' = sources \ {r} /\ docs' = docs \ OfSource(r.id)
  /\ UNCHANGED <<site, ids, made, pc, req, messy, begun>>

SiteChanges(u, page) ==
  /\ Change
  /\ site' = [site EXCEPT ![u] = page]
  /\ UNCHANGED <<sources, docs, ids, made, pc, req, messy, begun>>

-----------------------------------------------------------------------------

Request(p) ==
  \/ \E k \in Kinds : Ensure(p, k)
  \/ InsertSource(p) \/ MarkSyncing(p) \/ SyncFails(p)
  \/ List(p) \/ FetchProducts(p) \/ ExtractFile(p)
  \/ \E u \in Urls : Fetch(p, u)
  \/ ReadExisting(p) \/ Write(p) \/ WriteFails(p) \/ Prune(p) \/ Count(p) \/ Complete(p)
  \/ AddDoc(p) \/ BumpCount(p)

Next ==
  \/ \E p \in Procs : Request(p)
  \/ \E d \in docs : EditDoc(d) \/ DeleteDoc(d)
  \/ \E r \in sources : DeleteSource(r)
  \/ \E u \in Urls, page \in Pages : SiteChanges(u, page)

Spec == Init /\ [][Next]_vars

-----------------------------------------------------------------------------
(* Properties. *)

\* A sync that nobody disturbed, when it has done its pages, has left of every
\* page it has read exactly its chunks, once each, and nothing of a page the
\* sitemap no longer lists.
SyncIsFaithful ==
  \A p \in Procs : At(p, "count") /\ There(req[p].source) /\ req[p].source \notin messy =>
    /\ \A g \in req[p].got :
         LET kept == {d \in OfSource(req[p].source) : d.url = g[1]}
             page == g[2]
         IN /\ Cardinality(kept) = Len(page)
            /\ \A j \in DOMAIN page : \E d \in kept : d.index = j /\ d.body = page[j]
    /\ req[p].kind = "sitemap" /\ req[p].urls # {} =>
         \A d \in OfSource(req[p].source) : d.url \in req[p].urls

=============================================================================
