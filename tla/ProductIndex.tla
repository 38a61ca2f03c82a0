---------------------------- MODULE ProductIndex ----------------------------
(***************************************************************************)
(* The products of the catalogue (ProductsService of                       *)
(* apps/api/src/modules/catalog) and their documents in Meilisearch        *)
(* (SearchService of apps/api/src/modules/search).                         *)
(*                                                                         *)
(* A request writes the product, then reads it again to build a document,  *)
(* then sends the document or deletes it; errors of the index are logged   *)
(* and forgotten.  reindexAll sends the documents of the products that are *)
(* not deleted and removes none.  Meilisearch applies what it is sent in   *)
(* the order it is sent.  A product's data is the number of its changes.   *)
(***************************************************************************)
EXTENDS Naturals

CONSTANTS
  Products,
  ShopEditors,   \* requests of administrators that run at one time
  MaxChanges     \* bound: changes of one product

ASSUME IndexAssumption == MaxChanges \in Nat

VARIABLES
  product,       \* the rows of products; status "none" before the INSERT
  document,      \* the index; status "absent" without a document
  reachable,     \* SearchService.available: Meilisearch answered at start
  job,           \* each request: where it is, its products, what it has built
  doubtful       \* history: products whose index may have missed a change

indexVars == <<product, document, reachable, job, doubtful>>

Statuses == {"draft", "pending", "published", "archived"}

Product(status, deleted, changes) ==
  [status |-> status, deleted |-> deleted, changes |-> changes]

Document(status, changes) == [status |-> status, changes |-> changes]

NoDocument == Document("absent", 0)

\* alone: the products of the request that no other request has touched.
Job(at, kind, on, want) ==
  [at |-> at, kind |-> kind, on |-> on, want |-> want,
   built |-> [p \in on |-> NoDocument], alone |-> on]

NoJob == Job("idle", "none", {}, "none")

IndexInit ==
  /\ product = [p \in Products |-> Product("none", FALSE, 0)]
  /\ document = [p \in Products |-> NoDocument]
  /\ reachable \in BOOLEAN
  /\ job = [e \in ShopEditors |-> NoJob]
  /\ doubtful = {}

-----------------------------------------------------------------------------

Existing == {p \in Products : product[p].status # "none" /\ ~product[p].deleted}

\* A request begins on some products: those another request is busy with are
\* no longer touched by one request alone.
Enter(e, j) ==
  LET busy == (UNION {job[o].on : o \in ShopEditors}) \intersect j.on
  IN  /\ job[e] = NoJob
      /\ job' = [o \in ShopEditors |-> [(IF o = e THEN j ELSE job[o])
                                          EXCEPT !.alone = @ \ busy]]
      /\ doubtful' = doubtful \union busy

\* create, up to its transaction
StartCreate(e, p, want) ==
  /\ product[p].status = "none"
  /\ ~ \E o \in ShopEditors : p \in job[o].on
  /\ want \in {"draft", "published"}
  /\ Enter(e, Job("write", "create", {p}, want))
  /\ UNCHANGED <<product, document, reachable>>

\* findOne of update, setStatus and remove; deleted rows are not found.
StartChange(e, p, kind, want) ==
  /\ p \in Existing
  /\ kind \in {"update", "setStatus", "remove"}
  /\ Enter(e, Job("write", kind, {p}, want))
  /\ UNCHANGED <<product, document, reachable>>

\* What a written product asks of the index: a document, or its removal.
IndexStep(kind, want) ==
  IF kind = "remove" \/ (kind = "setStatus" /\ want # "published")
  THEN "unindex" ELSE "build"

\* The transaction or the UPDATE, which asks for the id alone; softDelete
\* leaves the status.
WriteProduct(e) ==
  LET j == job[e]
  IN  /\ j.at = "write"
      /\ product' = [p \in Products |->
           IF p \notin j.on THEN product[p]
           ELSE Product(IF j.kind = "remove" THEN product[p].status ELSE j.want,
                        product[p].deleted \/ j.kind = "remove",
                        product[p].changes + 1)]
      /\ \A p \in j.on : product[p].changes < MaxChanges
      /\ job' = [job EXCEPT ![e].at = IndexStep(j.kind, j.want)]
      /\ UNCHANGED <<document, reachable, doubtful>>

\* The slug, code or SKU is taken, or the transaction rolls back.
WriteFails(e) ==
  /\ job[e].at = "write"
  /\ job' = [job EXCEPT ![e] = NoJob]
  /\ UNCHANGED <<product, document, reachable, doubtful>>

\* buildDocument: the query does not look at deleted_at.
BuildDocument(e, p) ==
  /\ job[e].at = "build" /\ reachable
  /\ p \in job[e].on /\ job[e].built[p] = NoDocument
  /\ job' = [job EXCEPT ![e].built[p] = Document(product[p].status, product[p].changes)]
  /\ UNCHANGED <<product, document, reachable, doubtful>>

LeaveIndex(e) == job' = [job EXCEPT ![e] = NoJob]

\* A request that was alone on its products leaves their index without doubt.
Settle(e) == doubtful' = doubtful \ job[e].alone

\* addDocuments
AddDocuments(e) ==
  /\ job[e].at = "build" /\ job[e].on # {}
  /\ \A p \in job[e].on : job[e].built[p] # NoDocument
  /\ document' = [p \in Products |-> IF p \in job[e].on THEN job[e].built[p] ELSE document[p]]
  /\ LeaveIndex(e) /\ Settle(e)
  /\ UNCHANGED <<product, reachable>>

\* Mutant of Removed: the removal sends a document as any other change does.
SentAgain(p) == Document(product[p].status, product[p].changes)

\* deleteDocument
Removed(p) == NoDocument

Unindex(e) ==
  /\ job[e].at = "unindex" /\ reachable
  /\ document' = [p \in Products |-> IF p \in job[e].on THEN Removed(p) ELSE document[p]]
  /\ LeaveIndex(e) /\ Settle(e)
  /\ UNCHANGED <<product, reachable>>

\* The index is not told: it was not there at start, or the call fails and
\* the error is logged.
IndexMisses(e) ==
  /\ job[e].at \in {"build", "unindex"}
  /\ doubtful' = doubtful \union job[e].on
  /\ LeaveIndex(e)
  /\ UNCHANGED <<product, document, reachable>>

\* reindexAll: the ids of the products that are not deleted.
StartReindex(e) ==
  /\ reachable
  /\ Enter(e, Job("build", "reindex", Existing, "none"))
  /\ Existing # {}
  /\ UNCHANGED <<product, document, reachable>>

\* The API stops; onModuleInit of the next one asks Meilisearch for its health.
ApiRestarts ==
  /\ reachable' \in BOOLEAN
  /\ job' = [e \in ShopEditors |-> NoJob]
  /\ doubtful' = doubtful \union
       UNION {job[e].on : e \in {o \in ShopEditors : job[o].at \in {"build", "unindex"}}}
  /\ UNCHANGED <<product, document>>

IndexNext ==
  \/ \E e \in ShopEditors :
       \/ \E p \in Products :
            \/ \E want \in Statuses :
                 \/ StartCreate(e, p, want)
                 \/ \E kind \in {"update", "setStatus"} : StartChange(e, p, kind, want)
            \/ StartChange(e, p, "remove", "none")
            \/ BuildDocument(e, p)
       \/ WriteProduct(e) \/ WriteFails(e) \/ AddDocuments(e) \/ Unindex(e)
       \/ IndexMisses(e) \/ StartReindex(e)
  \/ ApiRestarts

IndexSpec == IndexInit /\ [][IndexNext]_indexVars

-----------------------------------------------------------------------------
\* The types of the products, the documents and the requests.
IndexTypeOK ==
  /\ product \in [Products -> [status : Statuses \union {"none"}, deleted : BOOLEAN,
                               changes : 0..MaxChanges]]
  /\ document \in [Products -> [status : Statuses \union {"absent"}, changes : 0..MaxChanges]]
  /\ reachable \in BOOLEAN
  /\ doubtful \subseteq Products
  /\ \A e \in ShopEditors :
       /\ job[e].at \in {"idle", "write", "build", "unindex"}
       /\ job[e].alone \subseteq job[e].on /\ job[e].on \subseteq Products

\* searchMeili shows the documents that say published.
Shown(p) == document[p].status = "published"

ForSale(p) == product[p].status = "published" /\ ~product[p].deleted

\* When no request is busy with a product, the search shows it if and only if
\* it is for sale, and shows its latest data, unless the index has missed a
\* change since the last request that had the product for itself.
IndexFollows ==
  \A p \in Products :
    \/ p \in doubtful
    \/ \E e \in ShopEditors : p \in job[e].on
    \/ Shown(p) = ForSale(p) /\ (Shown(p) => document[p].changes = product[p].changes)
=============================================================================
