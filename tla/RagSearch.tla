------------------------------ MODULE RagSearch ------------------------------
(***************************************************************************)
(* Searching a tenant's records in Qdrant (app/engine/rag.py: search,      *)
(* search_entities) for rag_search_tool (app/engine/tools.py),             *)
(* product_lookup_tool (app/engine/product_tools.py) and the search box of *)
(* the CRM (/search/ of app/api/endpoints.py), while records are ingested. *)
(*                                                                         *)
(* A search reads the index several times: one pass for each text field,   *)
(* then one for the vectors.  Each may fail without failing the search,    *)
(* and the index may change between two.  Points are numbered from the     *)
(* nearest to the question to the farthest, as the vectors have them.      *)
(* A product lookup asks the CRM's catalog first, and the index only when  *)
(* no product is called what was asked for; then it ranks what both have.  *)
(***************************************************************************)
EXTENDS Integers, FiniteSets, SequencesExt, Sorting

CONSTANTS
    Points,      \* points of the tenant's collection, from the nearest on
    Others,      \* those of modules the search does not ask for
    Exact,       \* products whose name or code is the question
    LimitAsked,  \* rows the model or the search box asked for
    ProductLimit, \* products the model asked for
    WideLimit,   \* rows of a plain search: more, for the doubles
    EntityLimit, \* rows of an entity search for each spelling
    TextLimit,   \* points a pass for a text field reads at most
    Variants,    \* spellings of the question an entity search tries
    MinScore,    \* an entity's least score
    MaxWrites    \* bound on the writes of the ingest

ASSUME SearchAssumption ==
    /\ Points \subseteq Nat \ {0} /\ IsFiniteSet(Points) /\ Others \subseteq Points
    /\ Exact \subseteq Points \ Others /\ ProductLimit \in Nat \ {0} /\ ProductLimit <= WideLimit
    /\ LimitAsked \in Nat \ {0} /\ WideLimit \in Nat /\ LimitAsked <= WideLimit
    /\ EntityLimit \in Nat \ {0} /\ TextLimit \in Nat \ {0}
    /\ Variants \in Nat \ {0} /\ MinScore \in Nat /\ MaxWrites \in Nat

VARIABLES
    store,    \* the process's connection: none, remote, or the local files
    index,    \* of each store's points, the fields the question's words are in
    search,   \* the search that runs
    steady,   \* history: points in the index since the search began
    writes    \* bound: writes of the ingest

searchVars == <<store, index, search, steady, writes>>

\* The texts of a point the question's words may be in.  Without diacritics they
\* are in whatever they are in with them, and a name is part of the text.
Fields == {"name", "text", "name_ascii", "text_ascii"}
Matches == {{}, {"text_ascii"}, {"text", "text_ascii"}, Fields}
Absent == {"absent"}
Places == {"remote", "local"}

\* What a point is worth to the question without its vector: a match of the name
\* more than one of the text.
Lexical(fields) == IF "name" \in fields THEN 4 ELSE IF fields # {} THEN 2 ELSE 0

Products == Points \ Others

Stored(s) == {p \in Points : index[s][p] # Absent}

NoSearch ==
    [pc |-> "idle", caller |-> "plain", listed |-> {}, passes |-> 4, variant |-> 1, pass |-> 1,
     ids |-> {}, text |-> <<>>, best |-> [p \in Points |-> -1], found |-> {},
     like |-> [p \in Points |-> 0], rows |-> <<>>, filtered |-> TRUE]

SearchInit ==
    /\ store = "none"
    /\ index \in [Places -> [Points -> {Absent} \union Matches]]
    /\ \A p \in Points : index["local"][p] = Absent
    /\ search = NoSearch /\ steady = {} /\ writes = 0

-----------------------------------------------------------------------------
(* TenantRAGService: the connection and the collection *)

\* The first use decides for the process's life.  Where the local files are not
\* allowed, and where the collection cannot be read or made, the search raises.
Connected(c) == store' = c /\ (store # "none" => c = store)

\* Words with diacritics are looked for in two texts only; a spelling of an entity
\* search has none.  Before a product lookup comes here the catalog listed what it
\* lists, none of it called what was asked for, or failed and listed nothing.
SearchBegins ==
    /\ search.pc = "idle"
    /\ \E c \in Places, caller \in {"plain", "entities", "products", "box"}, passes \in {2, 4},
          listed \in SUBSET (Products \ Exact) :
          /\ Connected(c)
          /\ (caller = "entities" => passes = 4) /\ (caller # "products" => listed = {})
          /\ search' = [NoSearch EXCEPT !.pc = "text", !.caller = caller, !.passes = passes,
                                        !.listed = listed]
          /\ steady' = Stored(c)
    /\ UNCHANGED <<index, writes>>

-----------------------------------------------------------------------------
(* TenantRAGService.search *)

Passes == <<"name", "text", "name_ascii", "text_ascii">>
\* The search box asks for every module.
Asked(p) == search.caller = "box" \/ p \notin Others

\* What a pass reads of the points that match: all, or as many as it may.
PointsRead ==
    LET matching == {p \in Stored(store) : Asked(p) /\ Passes[search.pass] \in index[store][p]}
    IN  {S \in SUBSET matching :
            \/ Cardinality(S) = TextLimit
            \/ Cardinality(S) < TextLimit /\ S = matching}

TextHits(S) == InOrder(S \ search.ids)

\* Hits are ranked by module and by name; a stable sort.
Ranked(hits) ==
    LET named == {p \in Points : "name_ascii" \in index[store][p]}
    IN  Only(hits, named) \o Only(hits, Points \ named)

NextPass(ids, text) ==
    search' = [search EXCEPT !.ids = ids,
                 !.text = IF search.pass = search.passes THEN Ranked(text) ELSE text,
                 !.pass = @ + 1,
                 !.pc = IF search.pass = search.passes THEN "vector" ELSE "text"]

TextPass ==
    /\ search.pc = "text"
    /\ \E S \in PointsRead : NextPass(search.ids \union S, search.text \o TextHits(S))
    /\ UNCHANGED <<store, index, steady, writes>>

\* A pass that fails is left out.
TextPassFails ==
    /\ search.pc = "text"
    /\ NextPass(search.ids, search.text)
    /\ UNCHANGED <<store, index, steady, writes>>

Limit ==
    CASE search.caller = "entities" -> EntityLimit
      [] search.caller = "box" -> LimitAsked
      [] OTHER -> WideLimit

Cut(rows, n) == SubSeq(rows, 1, IF n < Len(rows) THEN n ELSE Len(rows))

\* The nearest points of a set, nearest first.
Nearest(S, n) == Cut(InOrder(S), n)

NewRows(vec) == Only(vec, Points \ search.ids)

\* Text hits first, then what the vectors add, up to the limit.
Merged(vec) ==
    Cut([i \in DOMAIN search.text |-> <<search.text[i], "text">>]
        \o [i \in DOMAIN NewRows(vec) |-> <<NewRows(vec)[i], "vector">>], Limit)

-----------------------------------------------------------------------------
(* The callers *)

Score(row) ==
    (IF index[store][row[1]] = Absent THEN 0 ELSE Lexical(index[store][row[1]]))
    + (IF row[2] = "vector" THEN 1 ELSE 0)

\* Bug: a later spelling's score replaces a better one.
BetterLater(p, rows) ==
    LET scores == {Score(row) : row \in {r \in ToSet(rows) : r[1] = p}}
    IN  IF scores = {} THEN search.best[p] ELSE CHOOSE s \in scores : TRUE

\* search_entities keeps a record's best score over all spellings.
Better(p, rows) ==
    LET scores == {Score(row) : row \in {r \in ToSet(rows) : r[1] = p}} \union {search.best[p]}
    IN  CHOOSE s \in scores : \A t \in scores : t <= s

\* The better score first.
BestFirst(best) ==
    {e \in Points \X Points :
        best[e[1]] > best[e[2]] \/ (best[e[1]] = best[e[2]] /\ e[1] < e[2])}

Best(best) == Sorted(BestFirst(best), {p \in Points : best[p] >= MinScore})

\* dedupe_rag_results: a record keeps its first place.
Deduped(rows) == RowsAt(rows, {i \in DOMAIN rows : \A j \in 1..(i - 1) : rows[j] # rows[i]})

\* rank_products: what is called what was asked for, then the rest by likeness.
Likeness(listed) ==
    {like \in [Points -> 0..2] :
        \A p \in Points : (p \in listed => (like[p] = 2 <=> p \in Exact))
                          /\ (p \in Others => like[p] = 0)}

ByLikeness(rows, like) ==
    Only(rows, {p \in Points : like[p] = 2}) \o Only(rows, {p \in Points : like[p] = 1})
        \o Only(rows, {p \in Points : like[p] = 0})

\* The index's products never replace the catalog's, but rank among them.
WithCatalog(listed, ids, like) ==
    Cut(ByLikeness(InOrder(listed) \o Only(ids, Points \ listed), like), ProductLimit)

\* One way a lookup ends: the products with the likenesses they have.
LookedUp(known, ids) ==
    \E like \in Likeness(known.listed) :
        search' = [known EXCEPT !.pc = "done", !.caller = "products", !.like = like,
                                !.rows = WithCatalog(known.listed, ids, like)]

\* The search box shows what it gets, beside what the CRM's own search finds.
BoxAnswered(known, rows) == [known EXCEPT !.pc = "done", !.rows = rows]

\* _entity_query_variants: the spellings still to be searched.
VariantsLeft == Variants - search.variant

Searched(vec, filtered) ==
    LET rows == Merged(vec)
        best == [p \in Points |-> Better(p, rows)]
        known == [search EXCEPT !.found = @ \union {<<row[1], Score(row)>> : row \in ToSet(rows)},
                                !.filtered = @ /\ filtered]
        ids == [i \in DOMAIN rows |-> rows[i][1]]
    IN  \/ search.caller = "products" /\ LookedUp(known, ids)
        \/ /\ search.caller # "products"
           /\ search' =
                CASE search.caller = "plain" ->
                       [known EXCEPT !.pc = "done", !.rows = Cut(Deduped(ids), LimitAsked)]
                  [] search.caller = "box" -> BoxAnswered(known, ids)
                  [] search.caller = "entities" /\ VariantsLeft > 0 ->
                       [known EXCEPT !.pc = "text", !.variant = @ + 1, !.pass = 1, !.ids = {},
                                     !.text = <<>>, !.best = best]
                  [] OTHER ->
                       [known EXCEPT !.pc = "done", !.best = best,
                                     !.rows = Cut(Best(best), LimitAsked)]

\* The query with the module filter; without it where that fails, the modules
\* then sorted out among the rows; no vectors where both fail.
VectorPass ==
    /\ search.pc = "vector"
    /\ \/ Searched(Nearest({p \in Stored(store) : Asked(p)}, 2 * Limit), TRUE)
       \/ Searched(Only(Nearest(Stored(store), 2 * Limit), {p \in Points : Asked(p)}),
                   search.caller = "box")
       \/ Searched(<<>>, FALSE)
    /\ UNCHANGED <<store, index, steady, writes>>

\* The catalog alone: a product is called what was asked for, there is no index,
\* or its connection fails.
CatalogAlone ==
    /\ search.pc = "idle"
    /\ \E listed \in SUBSET Products :
          LookedUp([NoSearch EXCEPT !.listed = listed, !.filtered = FALSE], <<>>)
    /\ UNCHANGED <<store, index, steady, writes>>

\* The collection cannot be read or made, or the question has no vector: the
\* search raises, and of the callers the product lookup goes on with the catalog.
SearchRaises ==
    /\ search.pc \in {"idle", "vector"} \/ (search.pc = "text" /\ search.pass = 1)
    /\ \/ search.caller # "products" /\ search' = [NoSearch EXCEPT !.pc = "raised"]
       \/ search.caller = "products" /\ LookedUp([search EXCEPT !.filtered = FALSE], <<>>)
    /\ UNCHANGED <<store, index, steady, writes>>

\* An ingest upserts a record: its text, and with it its vector, may be others.
Upserted ==
    /\ search.pc \in {"text", "vector"} /\ writes < MaxWrites
    /\ \E p \in Points, fields \in Matches :
          index' = [index EXCEPT ![store][p] = fields]
    /\ writes' = writes + 1
    /\ UNCHANGED <<store, search, steady>>

SearchNext ==
    SearchBegins \/ CatalogAlone \/ SearchRaises \/ TextPass \/ TextPassFails \/ VectorPass
        \/ Upserted

SearchSpec == SearchInit /\ [][SearchNext]_searchVars

-----------------------------------------------------------------------------
(* Properties *)

\* Whatever is written between its passes and whichever of them fail, a search
\* names no record twice, none of another module and never more than asked for.
\* It leaves a place empty only when every record of the module that was there
\* all along is named or, in an entity search, scored too low.  An entity search
\* leaves none out that scored better, under any spelling of the question, than
\* one it names, and a lookup leaves out no product the catalog listed but for
\* ones at least as like the question, wherever they came from.
AnswersAsked ==
    search.pc = "done" =>
        LET named == ToSet(search.rows)
            low(p) == \A f \in search.found : f[1] = p => f[2] < MinScore
            others == IF search.caller = "box" THEN {} ELSE Others
            limit == IF search.caller = "products" THEN ProductLimit ELSE LimitAsked
        IN  /\ IsInjective(search.rows)
            /\ named \cap others = {}
            /\ Len(search.rows) <= limit
            /\ search.filtered /\ Len(search.rows) < limit =>
                   \A p \in steady \ (others \union named) :
                       search.caller = "entities" /\ low(p)
            /\ search.caller = "entities" =>
                   \A f \in search.found : f[1] \notin named /\ f[2] >= MinScore =>
                       /\ Len(search.rows) = LimitAsked
                       /\ \A p \in named : \E g \in search.found : g[1] = p /\ g[2] >= f[2]
            /\ \A p \in search.listed \ named :
                   /\ Len(search.rows) = limit
                   /\ \A q \in named : search.like[q] >= search.like[p]
=============================================================================
