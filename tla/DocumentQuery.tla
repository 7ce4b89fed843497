---------------------------- MODULE DocumentQuery ----------------------------
(***************************************************************************)
(* What the six tools that list something, documents, correspondents or    *)
(* tags, ask Paperless-ngx for: from the tool's input (handlers/tools.go)  *)
(* over the parameters of the search (application/service.go) to the path  *)
(* and the query string (paperless/client.go), and the pages that come     *)
(* back.                                                                   *)
(*                                                                         *)
(* The actor is an MCP client that calls one tool over and over, page by   *)
(* page, until it has as many documents as the tool says there are.  The   *)
(* archive does not change meanwhile.  Paperless-ngx is external: it       *)
(* applies every parameter it is sent, tags__id__all once for each value,  *)
(* and refuses a page that does not exist.                                 *)
(***************************************************************************)
EXTENDS Integers, Sequences, FiniteSets

CONSTANTS
    Store,            \* what each endpoint lists, in the order of Paperless-ngx
    Inputs,           \* inputs the tool is called with
    DefaultPageSize,  \* 25 in the code
    MaxPageSize       \* 100 in the code

ASSUME PageSizeAssumption ==
    /\ DefaultPageSize \in Nat \ {0} /\ MaxPageSize \in Nat
    /\ DefaultPageSize <= MaxPageSize

Tool == {"search_documents", "get_documents_by_correspondent",
         "get_documents_by_tag", "fulltext_search", "search_correspondents",
         "list_tags"}

\* A text is the set of the words in it, and a date is a day.
Document == [corr : Int, tags : SUBSET Int, text : SUBSET STRING, created : Int]
Entity == [id : Int, text : SUBSET STRING]

Filter == [query : STRING, corr : Int, tags : SUBSET Int, after : Int,
           before : Int]

ASSUME StoreAssumption ==
    Store \in [documents : Seq(Document), correspondents : Seq(Entity),
               tags : Seq(Entity)]

ASSUME InputAssumption ==
    Inputs \subseteq [tool : Tool, filter : Filter, page : Int, size : Int]

VARIABLES
    input,   \* what the client asks for
    page,    \* the page it asks for next
    sent,    \* page and page_size of the last request to Paperless-ngx
    got,     \* what it has been given
    state    \* whether it goes on

vars == <<input, page, sent, got, state>>

-----------------------------------------------------------------------------
\* "" and 0 are the values of fields that the client leaves out.
NoFilter == [query |-> "", corr |-> 0, tags |-> {}, after |-> 0, before |-> 0]

\* Mistake: the size is checked against the wrong end of the range.
SizeUpToTwice(size) ==
    IF size <= 0 \/ size > 2 * MaxPageSize THEN DefaultPageSize ELSE size

NormalizedPage(p) == IF p <= 0 THEN 1 ELSE p

\* A size that is too large is not cut to the maximum: it becomes the default.
NormalizedPageSize(size) ==
    IF size <= 0 \/ size > MaxPageSize THEN DefaultPageSize ELSE size

\* The search parameters the document service makes of a tool's input.
SearchParams(in) ==
    CASE in.tool = "search_documents" -> in.filter
      [] in.tool = "get_documents_by_correspondent" ->
            [NoFilter EXCEPT !.corr = in.filter.corr]
      [] in.tool = "get_documents_by_tag" ->
            [NoFilter EXCEPT !.tags = in.filter.tags]
      [] in.tool = "fulltext_search" ->
            [NoFilter EXCEPT !.query = in.filter.query]

Param(name, value, present) == IF present THEN {<<name, value>>} ELSE {}

\* What the tool lists, by the repository its service asks.
Endpoint(tool) ==
    CASE tool = "search_correspondents" -> "correspondents"
      [] tool = "list_tags"             -> "tags"
      [] OTHER                          -> "documents"

\* Mistake: Set instead of Add, so that one tag remains of several.
QueryOfOneTag(f) ==
    Param("query", f.query, f.query # "")
        \cup Param("correspondent__id", f.corr, f.corr > 0)
        \cup Param("tags__id__all", CHOOSE t \in f.tags : TRUE, f.tags # {})
        \cup Param("created__date__gte", f.after, f.after # 0)
        \cup Param("created__date__lte", f.before, f.before # 0)

\* buildSearchQuery.
SearchQuery(f) ==
    Param("query", f.query, f.query # "")
        \cup Param("correspondent__id", f.corr, f.corr > 0)
        \cup {<<"tags__id__all", t>> : t \in f.tags}
        \cup Param("created__date__gte", f.after, f.after # 0)
        \cup Param("created__date__lte", f.before, f.before # 0)

\* fetchPaginated, for correspondents and tags.
NameQuery(f) == Param("name__icontains", f.query, f.query # "")

QueryOf(in) ==
    IF Endpoint(in.tool) = "documents"
    THEN SearchQuery(SearchParams(in)) ELSE NameQuery(in.filter)

\* How Paperless-ngx reads a parameter; a text, or a name, is the words in it.
Satisfies(doc, param) ==
    LET value == param[2]
    IN  CASE param[1] \in {"query", "name__icontains"} -> value \in doc.text
          [] param[1] = "correspondent__id"  -> value = doc.corr
          [] param[1] = "tags__id__all"      -> value \in doc.tags
          [] param[1] = "created__date__gte" -> value <= doc.created
          [] param[1] = "created__date__lte" -> value >= doc.created

\* The elements of a list at the given positions, in order; Nth is the n-th of
\* these positions.
Nth(positions, n) ==
    CHOOSE i \in positions : Cardinality({j \in positions : j <= i}) = n

Selected(list, positions) ==
    [n \in 1 .. Cardinality(positions) |-> list[Nth(positions, n)]]

Found(endpoint, query) ==
    Selected(Store[endpoint],
             {i \in DOMAIN Store[endpoint] :
                \A param \in query : Satisfies(Store[endpoint][i], param)})

\* Page p of a result, and whether it exists; the first one always does.
PageOf(result, p, size) ==
    SubSeq(result, (p - 1) * size + 1,
           IF p * size < Len(result) THEN p * size ELSE Len(result))

HasPage(result, p, size) == p = 1 \/ (p - 1) * size < Len(result)

-----------------------------------------------------------------------------
Init ==
    /\ input \in Inputs
    /\ page = input.page
    /\ sent = [page |-> 1, size |-> DefaultPageSize]
    /\ got = <<>>
    /\ state = "asking"

\* One call of the tool.  Its answer holds the page and the total number of all
\* there are; a page that does not exist makes it fail.
CallTool ==
    /\ state = "asking"
    /\ LET p == NormalizedPage(page)
           size == NormalizedPageSize(input.size)
           result == Found(Endpoint(input.tool), QueryOf(input))
       IN  /\ sent' = [page |-> p, size |-> size]
           /\ page' = p + 1
           /\ IF HasPage(result, p, size)
              THEN /\ got' = got \o PageOf(result, p, size)
                   /\ state' = IF Len(got') >= Len(result) THEN "done" ELSE "asking"
              ELSE state' = "failed" /\ UNCHANGED got
    /\ UNCHANGED input

Next == CallTool

Spec == Init /\ [][Next]_vars

-----------------------------------------------------------------------------
Listed(in) == {Store[Endpoint(in.tool)][i] : i \in DOMAIN Store[Endpoint(in.tool)]}

\* Every variable keeps its type.
TypeOK ==
    /\ input \in Inputs
    /\ page \in Int
    /\ sent \in [page : Nat \ {0}, size : 1 .. MaxPageSize]
    /\ got \in Seq(Listed(input))
    /\ state \in {"asking", "done", "failed"}

\* What the descriptions of the tools promise of what they list
\* (registration.go:82-135, SPEC.md:81, 137, 157, 177, 197, 217).
Promised(in, doc) ==
    LET f == in.filter
    IN  CASE in.tool = "search_documents" ->
               /\ f.query # "" => f.query \in doc.text
               /\ f.corr # 0 => doc.corr = f.corr
               /\ f.tags \subseteq doc.tags
               /\ f.after # 0 => doc.created >= f.after
               /\ f.before # 0 => doc.created <= f.before
          [] in.tool = "get_documents_by_correspondent" -> doc.corr = f.corr
          [] in.tool = "get_documents_by_tag" -> f.tags \subseteq doc.tags
          [] in.tool = "fulltext_search" -> f.query \in doc.text
          [] in.tool \in {"search_correspondents", "list_tags"} ->
               f.query # "" => f.query \in doc.text

Wanted(in) ==
    LET list == Store[Endpoint(in.tool)]
    IN  Selected(list, {i \in DOMAIN list : Promised(in, list[i])})

\* Inputs that name an existing kind of thing: ids of Paperless-ngx start at 1.
Sensible(in) ==
    /\ in.filter.corr >= 0
    /\ in.tool = "get_documents_by_correspondent" => in.filter.corr > 0
    /\ in.tool = "fulltext_search" => in.filter.query # ""

\* A client that pages through a tool's results from the start, with whatever
\* page size, gets everything the tool promises, in order, and nothing twice
\* (tools.go:176-184, service.go:39-90, client.go:117-193, 352-373).
WalkIsComplete ==
    Sensible(input) /\ input.page <= 1 =>
        /\ got = SubSeq(Wanted(input), 1, Len(got))
        /\ state = "done" => got = Wanted(input)
        /\ state # "failed"

\* SPEC.md:157 says that get_documents_by_correspondent lists the documents
\* belonging to a specific correspondent.
OnlyTheCorrespondents ==
    input.tool = "get_documents_by_correspondent" =>
        \A i \in 1 .. Len(got) : got[i].corr = input.filter.corr
=============================================================================
