--------------------------- MODULE MCDocumentQuery ---------------------------
(***************************************************************************)
(* A small instance of DocumentQuery: five documents, two correspondents   *)
(* (and documents without one), two tags, two words, three dates; four     *)
(* correspondents and tags to list; pages of at most three, two by         *)
(* default.                                                                *)
(***************************************************************************)
EXTENDS DocumentQuery

Documents == <<
    [corr |-> 1, tags |-> {1, 2}, text |-> {"tax"},         created |-> 1],
    [corr |-> 0, tags |-> {},     text |-> {"tax", "rent"}, created |-> 2],
    [corr |-> 1, tags |-> {2},    text |-> {"rent"},        created |-> 2],
    [corr |-> 2, tags |-> {1},    text |-> {"tax"},         created |-> 3],
    [corr |-> 1, tags |-> {1, 2}, text |-> {"tax", "rent"}, created |-> 3] >>

Named == << [id |-> 1, text |-> {"tax", "office"}], [id |-> 2, text |-> {"bank"}],
            [id |-> 3, text |-> {"tax"}],           [id |-> 4, text |-> {"tax"}] >>

MCStore == [documents |-> Documents, correspondents |-> Named, tags |-> Named]

DocumentTools == {"search_documents", "get_documents_by_correspondent",
          "get_documents_by_tag", "fulltext_search"}

Filters == [query : {"", "tax"}, corr : 0 .. 2, tags : SUBSET {1, 2},
            after : {0, 2}, before : {0, 2}]

\* get_documents_by_tag takes one tag; -1 is an id a client may send as well.
MCInputs ==
    {in \in [tool : DocumentTools, filter : Filters, page : {-1, 0, 1, 2},
             size : {-1, 0, 1, 3, 4}] :
        in.tool = "get_documents_by_tag" => in.filter.tags \in {{1}, {2}}}
    \cup [tool : {"get_documents_by_correspondent"},
          filter : {[NoFilter EXCEPT !.corr = -1]}, page : {1}, size : {0}]
    \cup [tool : {"search_correspondents", "list_tags"},
          filter : {[NoFilter EXCEPT !.query = q] : q \in {"", "tax"}},
          page : {-1, 0, 1, 2}, size : {-1, 0, 1, 3, 4}]
=============================================================================
