------------------------ MODULE DocumentQueryProofs ------------------------
(***************************************************************************)
(* Paging through a tool's results, for any archive, any inputs and any    *)
(* page sizes.  Three things are put together: that a selection lists each *)
(* selected element once and in order, that the parameters sent select     *)
(* what the tool promises, and that the pages of a walk are adjacent.      *)
(***************************************************************************)
EXTENDS DocumentQuery, FiniteSetTheorems, SequenceTheorems, TLAPS

\* A position is counted by the positions up to it.
UpTo(P, i) == {j \in P : j <= i}

Rank(P, i) == Cardinality(UpTo(P, i))

LEMMA RankType ==
    ASSUME NEW P \in SUBSET Nat, IsFiniteSet(P), NEW i \in P
    PROVE  /\ Cardinality(P) \in Nat
           /\ IsFiniteSet(UpTo(P, i))
           /\ Rank(P, i) \in 1 .. Cardinality(P)
<1>1. UpTo(P, i) \in SUBSET P /\ i \in UpTo(P, i)
  BY DEF UpTo
<1>2. IsFiniteSet(UpTo(P, i)) /\ Rank(P, i) <= Cardinality(P)
  BY <1>1, FS_Subset DEF Rank
<1>3. Rank(P, i) \in Nat /\ Cardinality(P) \in Nat
  BY <1>2, FS_CardinalityType DEF Rank
<1>4. Rank(P, i) # 0
  BY <1>1, <1>2, FS_EmptySet DEF Rank
<1> QED
  BY <1>2, <1>3, <1>4

LEMMA RankGrows ==
    ASSUME NEW P \in SUBSET Nat, IsFiniteSet(P), NEW i \in P, NEW k \in P, i < k
    PROVE  Rank(P, i) < Rank(P, k)
<1>1. \A j \in P : j <= i => j <= k
  OBVIOUS
<1>2. UpTo(P, i) \in SUBSET UpTo(P, k)
  BY <1>1 DEF UpTo
<1>3. k \in UpTo(P, k) /\ k \notin UpTo(P, i)
  BY DEF UpTo
<1>4. UpTo(P, i) # UpTo(P, k)
  BY <1>3
<1>5. Rank(P, i) <= Rank(P, k) /\ Rank(P, i) # Rank(P, k)
  BY <1>2, <1>4, RankType, FS_Subset DEF Rank
<1> QED
  BY <1>5, RankType

LEMMA RankIsUnique ==
    ASSUME NEW P \in SUBSET Nat, IsFiniteSet(P), NEW i \in P, NEW k \in P,
           Rank(P, i) = Rank(P, k)
    PROVE  i = k
<1>1. ~(i < k) /\ ~(k < i)
  BY RankGrows, RankType
<1> QED
  BY <1>1

\* Ranks go from one to the number of positions, and each belongs to a position.
LEMMA NthFacts ==
    ASSUME NEW P \in SUBSET Nat, IsFiniteSet(P), NEW n \in 1 .. Cardinality(P)
    PROVE  Nth(P, n) \in P /\ Rank(P, Nth(P, n)) = n
<1> DEFINE rank == [i \in P |-> Rank(P, i)]
<1>1. Cardinality(P) \in Nat
  BY FS_CardinalityType
<1>2. rank \in [P -> 1 .. Cardinality(P)]
  BY RankType
<1>3. rank \in Injection(P, 1 .. Cardinality(P))
  BY <1>2, RankIsUnique DEF Injection, IsInjective
<1> HIDE DEF rank
<1>4. IsFiniteSet(1 .. Cardinality(P)) /\ Cardinality(1 .. Cardinality(P)) = Cardinality(P)
  BY <1>1, FS_Interval
<1>5. rank \in Surjection(P, 1 .. Cardinality(P))
  BY <1>3, <1>4, FS_Injection
<1>6. \E i \in P : rank[i] = n
  BY <1>5 DEF Surjection
<1>7. \E i \in P : Rank(P, i) = n
  BY <1>6 DEF rank
<1> QED
  BY <1>7 DEF Nth, Rank, UpTo

\* The n-th position comes before the later ones, and every position is the
\* n-th for some n: a selection repeats and leaves out nothing.
LEMMA NthIsOrdered ==
    ASSUME NEW P \in SUBSET Nat, IsFiniteSet(P)
    PROVE  /\ \A m, n \in 1 .. Cardinality(P) : m < n => Nth(P, m) < Nth(P, n)
           /\ \A i \in P : \E n \in 1 .. Cardinality(P) : Nth(P, n) = i
<1>0. Cardinality(P) \in Nat
  BY FS_CardinalityType
<1>1. ASSUME NEW m \in 1 .. Cardinality(P), NEW n \in 1 .. Cardinality(P), m < n
      PROVE  Nth(P, m) < Nth(P, n)
  <2>1. /\ Nth(P, m) \in P /\ Rank(P, Nth(P, m)) = m
        /\ Nth(P, n) \in P /\ Rank(P, Nth(P, n)) = n
    BY NthFacts
  <2> DEFINE a == Nth(P, m)
             b == Nth(P, n)
  <2> HIDE DEF a, b
  <2>2. a \in P /\ b \in P
    BY <2>1, Zenon DEF a, b
  <2>3. Rank(P, a) = m /\ Rank(P, b) = n
    BY <2>1, Zenon DEF a, b
  <2>4. b < a => Rank(P, b) < Rank(P, a)
    BY <2>2, RankGrows
  <2>5. m \in Nat /\ n \in Nat /\ a \in Nat /\ b \in Nat
    BY <1>0, <2>2
  <2>6. a < b
    BY <1>1, <2>3, <2>4, <2>5
  <2> QED
    BY <2>6 DEF a, b
<1>2. ASSUME NEW i \in P
      PROVE  Nth(P, Rank(P, i)) = i /\ Rank(P, i) \in 1 .. Cardinality(P)
  <2>1. Rank(P, i) \in 1 .. Cardinality(P)
    BY RankType
  <2>2. Nth(P, Rank(P, i)) \in P /\ Rank(P, Nth(P, Rank(P, i))) = Rank(P, i)
    BY <2>1, NthFacts
  <2> DEFINE k == Nth(P, Rank(P, i))
  <2>3. k \in P /\ Rank(P, k) = Rank(P, i)
    BY <2>2
  <2> HIDE DEF k
  <2>4. k = i
    BY <2>3, RankIsUnique
  <2> QED
    BY <2>1, <2>4 DEF k
<1> QED
  BY <1>1, <1>2

LEMMA SelectedIsSequence ==
    ASSUME NEW S, NEW list \in Seq(S), NEW P \in SUBSET DOMAIN list
    PROVE  /\ Selected(list, P) \in Seq({list[i] : i \in DOMAIN list})
           /\ Len(Selected(list, P)) = Cardinality(P)
<1>1. DOMAIN list = 1 .. Len(list) /\ Len(list) \in Nat
  BY LenProperties
<1>2. P \in SUBSET Nat /\ IsFiniteSet(P)
  <2>1. IsFiniteSet(1 .. Len(list))
    BY <1>1, FS_Interval
  <2> QED
    BY <1>1, <2>1, FS_Subset
<1>3. Cardinality(P) \in Nat
  BY <1>2, FS_CardinalityType
<1>4. \A n \in 1 .. Cardinality(P) : Nth(P, n) \in DOMAIN list
  BY <1>2, NthFacts
<1>5. Selected(list, P) \in [1 .. Cardinality(P) -> {list[i] : i \in DOMAIN list}]
  BY <1>4 DEF Selected
<1> QED
  BY <1>3, <1>5, LenProperties, SeqDef

-----------------------------------------------------------------------------
LEMMA InputFacts ==
    ASSUME NEW in \in Inputs
    PROVE  /\ in.tool \in Tool /\ in.page \in Int /\ in.size \in Int
           /\ in.filter \in Filter
           /\ NormalizedPageSize(in.size) \in 1 .. MaxPageSize
<1>1. in \in [tool : Tool, filter : Filter, page : Int, size : Int]
  BY InputAssumption
<1> QED
  BY <1>1, PageSizeAssumption DEF NormalizedPageSize

\* The list a tool is about, and what it may hold.
LEMMA StoreFacts ==
    ASSUME NEW in \in Inputs
    PROVE  /\ Store[Endpoint(in.tool)] \in Seq(Document) \cup Seq(Entity)
           /\ Endpoint(in.tool) = "documents" =>
                 Store[Endpoint(in.tool)] \in Seq(Document)
BY StoreAssumption DEF Endpoint

\* The parameters of a request.
LEMMA ParamFacts ==
    ASSUME NEW name, NEW value, NEW present \in BOOLEAN, NEW doc
    PROVE  (\A param \in Param(name, value, present) : Satisfies(doc, param))
               <=> (present => Satisfies(doc, <<name, value>>))
BY Zenon DEF Param

LEMMA SearchQueryMeans ==
    ASSUME NEW f, f.corr \in Int, f.after \in Int, f.before \in Int,
           NEW doc \in Document
    PROVE  (\A param \in SearchQuery(f) : Satisfies(doc, param)) <=>
             /\ f.query # "" => f.query \in doc.text
             /\ f.corr > 0 => doc.corr = f.corr
             /\ f.tags \subseteq doc.tags
             /\ f.after # 0 => doc.created >= f.after
             /\ f.before # 0 => doc.created <= f.before
<1> DEFINE tagParams == {<<"tags__id__all", t>> : t \in f.tags}
<1>1. (\A param \in SearchQuery(f) : Satisfies(doc, param)) <=>
         /\ \A param \in Param("query", f.query, f.query # "") : Satisfies(doc, param)
         /\ \A param \in Param("correspondent__id", f.corr, f.corr > 0) : Satisfies(doc, param)
         /\ \A param \in tagParams : Satisfies(doc, param)
         /\ \A param \in Param("created__date__gte", f.after, f.after # 0) : Satisfies(doc, param)
         /\ \A param \in Param("created__date__lte", f.before, f.before # 0) : Satisfies(doc, param)
  BY Zenon DEF SearchQuery
<1>2. (\A param \in tagParams : Satisfies(doc, param)) <=>
         \A t \in f.tags : Satisfies(doc, <<"tags__id__all", t>>)
  BY Zenon
<1>3. ASSUME NEW v
      PROVE  /\ Satisfies(doc, <<"query", v>>) <=> v \in doc.text
             /\ Satisfies(doc, <<"correspondent__id", v>>) <=> v = doc.corr
             /\ Satisfies(doc, <<"tags__id__all", v>>) <=> v \in doc.tags
             /\ Satisfies(doc, <<"created__date__gte", v>>) <=> v <= doc.created
             /\ Satisfies(doc, <<"created__date__lte", v>>) <=> v >= doc.created
  BY DEF Satisfies
<1>4. doc.created \in Int
  BY DEF Document
<1> HIDE DEF tagParams
<1>5. /\ (\A param \in Param("query", f.query, f.query # "") : Satisfies(doc, param))
           <=> (f.query # "" => f.query \in doc.text)
      /\ (\A param \in Param("correspondent__id", f.corr, f.corr > 0) : Satisfies(doc, param))
           <=> (f.corr > 0 => f.corr = doc.corr)
      /\ (\A param \in Param("created__date__gte", f.after, f.after # 0) : Satisfies(doc, param))
           <=> (f.after # 0 => f.after <= doc.created)
      /\ (\A param \in Param("created__date__lte", f.before, f.before # 0) : Satisfies(doc, param))
           <=> (f.before # 0 => f.before >= doc.created)
  <2>1. /\ (f.query # "") \in BOOLEAN /\ (f.corr > 0) \in BOOLEAN
        /\ (f.after # 0) \in BOOLEAN /\ (f.before # 0) \in BOOLEAN
    OBVIOUS
  <2> QED
    BY <2>1, <1>3, ParamFacts, Zenon
<1>6. (\A param \in tagParams : Satisfies(doc, param)) <=> f.tags \subseteq doc.tags
  BY <1>2, <1>3
<1>7. /\ f.after <= doc.created <=> doc.created >= f.after
      /\ f.before >= doc.created <=> doc.created <= f.before
  BY <1>4
<1> QED
  BY <1>1, <1>5, <1>6, <1>7

LEMMA NameQueryMeans ==
    ASSUME NEW f, NEW doc
    PROVE  (\A param \in NameQuery(f) : Satisfies(doc, param))
               <=> (f.query # "" => f.query \in doc.text)
<1>1. Satisfies(doc, <<"name__icontains", f.query>>) <=> f.query \in doc.text
  BY DEF Satisfies
<1>2. (f.query # "") \in BOOLEAN
  OBVIOUS
<1> QED
  BY <1>1, <1>2, ParamFacts, Zenon DEF NameQuery

\* What is sent to Paperless-ngx selects what the tool promises, as the ids
\* of a sensible input are positive where they are required.
LEMMA QueryKeepsPromise ==
    ASSUME NEW in \in Inputs, Sensible(in),
           NEW i \in DOMAIN Store[Endpoint(in.tool)]
    PROVE  (\A param \in QueryOf(in) : Satisfies(Store[Endpoint(in.tool)][i], param))
               <=> Promised(in, Store[Endpoint(in.tool)][i])
<1> DEFINE doc == Store[Endpoint(in.tool)][i]
           f == in.filter
<1>1. in.tool \in Tool /\ f \in Filter
  BY InputFacts
<1>2. f.corr \in Int /\ f.after \in Int /\ f.before \in Int
  BY <1>1 DEF Filter
<1>3. CASE Endpoint(in.tool) = "documents"
  <2>1. Store[Endpoint(in.tool)] \in Seq(Document)
    BY <1>3, StoreFacts
  <2>2. doc \in Document
    BY <2>1, ElementOfSeq, LenProperties
  <2> DEFINE g == SearchParams(in)
  <2>3. g.corr \in Int /\ g.after \in Int /\ g.before \in Int =>
          ((\A param \in QueryOf(in) : Satisfies(doc, param)) <=>
          /\ g.query # "" => g.query \in doc.text
          /\ g.corr > 0 => doc.corr = g.corr
          /\ g.tags \subseteq doc.tags
          /\ g.after # 0 => doc.created >= g.after
          /\ g.before # 0 => doc.created <= g.before)
    BY <1>3, <2>2, SearchQueryMeans, Zenon DEF QueryOf
  <2> HIDE DEF doc, g
  <2>5. CASE in.tool = "search_documents"
    <3>1. g = f
      BY <2>5 DEF SearchParams, g
    <3>2. f.corr > 0 <=> f.corr # 0
      <4>1. f.corr >= 0
        BY DEF Sensible
      <4> QED
        BY <1>2, <4>1
    <3>3. Promised(in, doc) <=>
            /\ f.query # "" => f.query \in doc.text
            /\ f.corr # 0 => doc.corr = f.corr
            /\ f.tags \subseteq doc.tags
            /\ f.after # 0 => doc.created >= f.after
            /\ f.before # 0 => doc.created <= f.before
      BY <2>5 DEF Promised
    <3> QED
      BY <1>2, <2>3, <3>1, <3>2, <3>3 DEF doc
  <2>6. CASE in.tool = "get_documents_by_correspondent"
    <3>1. g = [NoFilter EXCEPT !.corr = f.corr] /\ f.corr > 0
      BY <2>6 DEF SearchParams, g, Sensible
    <3>2. /\ g.corr = f.corr /\ g.tags = {} /\ g.after = 0
          /\ g.before = 0
      BY <3>1 DEF NoFilter
    <3>3. g.query = ""
      BY <3>1 DEF NoFilter
    <3>4. Promised(in, doc) <=> doc.corr = f.corr
      BY <2>6 DEF Promised
    <3>5. g.corr \in Int /\ g.after \in Int /\ g.before \in Int
      BY <1>2, <3>2
    <3>6. g.query # "" => g.query \in doc.text
      BY <3>3
    <3>7. /\ g.corr > 0 => doc.corr = g.corr
          /\ g.tags \subseteq doc.tags
          /\ g.after # 0 => doc.created >= g.after
          /\ g.before # 0 => doc.created <= g.before
          <=> doc.corr = f.corr
      BY <1>2, <3>1, <3>2
    <3>8. (\A param \in QueryOf(in) : Satisfies(doc, param)) <=> doc.corr = f.corr
      BY <2>3, <3>5, <3>6, <3>7, Zenon
    <3> QED
      BY <3>4, <3>8 DEF doc
  <2>7. CASE in.tool = "get_documents_by_tag"
    <3>1. g = [NoFilter EXCEPT !.tags = f.tags]
      BY <2>7 DEF SearchParams, g
    <3>2. /\ g.corr = 0 /\ g.tags = f.tags /\ g.after = 0
          /\ g.before = 0
      BY <3>1 DEF NoFilter
    <3>3. g.query = ""
      BY <3>1 DEF NoFilter
    <3>4. Promised(in, doc) <=> f.tags \subseteq doc.tags
      BY <2>7 DEF Promised
    <3>5. g.corr \in Int /\ g.after \in Int /\ g.before \in Int
      BY <1>2, <3>2
    <3>6. g.query # "" => g.query \in doc.text
      BY <3>3
    <3>7. /\ g.corr > 0 => doc.corr = g.corr
          /\ g.tags \subseteq doc.tags
          /\ g.after # 0 => doc.created >= g.after
          /\ g.before # 0 => doc.created <= g.before
          <=> f.tags \subseteq doc.tags
      BY <1>2, <3>2
    <3>8. (\A param \in QueryOf(in) : Satisfies(doc, param)) <=> f.tags \subseteq doc.tags
      BY <2>3, <3>5, <3>6, <3>7, Zenon
    <3> QED
      BY <3>4, <3>8 DEF doc
  <2>8. CASE in.tool = "fulltext_search"
    <3>1. g = [NoFilter EXCEPT !.query = f.query] /\ f.query # ""
      BY <2>8 DEF SearchParams, g, Sensible
    <3>2. /\ g.corr = 0 /\ g.tags = {} /\ g.after = 0
          /\ g.before = 0
      BY <3>1 DEF NoFilter
    <3>3. g.query = f.query
      BY <3>1 DEF NoFilter
    <3>4. Promised(in, doc) <=> f.query \in doc.text
      BY <2>8 DEF Promised
    <3>5. g.corr \in Int /\ g.after \in Int /\ g.before \in Int
      BY <1>2, <3>2
    <3>6. (g.query # "" => g.query \in doc.text) <=> f.query \in doc.text
      BY <3>3, <3>1
    <3>7. /\ g.corr > 0 => doc.corr = g.corr
          /\ g.tags \subseteq doc.tags
          /\ g.after # 0 => doc.created >= g.after
          /\ g.before # 0 => doc.created <= g.before
      BY <1>2, <3>2
    <3>8. (\A param \in QueryOf(in) : Satisfies(doc, param)) <=> f.query \in doc.text
      BY <2>3, <3>5, <3>6, <3>7, Zenon
    <3> QED
      BY <3>4, <3>8 DEF doc
  <2> QED
    BY <1>1, <1>3, <2>5, <2>6, <2>7, <2>8 DEF Tool, Endpoint
<1>4. CASE Endpoint(in.tool) # "documents"
  <2>1. in.tool \in {"search_correspondents", "list_tags"}
    BY <1>1, <1>4 DEF Tool, Endpoint
  <2>2. QueryOf(in) = NameQuery(f)
    BY <1>4 DEF QueryOf
  <2> HIDE DEF doc
  <2>3. Promised(in, doc) <=> (f.query # "" => f.query \in doc.text)
    BY <2>1 DEF Promised
  <2> QED
    BY <2>2, <2>3, NameQueryMeans DEF doc
<1> QED
  BY <1>3, <1>4

\* Everything a tool finds, page by page.
Result(in) == Found(Endpoint(in.tool), QueryOf(in))

LEMMA ResultType ==
    ASSUME NEW in \in Inputs
    PROVE  Result(in) \in Seq(Listed(in)) /\ Len(Result(in)) \in Nat
<1> DEFINE list == Store[Endpoint(in.tool)]
           P == {i \in DOMAIN list : \A param \in QueryOf(in) : Satisfies(list[i], param)}
<1>1. list \in Seq(Document) \/ list \in Seq(Entity)
  BY StoreFacts
<1>2. Result(in) = Selected(list, P) /\ P \in SUBSET DOMAIN list
  BY Zenon DEF Result, Found
<1> HIDE DEF list, P
<1>3. Selected(list, P) \in Seq({list[i] : i \in DOMAIN list})
  BY <1>1, <1>2, SelectedIsSequence
<1>4. Result(in) \in Seq(Listed(in))
  BY <1>2, <1>3 DEF list, Listed
<1> QED
  BY <1>4, LenProperties

LEMMA ResultIsWanted ==
    ASSUME NEW in \in Inputs, Sensible(in)
    PROVE  Result(in) = Wanted(in)
<1>1. {i \in DOMAIN Store[Endpoint(in.tool)] :
          \A param \in QueryOf(in) : Satisfies(Store[Endpoint(in.tool)][i], param)}
        = {i \in DOMAIN Store[Endpoint(in.tool)] :
             Promised(in, Store[Endpoint(in.tool)][i])}
  BY QueryKeepsPromise
<1> QED
  BY <1>1, Zenon DEF Result, Found, Wanted

-----------------------------------------------------------------------------
\* Until it has everything, a walk from the start has whole pages only, and
\* the page it asks for next exists.
WalkInv ==
    input.page <= 1 =>
        LET p == NormalizedPage(page)
            size == NormalizedPageSize(input.size)
        IN  /\ state # "failed"
            /\ state = "done" => got = Result(input)
            /\ state = "asking" =>
                  /\ got = SubSeq(Result(input), 1, (p - 1) * size)
                  /\ p = 1 \/ (p - 1) * size < Len(Result(input))

DInv == TypeOK /\ WalkInv

LEMMA PageFacts ==
    ASSUME NEW in \in Inputs, NEW p \in Nat \ {0}
    PROVE  LET size == NormalizedPageSize(in.size)
               result == Result(in)
               m == (p - 1) * size
           IN  /\ m \in Nat /\ p * size = m + size /\ p * size \in Nat
               /\ size \in Nat \ {0}
               /\ PageOf(result, p, size) \in Seq(Listed(in))
               /\ m <= Len(result) =>
                     SubSeq(result, 1, m) \o PageOf(result, p, size)
                       = SubSeq(result, 1, IF p * size < Len(result)
                                           THEN p * size ELSE Len(result))
<1> DEFINE size == NormalizedPageSize(in.size)
           result == Result(in)
           m == (p - 1) * size
           n == IF p * size < Len(result) THEN p * size ELSE Len(result)
<1>1. size \in Nat \ {0}
  BY InputFacts
<1>2. result \in Seq(Listed(in)) /\ Len(result) \in Nat
  BY ResultType
<1> HIDE DEF size, result
<1>3. m \in Nat /\ p * size = m + size /\ p * size \in Nat
  BY <1>1
<1>4. n \in Nat /\ n <= Len(result) /\ (m <= Len(result) => m <= n)
  BY <1>1, <1>2, <1>3
<1>5. PageOf(result, p, size) = SubSeq(result, m + 1, n)
  BY DEF PageOf
<1> HIDE DEF m, n
<1>6. \A i \in (m + 1) .. n : result[i] \in Listed(in)
  BY <1>2, <1>3, <1>4, ElementOfSeq
<1>7. SubSeq(result, m + 1, n) \in Seq(Listed(in))
  BY <1>3, <1>4, <1>6, SubSeqProperties
<1>8. ASSUME m <= Len(result)
      PROVE  SubSeq(result, 1, m) \o SubSeq(result, m + 1, n) = SubSeq(result, 1, n)
  <2>1. 1 \in 1 .. Len(result) + 1 /\ m \in 1 - 1 .. Len(result) /\ n \in m .. Len(result)
    BY <1>2, <1>3, <1>4, <1>8
  <2> QED
    BY <1>2, <2>1, ConcatAdjacentSubSeq
<1> QED
  BY <1>1, <1>3, <1>5, <1>7, <1>8 DEF size, result, m, n

LEMMA InitInv == Init => DInv
<1> SUFFICES ASSUME Init PROVE DInv
  OBVIOUS
<1>1. input \in Inputs /\ page = input.page /\ page \in Int
  BY InputFacts DEF Init
<1>2. sent \in [page : Nat \ {0}, size : 1 .. MaxPageSize]
  BY PageSizeAssumption DEF Init
<1>3. got = <<>> /\ state = "asking"
  BY DEF Init
<1>4. got \in Seq(Listed(input))
  BY <1>3, EmptySeq
<1>5. ASSUME input.page <= 1
      PROVE  /\ NormalizedPage(page) = 1
             /\ got = SubSeq(Result(input), 1, (1 - 1) * NormalizedPageSize(input.size))
  <2>1. NormalizedPage(page) = 1
    BY <1>1, <1>5 DEF NormalizedPage
  <2>2. (1 - 1) * NormalizedPageSize(input.size) = 0
    BY <1>1, InputFacts
  <2> QED
    BY <1>3, <2>1, <2>2, SubSeqEmpty
<1> QED
  BY <1>1, <1>2, <1>3, <1>4, <1>5 DEF DInv, TypeOK, WalkInv

LEMMA NextInv == DInv /\ [Next]_vars => DInv'
<1> SUFFICES ASSUME DInv, [Next]_vars PROVE DInv'
  OBVIOUS
<1>1. CASE CallTool
  <2> DEFINE p == NormalizedPage(page)
             size == NormalizedPageSize(input.size)
             result == Result(input)
             m == (p - 1) * size
             n == IF p * size < Len(result) THEN p * size ELSE Len(result)
  <2>1. /\ input \in Inputs /\ page \in Int /\ got \in Seq(Listed(input))
        /\ input' = input /\ state = "asking"
    BY <1>1 DEF DInv, TypeOK, CallTool
  <2>2. p \in Nat \ {0} /\ NormalizedPage(p + 1) = p + 1
    BY <2>1 DEF NormalizedPage
  <2>3. /\ m \in Nat /\ p * size = m + size /\ p * size \in Nat
        /\ size \in Nat \ {0}
        /\ PageOf(result, p, size) \in Seq(Listed(input))
        /\ m <= Len(result) => SubSeq(result, 1, m) \o PageOf(result, p, size)
                                 = SubSeq(result, 1, n)
    BY <2>1, <2>2, PageFacts
  <2>4. /\ sent' = [page |-> p, size |-> size] /\ page' = p + 1
        /\ \/ /\ HasPage(result, p, size)
              /\ got' = got \o PageOf(result, p, size)
              /\ state' = IF Len(got') >= Len(result) THEN "done" ELSE "asking"
           \/ ~HasPage(result, p, size) /\ state' = "failed" /\ got' = got
    BY <1>1 DEF CallTool, Result
  <2>5. size \in 1 .. MaxPageSize
    BY <2>1, InputFacts
  <2>6. result \in Seq(Listed(input)) /\ Len(result) \in Nat
    BY <2>1, ResultType
  <2>7. input.page <= 1 =>
          /\ got = SubSeq(result, 1, m)
          /\ p = 1 \/ m < Len(result)
    BY <2>1 DEF DInv, WalkInv
  <2> HIDE DEF p, size, result
  <2>8. TypeOK'
    <3>1. got' \in Seq(Listed(input))
      BY <2>1, <2>3, <2>4, ConcatProperties
    <3>2. Listed(input)' = Listed(input)
      BY <2>1 DEF Listed
    <3>3. sent' \in [page : Nat \ {0}, size : 1 .. MaxPageSize]
      BY <2>2, <2>4, <2>5
    <3>4. state' \in {"asking", "done", "failed"} /\ page' \in Int
      BY <2>2, <2>4
    <3> QED
      BY <2>1, <3>1, <3>2, <3>3, <3>4 DEF TypeOK
  <2>9. ASSUME input.page <= 1
        PROVE  /\ state' # "failed"
               /\ state' = "done" => got' = result
               /\ state' = "asking" => /\ got' = SubSeq(result, 1, p * size)
                                       /\ p * size < Len(result)
    <3>1. HasPage(result, p, size) /\ m <= Len(result)
      BY <2>2, <2>3, <2>6, <2>7, <2>9 DEF HasPage
    <3>2. got' = SubSeq(result, 1, n)
      BY <2>3, <2>4, <2>7, <2>9, <3>1
    <3>3. n \in 0 .. Len(result)
      BY <2>3, <2>6
    <3> HIDE DEF n
    <3>4. Len(got') = n
      BY <2>6, <3>2, <3>3, ElementOfSeq, SubSeqProperties
    <3>5. n = Len(result) => got' = result
      BY <2>6, <3>2, SubSeqFull
    <3>6. state' = IF Len(got') >= Len(result) THEN "done" ELSE "asking"
      BY <2>4, <3>1
    <3>7. n < Len(result) => n = p * size
      BY <2>3, <2>6 DEF n
    <3>8. CASE n = Len(result)
      BY <2>6, <3>4, <3>5, <3>6, <3>8
    <3>9. CASE n < Len(result)
      <4>1. state' = "asking"
        BY <2>6, <3>3, <3>4, <3>6, <3>9
      <4> QED
        BY <3>2, <3>7, <3>9, <4>1
    <3> QED
      BY <2>6, <3>3, <3>8, <3>9
  <2>10. WalkInv'
    <3>1. /\ NormalizedPage(page') = p + 1 /\ (p + 1) - 1 = p
          /\ NormalizedPageSize(input'.size) = size /\ Result(input') = result
      BY <2>1, <2>2, <2>4 DEF size, result
    <3> QED
      BY <2>1, <2>9, <3>1 DEF WalkInv
  <2> QED
    BY <2>8, <2>10 DEF DInv
<1>2. CASE UNCHANGED vars
  BY <1>2 DEF DInv, TypeOK, WalkInv, Result, Listed, vars
<1> QED
  BY <1>1, <1>2 DEF Next

LEMMA Invariance == Spec => []DInv
BY InitInv, NextInv, PTL DEF Spec

\* Every variable keeps its type; what the client is given comes from the list
\* the tool is about, and a page size sent is in the range of tools.go:180-184.
THEOREM TypeCorrect == Spec => []TypeOK
<1>1. DInv => TypeOK
  BY DEF DInv
<1> QED
  BY Invariance, <1>1, PTL

\* A client that pages from the start with a sensible input gets what the tool
\* promises, in order, once each, however it chose the size of its pages
\* (tools.go:176-184, service.go:39-90, client.go:117-193, 352-373).
THEOREM WalksAreComplete == Spec => []WalkIsComplete
<1>1. DInv => WalkIsComplete
  <2> SUFFICES ASSUME DInv, Sensible(input), input.page <= 1
               PROVE  /\ got = SubSeq(Wanted(input), 1, Len(got))
                      /\ state = "done" => got = Wanted(input)
                      /\ state # "failed"
    BY DEF WalkIsComplete
  <2> DEFINE m == (NormalizedPage(page) - 1) * NormalizedPageSize(input.size)
  <2>1. input \in Inputs /\ page \in Int /\ state \in {"asking", "done", "failed"}
    BY DEF DInv, TypeOK
  <2>2. Result(input) = Wanted(input)
    BY <2>1, ResultIsWanted
  <2>3. Result(input) \in Seq(Listed(input)) /\ Len(Result(input)) \in Nat
    BY <2>1, ResultType
  <2>4. state # "failed" /\ (state = "done" => got = Result(input))
    BY DEF DInv, WalkInv
  <2>5. CASE state = "done"
    BY <2>2, <2>3, <2>4, <2>5, SubSeqFull
  <2>6. CASE state = "asking"
    <3>1. NormalizedPage(page) \in Nat \ {0}
      BY <2>1 DEF NormalizedPage
    <3>2. m \in Nat
      BY <2>1, <3>1, PageFacts
    <3>3. got = SubSeq(Result(input), 1, m) /\ (NormalizedPage(page) = 1 \/ m < Len(Result(input)))
      BY <2>6 DEF DInv, WalkInv
    <3>4. NormalizedPage(page) = 1 => m = 0
      BY <2>1, InputFacts
    <3> HIDE DEF m
    <3>5. m \in 0 .. Len(Result(input))
      BY <2>3, <3>2, <3>3, <3>4
    <3>6. Len(got) = m
      BY <2>3, <3>3, <3>5, ElementOfSeq, SubSeqProperties
    <3> QED
      BY <2>2, <2>4, <3>3, <3>6
  <2> QED
    BY <2>1, <2>4, <2>5, <2>6
<1> QED
  BY Invariance, <1>1, PTL
=============================================================================
