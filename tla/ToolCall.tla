------------------------------ MODULE ToolCall ------------------------------
(***************************************************************************)
(* One MCP tool call, from the handler's point of view (handlers/tools.go, *)
(* through application/service.go): ask Paperless-ngx for the documents,   *)
(* look up the names of their correspondents and then of their document    *)
(* types, and answer.                                                      *)
(*                                                                         *)
(* resolveNames looks the names up concurrently: one goroutine for every   *)
(* id the page mentions, at most Limit at a time in a group, all of them   *)
(* writing into the group's map.  There is a group, with slots of its own, *)
(* for the correspondents and another for the types; only Wait keeps them  *)
(* apart.  A lookup that fails costs its documents a name and nothing      *)
(* else.  get_document_content looks its two names up one after the other. *)
(*                                                                         *)
(* Data is abstracted to what tells the properties apart: a document is    *)
(* its correspondent and its type, an entity is its id, and the name of an *)
(* entity is a value that belongs to it alone.                             *)
(***************************************************************************)
EXTENDS Naturals, FiniteSets

CONSTANTS
    Doc,       \* positions on a page of results
    CorrId,    \* correspondent ids
    TypeId,    \* document type ids
    Limit,     \* g.SetLimit: 20 in the code
    Nil        \* an absent id; the zero value of a name

ASSUME LimitAssumption == Limit \in Nat \ {0}

ASSUME IdAssumption ==
    /\ IsFiniteSet(CorrId) /\ IsFiniteSet(TypeId)
    /\ CorrId \cap TypeId = {}
    /\ Nil \notin CorrId \cup TypeId
    /\ \A id \in CorrId \cup TypeId : <<"name", id>> # Nil

VARIABLES
    tool,       \* the kind of tool called
    phase,      \* how far the handler is
    page,       \* the documents Paperless-ngx returned
    broken,     \* ids whose lookup Paperless-ngx fails, during this call
    cause,      \* how Paperless-ngx failed the handler's first request
    clientGone, \* the request's context is cancelled
    groupDone,  \* the errgroup's context is cancelled
    todo,       \* ids the launching loop has not come to
    worker,     \* the goroutine of each id
    mu,         \* the id whose goroutine holds mu
    names,      \* the two maps of names, Nil where there is no key
    reply       \* the names each document is answered with

vars == <<tool, phase, page, broken, cause, clientGone, groupDone, todo,
          worker, mu, names, reply>>

callVars == <<tool, page, broken, cause>>

-----------------------------------------------------------------------------
\* Tools that list documents resolve names concurrently; get_document_content
\* does so in sequence; search_correspondents and list_tags have none.
Tool == {"list", "content", "plain"}

Id == CorrId \cup TypeId

\* The display name of an entity, as Paperless-ngx has it.
NameOf(id) == <<"name", id>>

Name == {NameOf(id) : id \in Id} \cup {Nil}

Document == [corr : CorrId \cup {Nil}, type : TypeId \cup {Nil}]
NoDocument == [corr |-> Nil, type |-> Nil]

\* Mistake: documents without a correspondent are not skipped.
CorrIdsAndNil(p) == {p[d].corr : d \in Doc}

\* The unique ids resolveNames collects from a page.
CorrIds(p) == {p[d].corr : d \in Doc} \ {Nil}
TypeIds(p) == {p[d].type : d \in Doc} \ {Nil}

Resolving == phase \in {"correspondents", "types"}

\* Goroutines that have not returned: each holds a slot of its group.
Active == {id \in Id : worker[id] # "none"}

\* The ids the current group may be launched for.
GroupIds == IF phase = "correspondents" THEN CorrId ELSE TypeId

\* corrNames[*doc.Correspondent]: a nil id, like an id with no entry in the
\* map, yields the empty name.
NameIn(map, id) == IF id = Nil THEN Nil ELSE map[id]

Summary(map, document) ==
    [corr |-> NameIn(map, document.corr), type |-> NameIn(map, document.type)]

-----------------------------------------------------------------------------
Init ==
    /\ tool = "plain"
    /\ phase = "idle"
    /\ page = [d \in Doc |-> NoDocument]
    /\ broken = {}
    /\ cause = "none"
    /\ clientGone = FALSE
    /\ groupDone = FALSE
    /\ todo = {}
    /\ worker = [id \in Id |-> "none"]
    /\ mu = Nil
    /\ names = [id \in Id |-> Nil]
    /\ reply = [d \in Doc |-> NoDocument]

Call(t) ==
    /\ phase = "idle"
    /\ tool' = t
    /\ phase' = "search"
    /\ broken' \in SUBSET Id
    /\ clientGone' = FALSE
    /\ UNCHANGED <<page, cause, groupDone, todo, worker, mu, names, reply>>

\* Paperless-ngx returns a page (one document for get_document_content).  A
\* tool that returns documents goes on to resolve correspondents.
SearchSucceeds ==
    /\ phase = "search"
    /\ IF tool = "plain"
       THEN phase' = "render" /\ UNCHANGED <<page, todo>>
       ELSE /\ phase' = "correspondents"
            /\ page' \in [Doc -> Document]
            /\ tool = "content" => \E d \in Doc : \A e \in Doc \ {d} :
                                        page'[e] = NoDocument
            /\ todo' = CorrIds(page')
    /\ UNCHANGED <<tool, broken, cause, clientGone, groupDone, worker, mu,
                   names, reply>>

\* Any failure of the first request ends the call.
SearchFails ==
    /\ phase = "search"
    /\ cause' \in {"notFound", "unauthorized", "unavailable"}
    /\ phase' = "failed"
    /\ UNCHANGED <<tool, page, broken, clientGone, groupDone, todo, worker,
                   mu, names, reply>>

\* The errors a failed call may answer with: the handlers replace whatever went
\* wrong with the one sentinel of the tool.
ErrorReplies ==
    CASE tool = "content" -> {"document not found"}
      [] tool = "list"    -> {"search failed"}
      [] tool = "plain"   -> {"correspondent not found", "list tags failed"}

-----------------------------------------------------------------------------
\* Mistake: the limit of a group is one.
HasRoomForOne == Active = {}

\* g.SetLimit: there is a free slot in the group, whatever an earlier group,
\* which had a limit of its own, may have left running.
GroupHasRoom == Cardinality(Active \cap GroupIds) < Limit

\* The loop over the ids calls g.Go, which waits for a free slot.  Go maps
\* are ranged over in no particular order.
Launch(id) ==
    /\ Resolving /\ tool = "list"
    /\ id \in todo
    /\ GroupHasRoom
    /\ todo' = todo \ {id}
    /\ worker' = [worker EXCEPT ![id] = "fetch"]
    /\ UNCHANGED <<callVars, phase, clientGone, groupDone, mu, names, reply>>

\* getByID(ctx, id) returns an entity.  The answer may still arrive after a
\* cancellation.
LookupSucceeds(id) ==
    /\ worker[id] = "fetch"
    /\ id \notin broken
    /\ worker' = [worker EXCEPT ![id] = "lock"]
    /\ UNCHANGED <<callVars, phase, clientGone, groupDone, todo, mu, names,
                   reply>>

\* Mistakes: the error is returned to the group, which cancels the others;
\* or the goroutine of a failed lookup never gives its slot back.
LookupFailsGroup(id) ==
    /\ worker[id] = "fetch"
    /\ id \in broken \/ clientGone \/ groupDone
    /\ worker' = [worker EXCEPT ![id] = "none"]
    /\ groupDone' = TRUE
    /\ UNCHANGED <<callVars, phase, clientGone, todo, mu, names, reply>>

LookupHangs(id) ==
    /\ worker[id] = "fetch"
    /\ id \in broken \/ clientGone \/ groupDone
    /\ worker' = [worker EXCEPT ![id] = "hung"]
    /\ UNCHANGED <<callVars, phase, clientGone, groupDone, todo, mu, names,
                   reply>>

\* It returns an error, which is logged and swallowed.
LookupFails(id) ==
    /\ worker[id] = "fetch"
    /\ id \in broken \/ clientGone \/ groupDone
    /\ worker' = [worker EXCEPT ![id] = "none"]
    /\ UNCHANGED <<callVars, phase, clientGone, groupDone, todo, mu, names,
                   reply>>

\* Mistake: the map is written without mu.
EnterUnlocked(id) ==
    /\ worker[id] = "lock"
    /\ mu' = id
    /\ worker' = [worker EXCEPT ![id] = "write"]
    /\ UNCHANGED <<callVars, phase, clientGone, groupDone, todo, names, reply>>

Lock(id) ==
    /\ worker[id] = "lock"
    /\ mu = Nil
    /\ mu' = id
    /\ worker' = [worker EXCEPT ![id] = "write"]
    /\ UNCHANGED <<callVars, phase, clientGone, groupDone, todo, names, reply>>

\* names[id] = getName(entity), Unlock, and the goroutine returns.
Write(id) ==
    /\ worker[id] = "write"
    /\ names' = [names EXCEPT ![id] = NameOf(id)]
    /\ mu' = Nil
    /\ worker' = [worker EXCEPT ![id] = "none"]
    /\ UNCHANGED <<callVars, phase, clientGone, groupDone, todo, reply>>

\* The handler goes from the correspondents to the types, and from the types
\* to the answer.  A new group has a context of its own.
NextPhase ==
    IF phase = "correspondents"
    THEN phase' = "types" /\ todo' = TypeIds(page) /\ groupDone' = FALSE
    ELSE phase' = "render" /\ todo' = {} /\ groupDone' = TRUE

\* Mistake: the handler does not wait for the goroutines it has started.
LoopEnds ==
    /\ Resolving /\ tool = "list"
    /\ todo = {}
    /\ NextPhase
    /\ UNCHANGED <<callVars, clientGone, worker, mu, names, reply>>

\* g.Wait returns, at once if there was no id to look up.
WaitReturns ==
    /\ Resolving /\ tool = "list"
    /\ todo = {} /\ Active = {}
    /\ NextPhase
    /\ UNCHANGED <<callVars, clientGone, worker, mu, names, reply>>

\* get_document_content looks up the one id, if there is one; an error leaves
\* the name empty.
ResolveOne ==
    /\ Resolving /\ tool = "content"
    /\ \/ /\ names' = [id \in Id |-> IF id \in todo THEN NameOf(id) ELSE names[id]]
          /\ todo \cap broken = {}
       \/ /\ UNCHANGED names
          /\ clientGone \/ todo \subseteq broken
    /\ NextPhase
    /\ UNCHANGED <<callVars, clientGone, worker, mu, reply>>

Render ==
    /\ phase = "render"
    /\ phase' = "replied"
    /\ reply' = [d \in Doc |-> Summary(names, page[d])]
    /\ UNCHANGED <<callVars, clientGone, groupDone, todo, worker, mu, names>>

\* The client disconnects: the request's context is cancelled.
Cancel ==
    /\ phase \in {"search", "correspondents", "types", "render"}
    /\ ~clientGone
    /\ clientGone' = TRUE
    /\ UNCHANGED <<callVars, phase, groupDone, todo, worker, mu, names, reply>>

\* The answer is sent; what was local to the call is gone.
Return ==
    /\ phase \in {"replied", "failed"}
    /\ phase' = "idle"
    /\ tool' = "plain"
    /\ page' = [d \in Doc |-> NoDocument]
    /\ broken' = {}
    /\ cause' = "none"
    /\ clientGone' = FALSE
    /\ groupDone' = FALSE
    /\ names' = [id \in Id |-> Nil]
    /\ reply' = [d \in Doc |-> NoDocument]
    /\ UNCHANGED <<todo, worker, mu>>

WorkerStep(id) == LookupSucceeds(id) \/ LookupFails(id) \/ Lock(id) \/ Write(id)

HandlerStep ==
    \/ SearchSucceeds \/ SearchFails
    \/ \E id \in Id : Launch(id)
    \/ WaitReturns \/ ResolveOne \/ Render \/ Return

Next ==
    \/ \E t \in Tool : Call(t)
    \/ HandlerStep
    \/ \E id \in Id : WorkerStep(id)
    \/ Cancel

Spec == Init /\ [][Next]_vars

\* Every request to Paperless-ngx ends, by its answer or by the client's
\* timeouts; the Go scheduler runs every goroutine that can run.
FairSpec ==
    /\ Spec
    /\ WF_vars(HandlerStep)
    /\ \A id \in Id : WF_vars(LookupSucceeds(id) \/ LookupFails(id))
    /\ \A id \in Id : WF_vars(Lock(id)) /\ WF_vars(Write(id))

-----------------------------------------------------------------------------
\* Every variable keeps its type.
TypeOK ==
    /\ tool \in Tool
    /\ phase \in {"idle", "search", "correspondents", "types", "render",
                  "replied", "failed"}
    /\ page \in [Doc -> Document]
    /\ broken \subseteq Id
    /\ cause \in {"none", "notFound", "unauthorized", "unavailable"}
    /\ clientGone \in BOOLEAN
    /\ groupDone \in BOOLEAN
    /\ todo \subseteq Id
    /\ worker \in [Id -> {"none", "fetch", "lock", "write"}]
    /\ mu \in Id \cup {Nil}
    /\ names \in [Id -> Name]
    /\ reply \in [Doc -> [corr : Name, type : Name]]

\* A call never has more than Limit lookups in flight.  Each of its two groups
\* has a limit of its own (tools.go:235-236), so that this also takes the Wait
\* between them (tools.go:254): no goroutine of the correspondents is left when
\* those of the types begin, whatever lookups fail and whenever the client goes.
WithinLimit == Cardinality(Active) <= Limit

\* No two goroutines write the map at once, and none writes it once the
\* handler reads it: Go's maps tolerate neither (tools.go:245-252).
MapAccessIsExclusive ==
    /\ \A i, j \in Id : worker[i] = "write" /\ worker[j] = "write" => i = j
    /\ ~Resolving => Active = {}

\* In an answer, a document bears the name of its own correspondent and type,
\* unless the lookup of that very id failed.  While the client is there, no
\* failing lookup takes another document's name away (tools.go:237-243).
ReplyIsBestEffort ==
    phase = "replied" /\ tool # "plain" =>
        \A d \in Doc :
            /\ reply[d].corr \in {Nil, NameOf(page[d].corr)}
            /\ reply[d].type \in {Nil, NameOf(page[d].type)}
            /\ ~clientGone => /\ reply[d].corr = Nil <=> page[d].corr \in broken \cup {Nil}
                              /\ reply[d].type = Nil <=> page[d].type \in broken \cup {Nil}

\* A call is answered, whatever lookups fail and whenever the client goes
\* (tools.go:235-252: the loop, the slots and the wait cannot block forever).
CallsAreAnswered == phase = "search" ~> phase \in {"replied", "failed"}

\* What is left of a call when nobody sees its groups.
Stage ==
    CASE phase = "search" -> "asked"
      [] phase \in {"correspondents", "types", "render"} -> "listed"
      [] OTHER -> phase

Answer == INSTANCE ToolAnswer WITH stage <- Stage, gone <- clientGone

\* The two groups, their slots and their locks are invisible in the answer: it
\* is given once, for the whole page, as if all names had been looked up at one
\* instant, and an id is lost on all documents or on none (tools.go:211-275).
ImplementsToolAnswer == Answer!Spec

\* SPEC.md:318 says that the answer of Paperless-ngx determines the content
\* of the error, and lists a missing document, a rejected token and an
\* unreachable server as different scenarios: a call that reports that the
\* document was not found was told so.
NotFoundIsTrue ==
    phase = "failed" /\ "document not found" \in ErrorReplies => cause = "notFound"
=============================================================================
