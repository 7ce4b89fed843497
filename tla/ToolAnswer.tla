----------------------------- MODULE ToolAnswer -----------------------------
(***************************************************************************)
(* What a tool call promises its client, with no goroutines in sight: it   *)
(* fails as a whole, or it answers once with the whole page, on which      *)
(* every id has its name wherever it occurs or is lost wherever it occurs. *)
(* The lost ones are those that Paperless-ngx cannot look up, and any      *)
(* others only if the client has gone.                                     *)
(***************************************************************************)
CONSTANTS Doc, CorrId, TypeId, Nil

VARIABLES
    stage,   \* how far the call is
    tool,    \* the kind of tool called
    page,    \* the documents listed
    broken,  \* ids that Paperless-ngx cannot look up
    gone,    \* the client has gone
    reply    \* the names each document is answered with

vars == <<stage, tool, page, broken, gone, reply>>

-----------------------------------------------------------------------------
Nothing == [d \in Doc |-> [corr |-> Nil, type |-> Nil]]

Mentioned == ({page[d].corr : d \in Doc} \cup {page[d].type : d \in Doc}) \ {Nil}

Named(id, lost) == IF id \in lost \cup {Nil} THEN Nil ELSE <<"name", id>>

Init ==
    /\ stage = "idle" /\ tool = "plain" /\ gone = FALSE
    /\ broken = {} /\ page = Nothing /\ reply = Nothing

Ask ==
    /\ stage = "idle" /\ stage' = "asked"
    /\ tool' \in {"list", "content", "plain"}
    /\ broken' \in SUBSET (CorrId \cup TypeId)
    /\ gone' = FALSE
    /\ UNCHANGED <<page, reply>>

\* Only a tool that returns documents has a page of them.
List ==
    /\ stage = "asked" /\ stage' = "listed"
    /\ page' \in [Doc -> [corr : CorrId \cup {Nil}, type : TypeId \cup {Nil}]]
    /\ tool = "plain" => page' = page
    /\ UNCHANGED <<tool, broken, gone, reply>>

Fail ==
    /\ stage = "asked" /\ stage' = "failed"
    /\ UNCHANGED <<tool, page, broken, gone, reply>>

Leave ==
    /\ stage \in {"asked", "listed"} /\ ~gone
    /\ gone' = TRUE
    /\ UNCHANGED <<stage, tool, page, broken, reply>>

Answer ==
    /\ stage = "listed" /\ stage' = "replied"
    /\ \E lost \in SUBSET Mentioned :
          /\ broken \cap Mentioned \subseteq lost
          /\ ~gone => lost \subseteq broken
          /\ reply' = [d \in Doc |-> [corr |-> Named(page[d].corr, lost),
                                      type |-> Named(page[d].type, lost)]]
    /\ UNCHANGED <<tool, page, broken, gone>>

Forget ==
    /\ stage \in {"replied", "failed"} /\ stage' = "idle"
    /\ tool' = "plain" /\ gone' = FALSE
    /\ broken' = {} /\ page' = Nothing /\ reply' = Nothing

Next == Ask \/ List \/ Fail \/ Leave \/ Answer \/ Forget

Spec == Init /\ [][Next]_vars
=============================================================================
