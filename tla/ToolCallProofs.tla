--------------------------- MODULE ToolCallProofs ---------------------------
(***************************************************************************)
(* The safety of ToolCall for any page, any ids and any limit; and how     *)
(* long a call may last for any duration of a request.  A lookup that has  *)
(* not begun after j full rounds of Limit lookups had to wait for j * Limit *)
(* others: this is what the group's slots achieve without knowing of       *)
(* rounds.                                                                 *)
(***************************************************************************)
EXTENDS TimedToolCall, FiniteSetTheorems, TLAPS

\* Goroutines exist only while a listing tool resolves, for ids of the phase.
GroupInv ==
    /\ ~(Resolving /\ tool = "list") => Active = {}
    /\ ~Resolving => todo = {}
    /\ phase = "correspondents" => todo \cup Active \subseteq CorrIds(page)
    /\ phase = "types" => todo \cup Active \subseteq TypeIds(page)
    /\ todo \cap Active = {}
    /\ phase \in {"idle", "search"} \/ Resolving => ~groupDone
    /\ tool = "plain" => ~Resolving

\* mu is held by the goroutine that writes.
MutexInv == \A id \in Id : worker[id] = "write" <=> mu = id

\* An entity has its own name or none; one whose lookup fails has none.
NamesInv ==
    /\ \A id \in Id : names[id] \in {Nil, NameOf(id)}
    /\ \A id \in broken : names[id] = Nil /\ worker[id] \notin {"lock", "write"}
    /\ phase \in {"idle", "search"} => \A id \in Id : names[id] = Nil

\* Unless the client is gone, every id the page mentions is still to be
\* looked up, or has failed, or has its name.
Settled(id) == id \in broken \/ names[id] = NameOf(id)

ProgressInv ==
    ~clientGone =>
        /\ phase = "correspondents" =>
              \A id \in CorrIds(page) \ (todo \cup Active) : Settled(id)
        /\ phase = "types" =>
              /\ \A id \in CorrIds(page) : Settled(id)
              /\ \A id \in TypeIds(page) \ (todo \cup Active) : Settled(id)
        /\ phase \in {"render", "replied"} /\ tool # "plain" =>
              \A id \in CorrIds(page) \cup TypeIds(page) : Settled(id)

ReplyInv ==
    phase = "replied" =>
        reply = [d \in Doc |-> Summary(names, page[d])]

TInv ==
    /\ TypeOK
    /\ WithinLimit
    /\ GroupInv
    /\ MutexInv
    /\ NamesInv
    /\ ProgressInv
    /\ ReplyInv

-----------------------------------------------------------------------------
LEMMA NameFacts == \A id \in Id : NameOf(id) # Nil /\ NameOf(id) \in Name
BY IdAssumption DEF NameOf, Name, Id

LEMMA NilIsNoId == Nil \notin Id
BY IdAssumption DEF Id

LEMMA InitType == Init => TypeOK
<1> SUFFICES ASSUME Init PROVE TypeOK
  OBVIOUS
<1>1. /\ page \in [Doc -> Document] /\ names \in [Id -> Name]
      /\ reply \in [Doc -> [corr : Name, type : Name]]
  BY DEF Init, Document, NoDocument, Name
<1>2. clientGone \in BOOLEAN /\ groupDone \in BOOLEAN
  BY DEF Init
<1>3. /\ tool \in Tool /\ broken \subseteq Id /\ todo \subseteq Id
      /\ mu \in Id \cup {Nil}
  BY DEF Init, Tool
<1> QED
  BY <1>1, <1>2, <1>3 DEF Init, TypeOK

LEMMA NextType == TypeOK /\ [Next]_vars => TypeOK'
<1> SUFFICES ASSUME TypeOK, [Next]_vars PROVE TypeOK'
  OBVIOUS
<1> USE DEF TypeOK, callVars
<1>1. ASSUME NEW t \in Tool, Call(t) PROVE TypeOK'
  BY <1>1 DEF Call
<1>2. CASE SearchSucceeds
  <2>1. todo' \subseteq Id
    BY <1>2 DEF SearchSucceeds, CorrIds, Document, Id
  <2>2. page' \in [Doc -> Document]
    BY <1>2 DEF SearchSucceeds
  <2> QED
    BY <1>2, <2>1, <2>2 DEF SearchSucceeds
<1>3. CASE SearchFails
  BY <1>3 DEF SearchFails
<1>4. ASSUME NEW id \in Id, Launch(id) PROVE TypeOK'
  BY <1>4 DEF Launch
<1>5. ASSUME NextPhase PROVE /\ phase' \in {"types", "render"}
                              /\ todo' \subseteq Id /\ groupDone' \in BOOLEAN
  <2>1. phase' \in {"types", "render"} /\ todo' \subseteq Id
    BY <1>5 DEF NextPhase, TypeIds, Document, Id
  <2>2. groupDone' \in BOOLEAN
    BY <1>5 DEF NextPhase
  <2> QED
    BY <2>1, <2>2
<1>6. CASE WaitReturns
  BY <1>5, <1>6 DEF WaitReturns
<1>7. CASE ResolveOne
  <2>1. names' \in [Id -> Name]
    BY <1>7, NameFacts DEF ResolveOne
  <2> QED
    BY <1>5, <1>7, <2>1 DEF ResolveOne
<1>8. CASE Render
  <2>1. reply' \in [Doc -> [corr : Name, type : Name]]
    BY <1>8 DEF Render, Summary, NameIn, Name, Document, Id
  <2> QED
    BY <1>8, <2>1 DEF Render
<1>9. CASE Return
  BY <1>9 DEF Return, Tool, Document, NoDocument, Name
<1>10. ASSUME NEW id \in Id, WorkerStep(id) PROVE TypeOK'
  <2>1. CASE LookupSucceeds(id)
    BY <2>1 DEF LookupSucceeds
  <2>2. CASE LookupFails(id)
    BY <2>2 DEF LookupFails
  <2>3. CASE Lock(id)
    BY <2>3 DEF Lock
  <2>4. CASE Write(id)
    BY <2>4, NameFacts DEF Write
  <2> QED
    BY <1>10, <2>1, <2>2, <2>3, <2>4 DEF WorkerStep
<1>11. CASE Cancel
  BY <1>11 DEF Cancel
<1>12. CASE UNCHANGED vars
  BY <1>12 DEF vars
<1> QED
  BY <1>1, <1>2, <1>3, <1>4, <1>6, <1>7, <1>8, <1>9, <1>10, <1>11, <1>12
  DEF Next, HandlerStep

\* Every variable keeps its type.
THEOREM TypeCorrect == Spec => []TypeOK
<1> QED
  BY InitType, NextType, PTL DEF Spec

-----------------------------------------------------------------------------
LEMMA InitInv == Init => TInv
<1> SUFFICES ASSUME Init PROVE TInv
  OBVIOUS
<1>1. Active = {} /\ ~Resolving
  BY DEF Init, Active, Resolving
<1>2. WithinLimit
  BY <1>1, FS_EmptySet, LimitAssumption DEF WithinLimit
<1>3. GroupInv
  <2>1. todo = {} /\ ~groupDone /\ phase = "idle"
    BY DEF Init
  <2> QED
    BY <1>1, <2>1 DEF GroupInv
<1>4. MutexInv /\ NamesInv
  BY IdAssumption DEF Init, MutexInv, NamesInv, Id
<1>5. ProgressInv /\ ReplyInv
  BY DEF Init, ProgressInv, ReplyInv
<1> QED
  BY InitType, <1>2, <1>3, <1>4, <1>5 DEF TInv

\* While a group runs, no goroutine of another one is left.
LEMMA OneGroup == TypeOK /\ GroupInv /\ Resolving => Active \cap GroupIds = Active
<1> SUFFICES ASSUME TypeOK, GroupInv, Resolving PROVE Active \subseteq GroupIds
  OBVIOUS
<1>1. CASE phase = "correspondents"
  <2>1. CorrIds(page) \subseteq CorrId
    BY DEF TypeOK, Document, CorrIds
  <2> QED
    BY <1>1, <2>1 DEF GroupInv, GroupIds
<1>2. CASE phase = "types"
  <2>1. TypeIds(page) \subseteq TypeId
    BY DEF TypeOK, Document, TypeIds
  <2> QED
    BY <1>2, <2>1 DEF GroupInv, GroupIds
<1> QED
  BY <1>1, <1>2 DEF Resolving

\* A slot is taken only when one is free, and the earlier group has ended.
LEMMA LimitNext == TInv /\ [Next]_vars => WithinLimit'
<1> SUFFICES ASSUME TInv, [Next]_vars PROVE WithinLimit'
  OBVIOUS
<1>1. TypeOK /\ IsFiniteSet(Active) /\ Cardinality(Active) <= Limit
      /\ Limit \in Nat /\ Cardinality(Active) \in Nat
  <2>1. IsFiniteSet(Id)
    BY IdAssumption, FS_Union DEF Id
  <2>2. IsFiniteSet(Active)
    BY <2>1, FS_Subset DEF Active
  <2> QED
    BY <2>2, FS_CardinalityType, LimitAssumption DEF TInv, WithinLimit
<1>2. ASSUME Active' \subseteq Active PROVE WithinLimit'
  <2>1. Cardinality(Active') <= Cardinality(Active) /\ Cardinality(Active') \in Nat
    BY <1>1, <1>2, FS_Subset, FS_CardinalityType
  <2> QED
    BY <1>1, <2>1 DEF WithinLimit
<1>3. ASSUME NEW id \in Id, Launch(id) PROVE WithinLimit'
  <2>1. Active' \subseteq Active \cup {id}
    BY <1>1, <1>3 DEF Launch, Active, TypeOK
  <2>2. /\ IsFiniteSet(Active \cup {id})
        /\ Cardinality(Active \cup {id}) <= Cardinality(Active) + 1
    BY <1>1, FS_AddElement
  <2>3. /\ Cardinality(Active') <= Cardinality(Active \cup {id})
        /\ Cardinality(Active') \in Nat /\ Cardinality(Active \cup {id}) \in Nat
    BY <2>1, <2>2, FS_Subset, FS_CardinalityType
  <2>4. Cardinality(Active) < Limit
    BY <1>3, OneGroup DEF Launch, GroupHasRoom, TInv
  <2> QED
    BY <1>1, <2>2, <2>3, <2>4 DEF WithinLimit
<1>4. ASSUME NEW id \in Id, WorkerStep(id) PROVE Active' \subseteq Active
  BY <1>1, <1>4 DEF WorkerStep, LookupSucceeds, LookupFails, Lock, Write,
                    Active, TypeOK
<1>5. ASSUME UNCHANGED worker PROVE Active' \subseteq Active
  BY <1>5 DEF Active
<1> QED
  BY <1>2, <1>3, <1>4, <1>5
  DEF Next, HandlerStep, Call, SearchSucceeds, SearchFails, WaitReturns,
      ResolveOne, Render, Return, Cancel, vars

\* The ids of a page are ids.
LEMMA PageIds == TypeOK => CorrIds(page) \subseteq Id /\ TypeIds(page) \subseteq Id
BY DEF TypeOK, CorrIds, TypeIds, Document, Id

LEMMA GroupNext == TInv /\ [Next]_vars => GroupInv' /\ MutexInv'
<1> SUFFICES ASSUME TInv, [Next]_vars PROVE GroupInv' /\ MutexInv'
  OBVIOUS
<1>0. TypeOK /\ GroupInv /\ MutexInv /\ Nil \notin Id
  BY IdAssumption DEF TInv, Id
<1> USE <1>0 DEF callVars, Resolving
<1>1. ASSUME UNCHANGED <<worker, mu>> PROVE MutexInv' /\ Active' = Active
  BY <1>1 DEF MutexInv, Active
<1>2. ASSUME NEW t \in Tool, Call(t) PROVE GroupInv' /\ MutexInv'
  BY <1>1, <1>2 DEF Call, GroupInv
<1>3. CASE SearchSucceeds
  <2>1. UNCHANGED <<worker, mu, tool, groupDone>> /\ Active = {}
    BY <1>3 DEF SearchSucceeds, GroupInv
  <2>2. CASE tool = "plain"
    BY <1>1, <1>3, <2>1, <2>2 DEF SearchSucceeds, GroupInv
  <2>3. CASE tool # "plain"
    <3>1. phase' = "correspondents" /\ todo' = CorrIds(page)'
      BY <1>3, <2>3 DEF SearchSucceeds, CorrIds
    <3> QED
      BY <1>1, <1>3, <2>1, <2>3, <3>1 DEF SearchSucceeds, GroupInv
  <2> QED
    BY <2>2, <2>3
<1>4. CASE SearchFails
  BY <1>1, <1>4 DEF SearchFails, GroupInv
<1>5. ASSUME NEW id \in Id, Launch(id) PROVE GroupInv' /\ MutexInv'
  <2>1. todo' = todo \ {id} /\ Active' = Active \cup {id} /\ id \in todo
    BY <1>5 DEF Launch, Active, TypeOK
  <2>2. /\ UNCHANGED <<phase, tool, page, groupDone>>
        /\ Resolving /\ tool = "list"
    BY <1>5 DEF Launch
  <2>3. UNCHANGED <<CorrIds(page), TypeIds(page)>>
    BY <2>2 DEF CorrIds, TypeIds
  <2>4. GroupInv'
    BY <2>1, <2>2, <2>3 DEF GroupInv
  <2>5. worker[id] # "write"
    BY <1>5 DEF Launch, GroupInv, MutexInv, Active
  <2> QED
    BY <1>5, <2>4, <2>5 DEF Launch, MutexInv, TypeOK
<1>6. CASE WaitReturns
  BY <1>1, <1>6 DEF WaitReturns, NextPhase, GroupInv, TypeIds
<1>7. CASE ResolveOne
  BY <1>1, <1>7 DEF ResolveOne, NextPhase, GroupInv, TypeIds
<1>8. CASE Render
  BY <1>1, <1>8 DEF Render, GroupInv
<1>9. CASE Return
  BY <1>1, <1>9 DEF Return, GroupInv
<1>10. ASSUME NEW id \in Id, WorkerStep(id) PROVE GroupInv' /\ MutexInv'
  <2>1. Active' \subseteq Active
        /\ UNCHANGED <<callVars, phase, todo, groupDone>>
    BY <1>10 DEF WorkerStep, LookupSucceeds, LookupFails, Lock, Write, Active,
                 TypeOK
  <2>2. GroupInv'
    BY <2>1 DEF GroupInv, CorrIds, TypeIds
  <2>3. MutexInv'
    BY <1>10 DEF WorkerStep, LookupSucceeds, LookupFails, Lock, Write,
                 MutexInv, TypeOK
  <2> QED
    BY <2>2, <2>3
<1>11. CASE Cancel
  BY <1>1, <1>11 DEF Cancel, GroupInv
<1>12. CASE UNCHANGED vars
  BY <1>1, <1>12 DEF vars, GroupInv
<1> QED
  BY <1>2, <1>3, <1>4, <1>5, <1>6, <1>7, <1>8, <1>9, <1>10, <1>11, <1>12
  DEF Next, HandlerStep

\* The steps that touch what the names depend on.
LEMMA NamesNext == TInv /\ [Next]_vars => NamesInv'
<1> SUFFICES ASSUME TInv, [Next]_vars PROVE NamesInv'
  OBVIOUS
<1>0. /\ TypeOK /\ GroupInv /\ NamesInv /\ MutexInv /\ Nil \notin Id
      /\ \A id \in Id : NameOf(id) # Nil
  BY IdAssumption, NameFacts DEF TInv, Id
<1> USE <1>0 DEF callVars, NamesInv
<1>1. ASSUME NEW t \in Tool, Call(t) PROVE NamesInv'
  <2>1. Active = {} /\ broken' \subseteq Id
    BY <1>1 DEF Call, GroupInv, Resolving
  <2> QED
    BY <1>1, <2>1 DEF Call, Active
<1>2. ASSUME NEW id \in Id, Launch(id) PROVE NamesInv'
  BY <1>2 DEF Launch, Resolving, TypeOK
<1>3. ASSUME NEW id \in Id, WorkerStep(id) PROVE NamesInv'
  <2>1. UNCHANGED <<phase, broken>>
    BY <1>3 DEF WorkerStep, LookupSucceeds, LookupFails, Lock, Write
  <2>2. phase \notin {"idle", "search"}
    <3>1. id \in Active
      BY <1>3 DEF WorkerStep, LookupSucceeds, LookupFails, Lock, Write, Active
    <3> QED
      BY <3>1 DEF GroupInv, Resolving
  <2> QED
    BY <1>3, <2>1, <2>2
    DEF WorkerStep, LookupSucceeds, LookupFails, Lock, Write, TypeOK
<1>4. CASE ResolveOne
  <2>1. UNCHANGED <<broken, worker>> /\ phase' \in {"types", "render"}
    BY <1>4 DEF ResolveOne, NextPhase
  <2>2. \/ names' = names
        \/ /\ todo \cap broken = {}
           /\ \A id \in Id : names'[id] =
                IF id \in todo THEN NameOf(id) ELSE names[id]
    BY <1>4 DEF ResolveOne
  <2> QED
    BY <2>1, <2>2 DEF TypeOK
<1>5. CASE Return
  <2>1. broken' = {} /\ \A id \in Id : names'[id] = Nil
    BY <1>5 DEF Return
  <2> QED
    BY <2>1
<1>6. ASSUME UNCHANGED <<broken, names, worker>>,
             phase' \notin {"idle", "search"} \/ phase' = phase
      PROVE  NamesInv'
  BY <1>6
<1> QED
  BY <1>1, <1>2, <1>3, <1>4, <1>5, <1>6
  DEF Next, HandlerStep, SearchSucceeds, SearchFails, WaitReturns, NextPhase,
      Render, Cancel, vars

\* An id leaves the work to do only when it has failed or has its name.
LEMMA ProgressNext == TInv /\ [Next]_vars => ProgressInv'
<1> SUFFICES ASSUME TInv, [Next]_vars, ~clientGone' PROVE ProgressInv'
  BY DEF ProgressInv
<1>0. TypeOK /\ GroupInv /\ ProgressInv
  BY DEF TInv
<1> USE <1>0 DEF callVars
<1>1. ASSUME NEW t \in Tool, Call(t) PROVE ProgressInv'
  BY <1>1 DEF Call, ProgressInv
<1>2. CASE SearchSucceeds
  <2>1. CASE tool = "plain"
    BY <1>2, <2>1 DEF SearchSucceeds, ProgressInv
  <2>2. CASE tool # "plain"
    <3>1. phase' = "correspondents" /\ todo' = CorrIds(page)'
      BY <1>2, <2>2 DEF SearchSucceeds, CorrIds
    <3> QED
      BY <3>1 DEF ProgressInv
  <2> QED
    BY <2>1, <2>2
<1>3. ASSUME NEW id \in Id, Launch(id) PROVE ProgressInv'
  <2>1. todo' \cup Active' = todo \cup Active
    BY <1>3 DEF Launch, Active, TypeOK
  <2>2. UNCHANGED <<phase, tool, page, names, broken, clientGone>>
    BY <1>3 DEF Launch
  <2> QED
    BY <2>1, <2>2 DEF ProgressInv, Settled, CorrIds, TypeIds
<1>4. ASSUME NEW id \in Id, WorkerStep(id) PROVE ProgressInv'
  <2>1. UNCHANGED <<phase, tool, page, broken, clientGone, todo, groupDone>>
    BY <1>4 DEF WorkerStep, LookupSucceeds, LookupFails, Lock, Write
  <2>2. ASSUME NEW j \in Id, Settled(j) PROVE Settled(j)'
    BY <1>4, <2>1, <2>2
    DEF WorkerStep, LookupSucceeds, LookupFails, Lock, Write, Settled, TypeOK
  <2>3. Active \subseteq Active' \cup {id}
    BY <1>4
    DEF WorkerStep, LookupSucceeds, LookupFails, Lock, Write, Active, TypeOK
  <2>4. id \notin Active' => Settled(id)'
    <3>1. id \in Active
      BY <1>4 DEF WorkerStep, LookupSucceeds, LookupFails, Lock, Write, Active
    <3>2. ~groupDone
      BY <3>1 DEF GroupInv
    <3> QED
      BY <1>4, <2>1, <3>2
      DEF WorkerStep, LookupSucceeds, LookupFails, Lock, Write, Settled,
          Active, TypeOK
  <2>5. UNCHANGED <<CorrIds(page), TypeIds(page)>>
    BY <2>1 DEF CorrIds, TypeIds
  <2>6. CorrIds(page) \subseteq Id /\ TypeIds(page) \subseteq Id
    BY PageIds
  <2> HIDE DEF callVars
  <2> QED
    BY <2>1, <2>2, <2>3, <2>4, <2>5, <2>6 DEF ProgressInv
<1>5. ASSUME UNCHANGED <<tool, page, broken, clientGone, worker>>, NextPhase,
             Resolving,
             \A id \in Id : Settled(id) => Settled(id)',
             \A id \in todo \cup Active : Settled(id)'
      PROVE  ProgressInv'
  <2>1. CorrIds(page) \subseteq Id /\ TypeIds(page) \subseteq Id
        /\ UNCHANGED <<CorrIds(page), TypeIds(page)>>
    BY <1>5, PageIds DEF CorrIds, TypeIds
  <2>2. CASE phase = "correspondents"
    BY <1>5, <2>1, <2>2 DEF NextPhase, ProgressInv
  <2>3. CASE phase = "types"
    BY <1>5, <2>1, <2>3 DEF NextPhase, ProgressInv
  <2> QED
    BY <1>5, <2>2, <2>3 DEF Resolving
<1>6. CASE WaitReturns
  <2>1. UNCHANGED <<tool, page, broken, clientGone, worker, names>>
    BY <1>6 DEF WaitReturns
  <2> QED
    BY <1>5, <1>6, <2>1 DEF WaitReturns, Settled
<1>7. CASE ResolveOne
  <2>1. UNCHANGED <<tool, page, broken, clientGone, worker>> /\ Active = {}
    BY <1>7 DEF ResolveOne, GroupInv
  <2>2. ASSUME NEW id \in Id PROVE /\ Settled(id) => Settled(id)'
                                   /\ id \in todo => Settled(id)'
    BY <1>7, <2>1, <2>2 DEF ResolveOne, Settled
  <2>3. todo \subseteq Id
    BY DEF TypeOK
  <2> QED
    BY <1>5, <1>7, <2>1, <2>2, <2>3 DEF ResolveOne
<1>8. CASE SearchFails \/ Return
  BY <1>8 DEF SearchFails, Return, ProgressInv
<1>9. CASE Render \/ Cancel \/ UNCHANGED vars
  <2>1. /\ UNCHANGED <<tool, page, broken, todo, worker, names>>
        /\ ~clientGone
        /\ phase' = phase \/ (phase = "render" /\ phase' = "replied")
    BY <1>9 DEF Render, Cancel, vars
  <2> QED
    BY <2>1 DEF ProgressInv, Settled, CorrIds, TypeIds, Active
<1> QED
  BY <1>1, <1>2, <1>3, <1>4, <1>6, <1>7, <1>8, <1>9 DEF Next, HandlerStep

LEMMA ReplyNext == TInv /\ [Next]_vars => ReplyInv'
<1> SUFFICES ASSUME TInv, [Next]_vars, phase' = "replied" PROVE ReplyInv'
  BY DEF ReplyInv
<1>1. CASE Render
  BY <1>1 DEF Render, ReplyInv, callVars
<1>2. CASE UNCHANGED <<phase, names, page, reply>>
  BY <1>2 DEF TInv, ReplyInv
<1>3. ASSUME NEW id \in Id, WorkerStep(id) PROVE FALSE
  <2>1. id \in Active /\ phase' = phase
    BY <1>3 DEF WorkerStep, LookupSucceeds, LookupFails, Lock, Write, Active
  <2> QED
    BY <2>1 DEF TInv, GroupInv, Resolving
<1> QED
  BY <1>1, <1>2, <1>3
  DEF Next, HandlerStep, Call, SearchSucceeds, SearchFails, Launch, NextPhase,
      WaitReturns, ResolveOne, Return, Cancel, Resolving, vars, callVars

LEMMA InvariantNext == TInv /\ [Next]_vars => TInv'
BY NextType, LimitNext, GroupNext, NamesNext, ProgressNext, ReplyNext DEF TInv

LEMMA Invariance == Spec => []TInv
<1> QED
  BY InitInv, InvariantNext, PTL DEF Spec

\* A call never has more than Limit lookups in flight, although its two groups
\* have their slots to themselves (tools.go:235-254).
THEOREM LimitHolds == Spec => []WithinLimit
<1>1. TInv => WithinLimit
  BY DEF TInv
<1> QED
  BY Invariance, <1>1, PTL

\* The map of names is written by one goroutine at a time, and by none when
\* it is read (tools.go:245-254).
THEOREM MapIsSafe == Spec => []MapAccessIsExclusive
<1>1. TInv => MapAccessIsExclusive
  BY DEF TInv, MapAccessIsExclusive, MutexInv, GroupInv
<1> QED
  BY Invariance, <1>1, PTL

\* Documents are answered with their own names, and miss a name only if that
\* name's lookup failed (tools.go:214-255, 312-330).
THEOREM ReplyIsRight == Spec => []ReplyIsBestEffort
<1>1. TInv => ReplyIsBestEffort
  <2> SUFFICES ASSUME TInv, phase = "replied", tool # "plain", NEW d \in Doc
               PROVE  /\ reply[d].corr \in {Nil, NameOf(page[d].corr)}
                      /\ reply[d].type \in {Nil, NameOf(page[d].type)}
                      /\ ~clientGone =>
                          /\ reply[d].corr = Nil <=> page[d].corr \in broken \cup {Nil}
                          /\ reply[d].type = Nil <=> page[d].type \in broken \cup {Nil}
    BY DEF ReplyIsBestEffort
  <2>1. /\ reply[d].corr = NameIn(names, page[d].corr)
        /\ reply[d].type = NameIn(names, page[d].type)
    BY DEF TInv, ReplyInv, Summary
  <2>2. ASSUME NEW id \in (CorrIds(page) \cup TypeIds(page)) \cup {Nil}
        PROVE  /\ NameIn(names, id) \in {Nil, NameOf(id)}
               /\ ~clientGone =>
                    (NameIn(names, id) = Nil <=> id \in broken \cup {Nil})
    <3>1. CASE id = Nil
      BY <3>1 DEF NameIn
    <3>2. CASE id # Nil
      <4>1. id \in Id /\ names[id] \in {Nil, NameOf(id)} /\ NameOf(id) # Nil
        BY <3>2, PageIds, NameFacts DEF TInv, NamesInv
      <4>2. ~clientGone => id \in broken \/ names[id] = NameOf(id)
        BY <3>2 DEF TInv, ProgressInv, Settled
      <4>3. id \in broken => names[id] = Nil
        BY DEF TInv, NamesInv
      <4> QED
        BY <3>2, <4>1, <4>2, <4>3 DEF NameIn
    <3> QED
      BY <3>1, <3>2
  <2>3. /\ page[d].corr \in CorrIds(page) \cup {Nil}
        /\ page[d].type \in TypeIds(page) \cup {Nil}
    BY DEF CorrIds, TypeIds
  <2> QED
    BY <2>1, <2>2, <2>3
<1> QED
  BY Invariance, <1>1, PTL

-----------------------------------------------------------------------------
\* Only a call that lists documents has any.
PageInv ==
    phase \in {"idle", "search"} \/ tool = "plain" =>
        page = [d \in Doc |-> NoDocument]

RInv == TInv /\ PageInv

LEMMA RefinementInvariance == Spec => []RInv
<1>1. Init => PageInv
  BY DEF Init, PageInv
<1>2. TInv /\ PageInv /\ [Next]_vars => PageInv'
  <2> SUFFICES ASSUME TInv, PageInv, [Next]_vars PROVE PageInv'
    OBVIOUS
  <2> USE DEF PageInv, callVars
  <2>1. tool = "plain" => ~Resolving
    BY DEF TInv, GroupInv
  <2>2. ASSUME NEW t \in Tool, Call(t) PROVE PageInv'
    BY <2>2 DEF Call
  <2>3. CASE SearchSucceeds
    BY <2>3 DEF SearchSucceeds
  <2>4. CASE SearchFails
    BY <2>4 DEF SearchFails
  <2>5. ASSUME NEW id \in Id, Launch(id) \/ WorkerStep(id) PROVE PageInv'
    BY <2>5 DEF Launch, WorkerStep, LookupSucceeds, LookupFails, Lock, Write
  <2>6. CASE WaitReturns
    BY <2>1, <2>6 DEF WaitReturns, NextPhase, Resolving
  <2>7. CASE ResolveOne
    BY <2>1, <2>7 DEF ResolveOne, NextPhase, Resolving
  <2>8. CASE Render
    BY <2>8 DEF Render
  <2>9. CASE Return
    BY <2>9 DEF Return
  <2>10. CASE Cancel
    BY <2>10 DEF Cancel
  <2>11. CASE UNCHANGED vars
    BY <2>11 DEF vars
  <2> QED
    BY <2>2, <2>3, <2>4, <2>5, <2>6, <2>7, <2>8, <2>9, <2>10, <2>11
    DEF Next, HandlerStep
<1>3. Init => TInv
  BY InitInv
<1>4. TInv /\ [Next]_vars => TInv'
  BY InvariantNext
<1> QED
  BY <1>1, <1>2, <1>3, <1>4, PTL DEF Spec, RInv

LEMMA MentionedIds == Answer!Mentioned = CorrIds(page) \cup TypeIds(page)
BY DEF Answer!Mentioned, CorrIds, TypeIds

\* The names that rendering finds are those of one set of lost ids.
LEMMA RenderAnswers == RInv /\ Render => Answer!Answer
<1> SUFFICES ASSUME RInv, Render PROVE Answer!Answer
  OBVIOUS
<1> DEFINE lost == {id \in CorrIds(page) \cup TypeIds(page) : names[id] = Nil}
<1>1. /\ phase = "render" /\ phase' = "replied"
      /\ UNCHANGED <<tool, page, broken, clientGone>>
      /\ reply' = [d \in Doc |-> Summary(names, page[d])]
  BY DEF Render, callVars
<1>2. Stage = "listed" /\ Stage' = "replied"
  BY <1>1 DEF Stage
<1>3. TypeOK /\ CorrIds(page) \subseteq Id /\ TypeIds(page) \subseteq Id
  BY PageIds DEF RInv, TInv
<1>4. \A id \in Id : names[id] \in {Nil, NameOf(id)} /\ NameOf(id) # Nil
  BY NameFacts DEF RInv, TInv, NamesInv
<1>5. broken \cap Answer!Mentioned \subseteq lost
  BY <1>3, MentionedIds DEF RInv, TInv, NamesInv, TypeOK
<1>6. ASSUME ~clientGone PROVE lost \subseteq broken
  <2>1. CASE tool = "plain"
    <3>1. page = [d \in Doc |-> NoDocument]
      BY <2>1 DEF RInv, PageInv
    <3>2. CorrIds(page) \cup TypeIds(page) = {}
      BY <3>1 DEF CorrIds, TypeIds, NoDocument
    <3> QED
      BY <3>2
  <2>2. CASE tool # "plain"
    BY <1>1, <1>3, <1>4, <1>6, <2>2 DEF RInv, TInv, ProgressInv, Settled
  <2> QED
    BY <2>1, <2>2
<1>7. ASSUME NEW d \in Doc
      PROVE  Summary(names, page[d]) =
               [corr |-> Answer!Named(page[d].corr, lost),
                type |-> Answer!Named(page[d].type, lost)]
  <2>1. ASSUME NEW id \in CorrIds(page) \cup TypeIds(page) \cup {Nil}
        PROVE  NameIn(names, id) = Answer!Named(id, lost)
    BY <1>3, <1>4, NilIsNoId DEF NameIn, NameOf, Answer!Named
  <2>2. /\ page[d].corr \in CorrIds(page) \cup {Nil}
        /\ page[d].type \in TypeIds(page) \cup {Nil}
    BY DEF CorrIds, TypeIds
  <2> QED
    BY <2>1, <2>2 DEF Summary
<1>8. lost \in SUBSET Answer!Mentioned
  BY MentionedIds
<1> HIDE DEF lost
<1>9. reply' = [d \in Doc |-> [corr |-> Answer!Named(page[d].corr, lost),
                               type |-> Answer!Named(page[d].type, lost)]]
  BY <1>1, <1>7
<1> QED
  BY <1>1, <1>2, <1>5, <1>6, <1>8, <1>9 DEF Answer!Answer

LEMMA StepAnswers == RInv /\ [Next]_vars => [Answer!Next]_(Answer!vars)
<1> SUFFICES ASSUME RInv, [Next]_vars PROVE [Answer!Next]_(Answer!vars)
  OBVIOUS
<1> USE DEF callVars, Answer!Next
<1>1. ASSUME NEW t \in Tool, Call(t) PROVE Answer!Ask
  <2>1. Stage = "idle" /\ Stage' = "asked"
    BY <1>1 DEF Call, Stage
  <2>2. tool' \in {"list", "content", "plain"} /\ broken' \in SUBSET (CorrId \cup TypeId)
    BY <1>1 DEF Call, Tool, Id
  <2> QED
    BY <1>1, <2>1, <2>2 DEF Call, Answer!Ask
<1>2. CASE SearchSucceeds
  <2>1. Stage = "asked" /\ Stage' = "listed"
    BY <1>2 DEF SearchSucceeds, Stage
  <2>2. page' \in [Doc -> [corr : CorrId \cup {Nil}, type : TypeId \cup {Nil}]]
    BY <1>2 DEF SearchSucceeds, Document, RInv, TInv, TypeOK
  <2> QED
    BY <1>2, <2>1, <2>2 DEF SearchSucceeds, Answer!List
<1>3. CASE SearchFails
  BY <1>3 DEF SearchFails, Stage, Answer!Fail
<1>4. ASSUME NEW id \in Id, Launch(id) \/ WorkerStep(id)
      PROVE  UNCHANGED Answer!vars
  BY <1>4 DEF Launch, WorkerStep, LookupSucceeds, LookupFails, Lock, Write,
     Stage, Answer!vars
<1>5. CASE WaitReturns \/ ResolveOne
  <2>1. Stage = "listed" /\ Stage' = "listed"
    BY <1>5 DEF WaitReturns, ResolveOne, Resolving, NextPhase, Stage
  <2>2. UNCHANGED <<tool, page, broken, clientGone, reply>>
    BY <1>5 DEF WaitReturns, ResolveOne
  <2> QED
    BY <2>1, <2>2 DEF Answer!vars
<1>6. CASE Render
  BY <1>6, RenderAnswers
<1>7. CASE Return
  BY <1>7 DEF Return, NoDocument, Stage, Answer!Forget, Answer!Nothing
<1>8. CASE Cancel
  BY <1>8 DEF Cancel, Stage, Answer!Leave
<1>9. CASE UNCHANGED vars
  BY <1>9 DEF vars, Stage, Answer!vars
<1> QED
  BY <1>1, <1>2, <1>3, <1>4, <1>5, <1>6, <1>7, <1>8, <1>9 DEF Next, HandlerStep

\* A tool call is one answer for its whole page, with one set of lost ids,
\* or one failure: its goroutines are not to be seen (tools.go:211-275).
THEOREM CallsAreAtomic == Spec => ImplementsToolAnswer
<1>1. Init => Answer!Init
  BY DEF Init, Stage, NoDocument, Answer!Init, Answer!Nothing
<1>2. RInv /\ [Next]_vars => [Answer!Next]_(Answer!vars)
  BY StepAnswers
<1> QED
  BY RefinementInvariance, <1>1, <1>2, PTL DEF Spec, Answer!Spec, ImplementsToolAnswer

-----------------------------------------------------------------------------
\* The ids that the present phase looks up, and the time it began at, at most.
Ids == IF phase = "types" THEN TypeIds(page) ELSE CorrIds(page)

Base ==
    IF phase = "types" THEN (1 + Turns(CorrIds(page))) * RequestTime
                       ELSE RequestTime

\* Lookups that have not begun, or began less than q ticks ago.
Young(q) == todo \cup {id \in Id : worker[id] = "fetch" /\ age[id] < q}

\* It is at most q ticks after the start of a round, and the lookups that were
\* to wait for that round or a later one are no more than the earlier rounds
\* have left.
Paced ==
    \E j \in Nat, q \in 0 .. RequestTime :
        /\ elapsed + RequestTime <= Base + j * RequestTime + q
        /\ j <= Rounds(Cardinality(Ids))
        /\ Young(q) = {} \/ Cardinality(Young(q)) + j * Limit <= Cardinality(Ids)

AgeInv ==
    /\ age \in [Requester -> 0 .. RequestTime]
    /\ elapsed \in Nat
    /\ \A x \in Requester : ~InFlight(x) => age[x] = 0

PhaseInv ==
    /\ phase = "idle" => elapsed = 0
    /\ phase = "search" => elapsed <= age[Nil]
    /\ phase = "failed" => elapsed <= RequestTime
    /\ phase \in {"render", "replied"} => elapsed <= Depth * RequestTime
    /\ Resolving /\ tool = "list" => Paced
    /\ Resolving /\ tool = "content" => todo = Ids /\ elapsed <= Base + age[Nil]

TTInv == TInv /\ AgeInv /\ PhaseInv

-----------------------------------------------------------------------------
\* Arithmetic that the provers need spelled out.
LEMMA Grows ==
    ASSUME NEW m \in Nat, NEW n \in Nat, NEW k \in Nat, m <= n
    PROVE  m * k \in Nat /\ n * k \in Nat /\ m * k <= n * k
<1>1. PICK d \in Nat : n = m + d
  <2> WITNESS n - m \in Nat
  <2> QED OBVIOUS
<1>2. n * k = m * k + d * k
  BY <1>1
<1>3. d * k \in Nat /\ m * k \in Nat
  OBVIOUS
<1> QED
  BY <1>2, <1>3

LEMMA OneIsEnough ==
    ASSUME NEW e \in Nat, NEW k \in Nat, NEW n \in Nat \ {0}, e <= k
    PROVE  e <= n * k
<1>1. 1 * k <= n * k /\ n * k \in Nat
  BY Grows
<1> QED
  BY <1>1

LEMMA Distributes ==
    ASSUME NEW m \in Nat, NEW n \in Nat, NEW k \in Nat
    PROVE  (m + n) * k = m * k + n * k
OBVIOUS

LEMMA RoundsSuffice ==
    ASSUME NEW n \in Nat
    PROVE  /\ Rounds(n) \in Nat
           /\ \A j \in Nat : j * Limit < n => j + 1 <= Rounds(n)
<1> DEFINE m == n + Limit - 1
           d == m \div Limit
<1>1. m \in Nat /\ Limit \in Nat /\ Limit > 0
  BY LimitAssumption
<1> HIDE DEF m
<1>2. d \in Int /\ d * Limit <= m /\ m < (d + 1) * Limit
  BY <1>1
<1>3. d \in Nat
  BY <1>1
<1> HIDE DEF d
<1>4. n <= d * Limit
  <2>1. (d + 1) * Limit = d * Limit + Limit
    BY <1>1, <1>3
  <2>2. d * Limit \in Nat
    BY <1>1, <1>3
  <2> QED
    BY <1>1, <1>2, <2>1, <2>2 DEF m
<1>5. ASSUME NEW j \in Nat, j * Limit < n
      PROVE  j + 1 <= d
  <2>1. CASE d <= j
    <3>1. d * Limit <= j * Limit /\ d * Limit \in Nat /\ j * Limit \in Nat
      BY <1>1, <1>3, <2>1, Grows
    <3> QED
      BY <1>4, <1>5, <3>1
  <2> QED
    BY <1>3, <2>1
<1>6. Rounds(n) = d
  BY DEF Rounds, d, m
<1> QED
  BY <1>3, <1>5, <1>6

\* What the steps below use of the types.
LEMMA CountsTyped ==
    ASSUME TypeOK
    PROVE  /\ IsFiniteSet(Id) /\ Nil \notin Id
           /\ CorrIds(page) \subseteq Id /\ TypeIds(page) \subseteq Id
           /\ IsFiniteSet(Ids) /\ Cardinality(Ids) \in Nat
           /\ Turns(CorrIds(page)) \in Nat /\ Turns(TypeIds(page)) \in Nat
           /\ Depth \in Nat \ {0}
           /\ RequestTime \in Nat \ {0} /\ Limit \in Nat \ {0}
           /\ Base \in Nat
<1>1. IsFiniteSet(Id) /\ Nil \notin Id
  BY IdAssumption, FS_Union DEF Id
<1>2. CorrIds(page) \subseteq Id /\ TypeIds(page) \subseteq Id
  BY PageIds
<1>3. IsFiniteSet(CorrIds(page)) /\ IsFiniteSet(TypeIds(page))
  BY <1>1, <1>2, FS_Subset
<1>4. Cardinality(CorrIds(page)) \in Nat /\ Cardinality(TypeIds(page)) \in Nat
  BY <1>3, FS_CardinalityType
<1>5. Turns(CorrIds(page)) \in Nat /\ Turns(TypeIds(page)) \in Nat
  BY <1>4, RoundsSuffice DEF Turns
<1>6. Depth \in Nat \ {0}
  BY <1>5 DEF Depth
<1>7. RequestTime \in Nat \ {0} /\ Limit \in Nat \ {0}
  BY RequestTimeAssumption, LimitAssumption
<1>8. Base \in Nat
  BY <1>5, <1>7, Grows DEF Base
<1> QED
  BY <1>1, <1>2, <1>3, <1>4, <1>5, <1>6, <1>7, <1>8 DEF Ids

\* The end of a phase, which is the beginning of the next.
Ended == Base + Turns(Ids) * RequestTime

LEMMA PhasesFollow ==
    ASSUME TypeOK, tool # "plain"
    PROVE  /\ phase = "correspondents" =>
                Ended = (1 + Turns(CorrIds(page))) * RequestTime
           /\ phase = "types" => Ended = Depth * RequestTime
<1>0. /\ Turns(CorrIds(page)) \in Nat /\ Turns(TypeIds(page)) \in Nat
      /\ RequestTime \in Nat
  BY CountsTyped
<1>1. ASSUME phase = "correspondents"
      PROVE  Ended = (1 + Turns(CorrIds(page))) * RequestTime
  <2>1. Ended = RequestTime + Turns(CorrIds(page)) * RequestTime
    BY <1>1 DEF Ended, Base, Ids
  <2> QED
    BY <1>0, <2>1, Distributes
<1>2. ASSUME phase = "types"
      PROVE  Ended = Depth * RequestTime
  <2> DEFINE m == 1 + Turns(CorrIds(page))
  <2>1. Ended = m * RequestTime + Turns(TypeIds(page)) * RequestTime
    BY <1>2 DEF Ended, Base, Ids
  <2>2. Depth = m + Turns(TypeIds(page)) /\ m \in Nat
    BY <1>0 DEF Depth
  <2> HIDE DEF m
  <2> QED
    BY <1>0, <2>1, <2>2, Distributes
<1> QED
  BY <1>1, <1>2

\* A paced phase has ended in time.
LEMMA PacedEnds ==
    ASSUME TypeOK, AgeInv, Paced, tool = "list"
    PROVE  elapsed <= Ended
<1>1. PICK j \in Nat, q \in 0 .. RequestTime :
        /\ elapsed + RequestTime <= Base + j * RequestTime + q
        /\ j <= Rounds(Cardinality(Ids))
  BY DEF Paced
<1>2. /\ RequestTime \in Nat /\ Base \in Nat /\ elapsed \in Nat
      /\ Rounds(Cardinality(Ids)) \in Nat
  BY CountsTyped, RoundsSuffice DEF AgeInv
<1>3. /\ j * RequestTime <= Rounds(Cardinality(Ids)) * RequestTime
      /\ j * RequestTime \in Nat /\ Rounds(Cardinality(Ids)) * RequestTime \in Nat
  BY <1>1, <1>2, Grows
<1> QED
  BY <1>1, <1>2, <1>3 DEF Ended, Turns

\* So has a lookup by get_document_content: there is at least one id if it has
\* taken any time.
LEMMA SingleEnds ==
    ASSUME TypeOK, AgeInv, tool = "content", Resolving, todo = Ids,
           elapsed <= Base + age[Nil]
    PROVE  elapsed <= Ended
<1>1. /\ age[Nil] \in 0 .. RequestTime /\ elapsed \in Nat /\ Base \in Nat
      /\ RequestTime \in Nat /\ Turns(Ids) = Cardinality(Ids)
      /\ Cardinality(Ids) \in Nat /\ IsFiniteSet(Ids)
  BY CountsTyped DEF AgeInv, Requester, Turns
<1>2. CASE Ids = {}
  <2>1. age[Nil] = 0
    BY <1>2 DEF AgeInv, InFlight, Requester, Resolving
  <2>2. Cardinality(Ids) * RequestTime \in Nat
    BY <1>1
  <2> QED
    BY <1>1, <2>1, <2>2 DEF Ended
<1>3. CASE Ids # {}
  <2>1. Cardinality(Ids) >= 1
    BY <1>1, <1>3, FS_EmptySet
  <2>2. /\ 1 * RequestTime <= Cardinality(Ids) * RequestTime
        /\ Cardinality(Ids) * RequestTime \in Nat
    BY <1>1, <2>1, Grows
  <2> QED
    BY <1>1, <2>2 DEF Ended
<1> QED
  BY <1>2, <1>3

\* A group begins paced.
LEMMA PacedBegins ==
    ASSUME TypeOK, elapsed \in Nat, elapsed <= Base, todo = Ids, Active = {}
    PROVE  Paced
<1>1. /\ RequestTime \in Nat /\ Base \in Nat /\ Cardinality(Ids) \in Nat
      /\ Rounds(Cardinality(Ids)) \in Nat /\ Limit \in Nat
  BY CountsTyped, RoundsSuffice
<1>2. Young(RequestTime) = Ids
  BY DEF Young, Active
<1>3. /\ elapsed + RequestTime <= Base + 0 * RequestTime + RequestTime
      /\ 0 <= Rounds(Cardinality(Ids))
      /\ Cardinality(Young(RequestTime)) + 0 * Limit <= Cardinality(Ids)
  BY <1>1, <1>2
<1> QED
  BY <1>1, <1>3 DEF Paced

\* The same of the next state.
CountsOK == Base \in Nat /\ Depth \in Nat \ {0}

LEMMA CountsTypedNext == TypeOK' => CountsOK'
<1>1. TypeOK => CountsOK
  BY CountsTyped DEF CountsOK
<1> QED
  BY <1>1, PTL

Beginning ==
    /\ TypeOK /\ elapsed \in Nat /\ elapsed <= Base /\ todo = Ids /\ Active = {}

LEMMA PacedBeginsNext == Beginning' => Paced'
<1>1. Beginning => Paced
  BY PacedBegins DEF Beginning
<1> QED
  BY <1>1, PTL

-----------------------------------------------------------------------------
LEMMA TimedInit == TInit => TTInv
<1> SUFFICES ASSUME TInit PROVE TTInv
  OBVIOUS
<1>1. TInv /\ phase = "idle" /\ ~Resolving
  BY InitInv DEF TInit, Init, Resolving
<1>2. AgeInv
  BY RequestTimeAssumption DEF TInit, AgeInv
<1>3. PhaseInv
  BY <1>1 DEF TInit, PhaseInv
<1> QED
  BY <1>1, <1>2, <1>3 DEF TTInv

LEMMA AgesNext == TTInv /\ [TNext]_timedVars => AgeInv'
<1> SUFFICES ASSUME TTInv, [TNext]_timedVars PROVE AgeInv'
  OBVIOUS
<1>0. AgeInv /\ RequestTime \in Nat \ {0}
  BY RequestTimeAssumption DEF TTInv
<1>1. CASE TStep
  BY <1>0, <1>1 DEF TStep, AgeInv
<1>2. CASE Tick
  <2>1. \A x \in Requester : InFlight(x)' = InFlight(x)
    BY <1>2 DEF Tick, vars, InFlight, Resolving
  <2>2. \A x \in Requester : age'[x] = IF InFlight(x) THEN age[x] + 1 ELSE age[x]
    BY <1>2 DEF Tick
  <2>3. \A x \in Requester : age'[x] \in 0 .. RequestTime
    BY <1>0, <1>2, <2>2 DEF Tick, AgeInv
  <2>4. age' \in [Requester -> 0 .. RequestTime]
    BY <1>2, <2>2, <2>3 DEF Tick
  <2>5. elapsed' \in Nat
    BY <1>0, <1>2 DEF Tick, AgeInv
  <2>6. \A x \in Requester : ~InFlight(x)' => age'[x] = 0
    BY <1>0, <2>1, <2>2 DEF AgeInv
  <2> QED
    BY <2>4, <2>5, <2>6 DEF AgeInv
<1>3. CASE UNCHANGED timedVars
  BY <1>0, <1>3 DEF timedVars, vars, AgeInv, InFlight, Resolving
<1> QED
  BY <1>1, <1>2, <1>3 DEF TNext

\* Steps of the group take no time and make no lookup younger.
LEMMA PacedStays ==
    ASSUME TypeOK, Paced, UNCHANGED <<elapsed, page, phase, tool>>,
           \A q \in 0 .. RequestTime : Young(q)' \subseteq Young(q)
    PROVE  Paced'
<1>1. PICK j \in Nat, q \in 0 .. RequestTime :
        /\ elapsed + RequestTime <= Base + j * RequestTime + q
        /\ j <= Rounds(Cardinality(Ids))
        /\ Young(q) = {} \/ Cardinality(Young(q)) + j * Limit <= Cardinality(Ids)
  BY DEF Paced
<1>2. Base' = Base /\ Ids' = Ids
  BY DEF Base, Ids, CorrIds, TypeIds, Turns
<1>3. IsFiniteSet(Young(q)) /\ Young(q)' \in SUBSET Young(q)
  BY CountsTyped, FS_Subset DEF Young, TypeOK
<1>4. /\ Cardinality(Young(q)') <= Cardinality(Young(q))
      /\ Cardinality(Young(q)) \in Nat /\ Cardinality(Young(q)') \in Nat
  BY <1>3, FS_Subset, FS_CardinalityType
<1>5. j * Limit \in Nat /\ Cardinality(Ids) \in Nat
  BY CountsTyped
<1>6. Young(q)' = {} \/ Cardinality(Young(q)') + j * Limit <= Cardinality(Ids)
  BY <1>1, <1>3, <1>4, <1>5
<1> QED
  BY <1>1, <1>2, <1>6 DEF Paced

\* Time passes for a group only while it uses all its slots or has nothing left
\* to launch, and only while a lookup is in flight: a new round begins with
\* Limit lookups fewer to come.
LEMMA PacedTicks ==
    ASSUME TTInv, Tick, Resolving, tool = "list"
    PROVE  Paced'
<1>0. /\ TypeOK /\ GroupInv /\ MutexInv /\ AgeInv /\ Paced
      /\ UNCHANGED vars /\ elapsed' = elapsed + 1 /\ elapsed \in Nat
  BY DEF TTInv, TInv, PhaseInv, Tick, AgeInv
<1>1. /\ IsFiniteSet(Id) /\ Nil \notin Id /\ RequestTime \in Nat \ {0}
      /\ Limit \in Nat \ {0} /\ Cardinality(Ids) \in Nat /\ Base \in Nat
  BY <1>0, CountsTyped
<1>2. Base' = Base /\ Ids' = Ids
  BY <1>0 DEF vars, Base, Ids, CorrIds, TypeIds, Turns
<1>3. PICK j \in Nat, q \in 0 .. RequestTime :
        /\ elapsed + RequestTime <= Base + j * RequestTime + q
        /\ j <= Rounds(Cardinality(Ids))
        /\ Young(q) = {} \/ Cardinality(Young(q)) + j * Limit <= Cardinality(Ids)
  BY <1>0 DEF Paced
<1>4. \A id \in Id : worker[id] \in {"none", "fetch"}
  <2> SUFFICES ASSUME NEW id \in Id, worker[id] \in {"lock", "write"} PROVE FALSE
    BY <1>0 DEF TypeOK
  <2>1. worker[id] = "lock" /\ mu # Nil
    BY DEF Tick, Runnable
  <2>2. mu \in Id /\ worker[mu] = "write"
    BY <1>0, <2>1 DEF TypeOK, MutexInv
  <2> QED
    BY <2>2 DEF Tick, Runnable
<1>5. Active = {id \in Id : worker[id] = "fetch"}
  BY <1>4 DEF Active
<1>6. \A id \in Active : age[id] < RequestTime /\ age[id] \in Nat /\ age'[id] = age[id] + 1
  BY <1>0, <1>1, <1>5 DEF Tick, InFlight, Requester, AgeInv
<1>7. Active # {}
  <2>1. PICK x \in Requester : InFlight(x)
    BY DEF Tick
  <2>2. x # Nil
    BY <2>1 DEF InFlight, Resolving
  <2> QED
    BY <1>5, <2>1, <2>2 DEF InFlight, Requester
<1>8. todo = {} \/ Cardinality(Active) >= Limit
  <2>1. IsFiniteSet(Active) /\ Cardinality(Active) \in Nat
    BY <1>1, FS_Subset, FS_CardinalityType DEF Active
  <2>2. Active \cap GroupIds = Active
    BY <1>0, OneGroup
  <2>3. todo = {} \/ ~GroupHasRoom
    BY DEF Tick, Runnable
  <2> QED
    BY <1>1, <2>1, <2>2, <2>3 DEF GroupHasRoom
<1>9. /\ j * RequestTime \in Nat /\ j * Limit \in Nat
      /\ (j + 1) * RequestTime = j * RequestTime + RequestTime
      /\ (j + 1) * Limit = j * Limit + Limit
  BY <1>1
<1>10. CASE q < RequestTime
  <2>1. Young(q + 1)' = Young(q)
    <3>1. \A id \in Id : worker[id] = "fetch" => (age'[id] < q + 1 <=> age[id] < q)
      BY <1>5, <1>6
    <3> QED
      BY <1>0, <3>1 DEF Young, vars
  <2>2. q + 1 \in 0 .. RequestTime
    BY <1>1, <1>10
  <2>3. elapsed' + RequestTime <= Base + j * RequestTime + (q + 1)
    BY <1>0, <1>1, <1>3, <1>9
  <2> QED
    BY <1>2, <1>3, <2>1, <2>2, <2>3 DEF Paced
<1>11. CASE q = RequestTime
  <2>1. Young(q) = todo \cup Active
    BY <1>5, <1>6, <1>11 DEF Young
  <2>2. /\ IsFiniteSet(todo) /\ IsFiniteSet(Active) /\ todo \cap Active = {}
        /\ Cardinality(todo) \in Nat /\ Cardinality(Active) \in Nat
    <3>1. todo \in SUBSET Id /\ Active \in SUBSET Id /\ todo \cap Active = {}
      BY <1>0 DEF TypeOK, GroupInv, Active
    <3>2. IsFiniteSet(todo) /\ IsFiniteSet(Active)
      BY <1>1, <3>1, FS_Subset
    <3> QED
      BY <3>1, <3>2, FS_CardinalityType
  <2>3. Cardinality(Young(q)) = Cardinality(todo) + Cardinality(Active)
    <3>1. Cardinality(todo \cup Active) =
            Cardinality(todo) + Cardinality(Active) - Cardinality(todo \cap Active)
      BY <2>2, FS_Union
    <3>2. Cardinality(todo \cap Active) = 0
      BY <2>2, FS_EmptySet
    <3> QED
      BY <2>1, <2>2, <3>1, <3>2
  <2>4. Cardinality(Active) >= 1
    BY <1>7, <2>2, FS_EmptySet
  <2>5. Cardinality(todo) + Cardinality(Active) + j * Limit <= Cardinality(Ids)
    BY <1>3, <1>7, <2>1, <2>3
  <2>6. j + 1 <= Rounds(Cardinality(Ids))
    BY <1>1, <1>9, <2>2, <2>4, <2>5, RoundsSuffice
  <2>7. Young(1)' = todo
    <3>1. \A id \in Id : worker[id] = "fetch" => ~(age'[id] < 1)
      BY <1>5, <1>6
    <3> QED
      BY <1>0, <3>1 DEF Young, vars
  <2>8. todo = {} \/ Cardinality(todo) + (j + 1) * Limit <= Cardinality(Ids)
    BY <1>1, <1>8, <1>9, <2>2, <2>5
  <2>9. elapsed' + RequestTime <= Base + (j + 1) * RequestTime + 1
    BY <1>0, <1>1, <1>3, <1>9, <1>11
  <2>10. j + 1 \in Nat /\ 1 \in 0 .. RequestTime
    BY <1>1
  <2> QED
    BY <1>2, <2>6, <2>7, <2>8, <2>9, <2>10 DEF Paced
<1> QED
  BY <1>1, <1>10, <1>11

-----------------------------------------------------------------------------
LEMMA TicksNext == TTInv /\ Tick => PhaseInv'
<1> SUFFICES ASSUME TTInv, Tick PROVE PhaseInv'
  OBVIOUS
<1>0. /\ TypeOK /\ GroupInv /\ AgeInv /\ PhaseInv /\ UNCHANGED vars
      /\ elapsed' = elapsed + 1
  BY DEF TTInv, TInv, Tick
<1>1. /\ age[Nil] \in Nat /\ elapsed \in Nat /\ RequestTime \in Nat /\ Base \in Nat
      /\ InFlight(Nil) => age'[Nil] = age[Nil] + 1
  BY <1>0, CountsTyped DEF Tick, AgeInv, Requester
<1>2. phase \in {"search", "correspondents", "types"}
  <2>1. phase \notin {"render", "replied", "failed"}
    BY DEF Tick, Runnable
  <2>2. phase # "idle"
    <3> SUFFICES ASSUME phase = "idle" PROVE FALSE
      OBVIOUS
    <3>1. Active = {}
      BY <1>0 DEF GroupInv, Resolving
    <3>2. \A x \in Requester : ~InFlight(x)
      BY <3>1 DEF InFlight, Requester, Active, Resolving
    <3> QED
      BY <3>2 DEF Tick
  <2> QED
    BY <1>0, <2>1, <2>2 DEF TypeOK
<1>3. CASE phase = "search"
  <2>1. InFlight(Nil)
    BY <1>3 DEF InFlight
  <2>2. elapsed' <= age'[Nil]
    BY <1>0, <1>1, <1>3, <2>1 DEF PhaseInv
  <2> QED
    BY <1>0, <1>3, <2>2 DEF PhaseInv, vars, Resolving
<1>4. CASE Resolving
  <2>1. tool \in {"list", "content"}
    BY <1>0, <1>4 DEF TypeOK, Tool, GroupInv
  <2>2. CASE tool = "list"
    BY <1>0, <1>4, <2>2, PacedTicks DEF PhaseInv, vars, Resolving
  <2>3. CASE tool = "content"
    <3>1. Active = {}
      BY <1>0, <2>3 DEF GroupInv
    <3>2. todo # {}
      BY <1>4, <3>1 DEF Tick, Runnable
    <3>3. age'[Nil] = age[Nil] + 1
      BY <1>1, <1>4, <2>3, <3>2 DEF InFlight
    <3>4. todo = Ids /\ elapsed <= Base + age[Nil]
      BY <1>0, <1>4, <2>3 DEF PhaseInv
    <3>5. Base' = Base /\ Ids' = Ids /\ todo' = todo
      BY <1>0 DEF vars, Base, Ids, CorrIds, TypeIds, Turns
    <3>6. todo' = Ids' /\ elapsed' <= Base' + age'[Nil]
      BY <1>0, <1>1, <3>3, <3>4, <3>5
    <3> QED
      BY <1>0, <1>4, <2>3, <3>6 DEF PhaseInv, vars, Resolving
  <2> QED
    BY <2>1, <2>2, <2>3
<1> QED
  BY <1>2, <1>3, <1>4 DEF Resolving

LEMMA StepsNext == TTInv /\ TStep => PhaseInv'
<1> SUFFICES ASSUME TTInv, TStep PROVE PhaseInv'
  OBVIOUS
<1> USE DEF callVars
<1>0. /\ TypeOK /\ GroupInv /\ AgeInv /\ PhaseInv /\ TypeOK' /\ GroupInv' /\ AgeInv'
      /\ Next
  <2>1. TInv' /\ AgeInv'
    BY InvariantNext, AgesNext DEF TTInv, TStep, TNext
  <2> QED
    BY <2>1 DEF TTInv, TInv, TStep
<1>1. /\ elapsed \in Nat /\ age[Nil] \in 0 .. RequestTime /\ age'[Nil] \in 0 .. RequestTime
      /\ RequestTime \in Nat \ {0} /\ Base \in Nat
      /\ phase' # "idle" => elapsed' = elapsed
      /\ Depth' \in Nat \ {0}
  <2>1. /\ elapsed \in Nat /\ age[Nil] \in 0 .. RequestTime
        /\ age'[Nil] \in 0 .. RequestTime
    BY <1>0 DEF AgeInv, Requester
  <2>2. Depth' \in Nat \ {0}
    BY <1>0, CountsTypedNext DEF CountsOK
  <2> QED
    BY <1>0, <2>1, <2>2, CountsTyped DEF TStep
\* A call that took one request is within any bound.
<1>2. ASSUME elapsed <= RequestTime
      PROVE  elapsed <= Depth' * RequestTime
  BY <1>1, <1>2, OneIsEnough
<1>3. ASSUME NEW t \in Tool, Call(t) PROVE PhaseInv'
  BY <1>0, <1>1, <1>3 DEF Call, PhaseInv, Resolving
<1>4. CASE SearchSucceeds
  <2>1. /\ elapsed <= RequestTime /\ elapsed' = elapsed
        /\ phase' \in {"render", "correspondents"} /\ worker' = worker /\ tool' = tool
    BY <1>0, <1>1, <1>4 DEF SearchSucceeds, PhaseInv
  <2>2. CASE phase' = "render"
    BY <1>2, <2>1, <2>2 DEF PhaseInv, Resolving
  <2>3. CASE phase' = "correspondents"
    <3>1. todo' = Ids' /\ Base' = RequestTime
      BY <1>4, <2>3 DEF SearchSucceeds, Ids, Base, CorrIds
    <3>2. Active' = {}
      BY <1>0, <1>4, <2>1 DEF SearchSucceeds, GroupInv, Resolving, Active
    <3>3. Paced'
      BY <1>0, <1>1, <2>1, <3>1, <3>2, PacedBeginsNext DEF Beginning
    <3>4. elapsed' <= Base' + age'[Nil]
      BY <1>1, <2>1, <3>1
    <3> QED
      BY <2>3, <3>1, <3>3, <3>4 DEF PhaseInv
  <2> QED
    BY <2>1, <2>2, <2>3
<1>5. CASE SearchFails
  BY <1>0, <1>1, <1>5 DEF SearchFails, PhaseInv, Resolving
\* The steps of a group.
<1>6. ASSUME NEW id \in Id, Launch(id) \/ WorkerStep(id) PROVE PhaseInv'
  <2>1. /\ UNCHANGED <<page, phase, tool>> /\ Resolving /\ tool = "list"
    <3>1. CASE Launch(id)
      BY <3>1 DEF Launch
    <3>2. CASE WorkerStep(id)
      <4>1. UNCHANGED <<page, phase, tool>> /\ id \in Active
        BY <3>2 DEF WorkerStep, LookupSucceeds, LookupFails, Lock, Write, Active
      <4> QED
        BY <1>0, <4>1 DEF GroupInv
    <3> QED
      BY <1>6, <3>1, <3>2
  <2>2. elapsed' = elapsed
    BY <1>1, <2>1 DEF Resolving
  <2>3. ASSUME NEW x \in Id, worker'[x] = "fetch"
        PROVE  /\ age'[x] = age[x]
               /\ worker[x] = "fetch" \/ x \in todo
    <3>1. x # Nil /\ x \in Requester
      BY IdAssumption DEF Id, Requester
    <3>2. age'[x] = age[x]
      BY <2>3, <3>1 DEF TStep, InFlight
    <3> QED
      BY <1>0, <1>6, <2>3, <3>2
      DEF Launch, WorkerStep, LookupSucceeds, LookupFails, Lock, Write, TypeOK
  <2>4. todo' \subseteq todo
    BY <1>6 DEF Launch, WorkerStep, LookupSucceeds, LookupFails, Lock, Write
  <2>5. \A q \in 0 .. RequestTime : Young(q)' \subseteq Young(q)
    BY <2>3, <2>4 DEF Young
  <2>6. Paced
    BY <1>0, <2>1 DEF PhaseInv
  <2>7. Paced'
    BY <1>0, <2>1, <2>2, <2>5, <2>6, PacedStays
  <2> QED
    BY <2>1, <2>7 DEF PhaseInv, Resolving
\* The end of a phase.
<1>7. ASSUME WaitReturns \/ ResolveOne
      PROVE  PhaseInv'
  <2>1. /\ Resolving /\ NextPhase /\ UNCHANGED <<tool, page, worker>>
        /\ tool \in {"list", "content"}
    BY <1>7 DEF WaitReturns, ResolveOne
  <2>2. elapsed <= Ended /\ elapsed' = elapsed
    <3>1. CASE tool = "list"
      BY <1>0, <1>1, <2>1, <3>1, PacedEnds DEF PhaseInv, NextPhase
    <3>2. CASE tool = "content"
      BY <1>0, <1>1, <2>1, <3>2, SingleEnds DEF PhaseInv, NextPhase
    <3> QED
      BY <2>1, <3>1, <3>2
  <2>3. CASE phase = "correspondents"
    <3>1. phase' = "types" /\ todo' = TypeIds(page)
      BY <2>1, <2>3 DEF NextPhase
    <3>2. todo' = Ids' /\ Base' = (1 + Turns(CorrIds(page))) * RequestTime
      BY <2>1, <3>1 DEF Ids, Base, CorrIds, TypeIds, Turns
    <3>3. elapsed' <= Base'
      BY <1>0, <2>1, <2>2, <2>3, <3>2, PhasesFollow
    <3>4. Active' = {}
      BY <1>0, <1>7, <2>1 DEF WaitReturns, ResolveOne, GroupInv, Active
    <3>5. Paced'
      BY <1>0, <3>2, <3>3, <3>4, PacedBeginsNext DEF Beginning, AgeInv
    <3>6. elapsed' <= Base' + age'[Nil]
      BY <1>0, <1>1, <2>2, <3>1, <3>3, CountsTypedNext DEF CountsOK
    <3> QED
      BY <3>1, <3>2, <3>5, <3>6 DEF PhaseInv
  <2>4. CASE phase = "types"
    <3>1. phase' = "render"
      BY <2>1, <2>4 DEF NextPhase
    <3>2. Depth' = Depth
      BY <2>1 DEF Depth, CorrIds, TypeIds, Turns
    <3>3. elapsed' <= Depth' * RequestTime
      BY <1>0, <2>1, <2>2, <2>4, <3>2, PhasesFollow
    <3> QED
      BY <3>1, <3>3 DEF PhaseInv, Resolving
  <2> QED
    BY <2>1, <2>3, <2>4 DEF Resolving
<1>8. CASE Render
  <2>1. /\ phase = "render" /\ phase' = "replied" /\ UNCHANGED <<tool, page>>
        /\ elapsed' = elapsed
    BY <1>1, <1>8 DEF Render
  <2>2. Depth' = Depth
    BY <2>1 DEF Depth, CorrIds, TypeIds, Turns
  <2> QED
    BY <1>0, <2>1, <2>2 DEF PhaseInv, Resolving
<1>9. CASE Return
  BY <1>9 DEF Return, TStep, PhaseInv, Resolving
<1>10. CASE Cancel
  <2>1. /\ UNCHANGED <<tool, page, phase, todo, worker>>
        /\ phase \in {"search", "correspondents", "types", "render"}
        /\ elapsed' = elapsed
    BY <1>1, <1>10 DEF Cancel
  <2>2. \A x \in Requester : InFlight(x)' = InFlight(x)
    BY <2>1 DEF InFlight, Resolving
  <2>3. age' = age
    <3>1. \A x \in Requester : age'[x] = age[x]
      BY <1>0, <2>1, <2>2 DEF TStep, AgeInv
    <3> QED
      BY <1>0, <3>1 DEF AgeInv
  <2>4. Depth' = Depth /\ Base' = Base /\ Ids' = Ids
    BY <2>1 DEF Depth, Base, Ids, CorrIds, TypeIds, Turns
  <2>5. Paced' = Paced
    BY <2>1, <2>3, <2>4 DEF Paced, Young
  <2> QED
    BY <1>0, <2>1, <2>3, <2>4, <2>5 DEF PhaseInv, Resolving
<1> QED
  BY <1>0, <1>3, <1>4, <1>5, <1>6, <1>7, <1>8, <1>9, <1>10 DEF Next, HandlerStep

LEMMA TimedNext == TTInv /\ [TNext]_timedVars => TTInv'
<1> SUFFICES ASSUME TTInv, [TNext]_timedVars PROVE TTInv'
  OBVIOUS
<1>1. TInv'
  BY InvariantNext DEF TTInv, TNext, TStep, Tick, timedVars
<1>2. AgeInv'
  BY AgesNext
<1>3. CASE UNCHANGED timedVars
  <2>1. PhaseInv' = PhaseInv
    BY <1>3 DEF timedVars, vars, PhaseInv, Paced, Young, Depth, Base, Ids, CorrIds,
                TypeIds, Turns, Resolving
  <2> QED
    BY <1>1, <1>2, <2>1 DEF TTInv
<1>4. CASE TStep \/ Tick
  BY <1>1, <1>2, <1>4, StepsNext, TicksNext DEF TTInv
<1> QED
  BY <1>3, <1>4 DEF TNext

\* A tool call takes no longer than the requests that can follow one another, for
\* any page and any limit of the group (tools.go:170-352).
THEOREM CallsEndInTime == TSpec => []CallIsBounded
<1>1. TTInv => CallIsBounded
  <2> SUFFICES ASSUME TTInv PROVE elapsed <= Depth * RequestTime
    BY DEF CallIsBounded
  <2>0. TypeOK /\ AgeInv /\ PhaseInv
    BY DEF TTInv, TInv
  <2>1. /\ elapsed \in Nat /\ Depth \in Nat \ {0} /\ RequestTime \in Nat
        /\ age[Nil] \in 0 .. RequestTime
        /\ Turns(CorrIds(page)) \in Nat /\ Turns(TypeIds(page)) \in Nat
    BY <2>0, CountsTyped DEF AgeInv, Requester
  <2>2. CASE phase \in {"idle", "search", "failed"}
    <3>1. elapsed <= RequestTime
      BY <2>0, <2>1, <2>2 DEF PhaseInv
    <3> QED
      BY <2>1, <3>1, OneIsEnough
  <2>3. CASE phase \in {"render", "replied"}
    BY <2>0, <2>3 DEF PhaseInv
  <2>4. CASE Resolving
    <3>1. tool \in {"list", "content"}
      BY <2>0, <2>4 DEF TTInv, TInv, TypeOK, Tool, GroupInv
    <3>2. elapsed <= Ended
      <4>1. CASE tool = "list"
        BY <2>0, <2>4, <4>1, PacedEnds DEF PhaseInv
      <4>2. CASE tool = "content"
        BY <2>0, <2>4, <4>2, SingleEnds DEF PhaseInv
      <4> QED
        BY <3>1, <4>1, <4>2
    <3>3. CASE phase = "types"
      BY <2>0, <3>1, <3>2, <3>3, PhasesFollow
    <3>4. CASE phase = "correspondents"
      <4> DEFINE m == 1 + Turns(CorrIds(page))
      <4>1. elapsed <= m * RequestTime
        BY <2>0, <3>1, <3>2, <3>4, PhasesFollow
      <4>2. m \in Nat /\ m <= Depth
        BY <2>1, <3>1 DEF Depth
      <4>3. m * RequestTime <= Depth * RequestTime /\ m * RequestTime \in Nat
            /\ Depth * RequestTime \in Nat
        BY <2>1, <4>2, Grows
      <4> HIDE DEF m
      <4> QED
        BY <2>1, <4>1, <4>3
    <3> QED
      BY <2>4, <3>3, <3>4 DEF Resolving
  <2> QED
    BY <2>0, <2>2, <2>3, <2>4 DEF TypeOK, Resolving
<1> QED
  BY TimedInit, TimedNext, <1>1, PTL DEF TSpec
=============================================================================
