------------------------------ MODULE MCServices ------------------------------
(* Eleven components beside the turn: rules, caches, admission, briefings,    *)
(* sessions and reads of the CRM, the index, the tools, the chat's row, edits *)
(* and the context of a turn.  They share no state: a behaviour is one        *)
(* component's, and the others stay in one initial state.                     *)
EXTENDS SkillOverlays, TenantCaches, Admission, Briefing, CrmSession, CrmLists,
        RagSearch, ToolSets, Chats, PendingEdits, TurnContext

CONSTANTS r1, r2, u1, n1, a, b, l1, l2, v1, v2, w1, w2, m1, c1, c2, k1, k2, d1, d2,
          q1, q2, q3, s1
VARIABLE part

\* What Sorting states by places, ranks and sets is what the library's recursions
\* compute: checked on all lists of at most four rows and all sets of up to five numbers.
ASSUME SortingIsTheLibrarys ==
    /\ \A n \in 0..4 : \A rows \in [1..n -> 1..3] : \A S \in SUBSET (1..3) :
          Only(rows, S) = SelectSeq(rows, LAMBDA one : one \in S)
    /\ \A S \in SUBSET (1..5) : InOrder(S) = SetToSortSeq(S, <)

Parts == {"overlays", "caches", "admission", "briefing", "session", "lists", "search",
          "tools", "chats", "edits", "context"}

\* The values of the components whose initial state is a choice, while they rest.
Resting ==
    /\ IF part = "caches" THEN TRUE ELSE kind = "llm" /\ source = v1
    /\ IF part = "admission" THEN TRUE ELSE ahead = [w \in Workers |-> 0]
    /\ IF part = "briefing" THEN TRUE ELSE view = s1
    /\ IF part = "lists" THEN TRUE ELSE
          list = [m \in 1..Sources |-> <<>>]
    /\ IF part = "search" THEN TRUE ELSE
          index = [s \in Places |-> [p \in Points |-> Absent]]
    /\ IF part = "edits" THEN TRUE ELSE
          proposal = [module |-> "Contacts", verb |-> "create", tool |-> TRUE,
                      start |-> 840, length |-> <<1, 0>>, end |-> Unset,
                      description |-> d1, moved |-> FALSE, pc |-> "shown"]

Init ==
    /\ part \in Parts /\ Resting
    /\ OverlayInit /\ CacheInit /\ AdmissionInit /\ BriefingInit /\ SessionInit
    /\ ListInit /\ SearchInit /\ ToolSetInit /\ ChatsInit /\ EditsInit /\ ContextInit

tenantVars == <<overlayVars, cacheVars, admissionVars, briefingVars, sessionVars>>
readVars == <<listVars, searchVars, toolVars>>
userVars == <<chatVars, editVars, contextVars>>

TenantNext ==
    \/ /\ part = "overlays" /\ OverlayNext
       /\ UNCHANGED <<cacheVars, admissionVars, briefingVars, sessionVars>>
    \/ /\ part = "caches" /\ CacheNext
       /\ UNCHANGED <<overlayVars, admissionVars, briefingVars, sessionVars>>
    \/ /\ part = "admission" /\ AdmissionNext
       /\ UNCHANGED <<overlayVars, cacheVars, briefingVars, sessionVars>>
    \/ /\ part = "briefing" /\ BriefingNext
       /\ UNCHANGED <<overlayVars, cacheVars, admissionVars, sessionVars>>
    \/ /\ part = "session" /\ SessionNext
       /\ UNCHANGED <<overlayVars, cacheVars, admissionVars, briefingVars>>

ReadNext ==
    \/ part = "lists" /\ ListNext /\ UNCHANGED <<searchVars, toolVars>>
    \/ part = "search" /\ SearchNext /\ UNCHANGED <<listVars, toolVars>>
    \/ part = "tools" /\ ToolSetNext /\ UNCHANGED <<listVars, searchVars>>

UserNext ==
    \/ part = "chats" /\ ChatsNext /\ UNCHANGED <<editVars, contextVars>>
    \/ part = "edits" /\ EditsNext /\ UNCHANGED <<chatVars, contextVars>>
    \/ part = "context" /\ ContextNext /\ UNCHANGED <<chatVars, editVars>>

Next ==
    /\ UNCHANGED part
    /\ \/ TenantNext /\ UNCHANGED <<readVars, userVars>>
       \/ ReadNext /\ UNCHANGED <<tenantVars, userVars>>
       \/ UserNext /\ UNCHANGED <<tenantVars, readVars>>

Spec == Init /\ [][Next]_<<part, tenantVars, readVars, userVars>>
=============================================================================
