------------------------------- MODULE ToolSets -------------------------------
(***************************************************************************)
(* The tools of a turn (app/tools/toolset.py, app/engine/capabilities.py)  *)
(* and where a call of one ends: in the gateway, in the open form          *)
(* (app/engine/form_tools.py) or in the tenant's CRM, as a preview or for  *)
(* good (app/tools/crm_provider.py, observation.py).                       *)
(*                                                                         *)
(* Turns of one chat follow each other; every one builds its tools from    *)
(* the copy of the CRM's manifest it is given, which may be another one    *)
(* each time, a stale one or none.  What a turn proposed another confirms  *)
(* or edits.  How the turns share the chat is in ChatTurns.                *)
(***************************************************************************)
EXTENDS Naturals

CONSTANTS
    Contents,     \* contents of a write
    MaxTokens, \* bound on the previews of the CRM
    Nil

ASSUME ToolSetAssumption == MaxTokens \in Nat /\ Nil \notin Nat

VARIABLES
    turn,      \* the turn that runs, its tools and what it has done
    pending,   \* the proposal that waits for the user, or Nil
    shown      \* history: the last preview of the CRM the user has seen

toolVars == <<turn, pending, shown>>

-----------------------------------------------------------------------------
(* What the CRM publishes; app/tools/contracts.py *)

\* RESERVED_NATIVE_NAMES, those the turn has no capability for included.
Reserved == {"propose_form_fields_tool", "prepare_company_contacts_tool", "web_search_tool"}
CrmNames == {"crm_query_tool", "crm_action_tool", "custom_tool"}

\* Only readOnlyHint and the capability count; a tool without the hint writes.
Manifests ==
    [tools : {S \union Reserved \union {"crm_query_tool"} : S \in SUBSET CrmNames},
     reads : {{"crm_query_tool"}, {"crm_query_tool", "custom_tool"}},
     extra : {{"custom"}}]

CapabilityOf(name) == IF name = "custom_tool" THEN "custom" ELSE "crm"

NeedsConfirmation(manifest, name) == name \notin manifest.reads

-----------------------------------------------------------------------------
(* ToolSet.build, build_turn_toolset *)

\* resolve_capabilities: what the front end asked for, or what is on by default;
\* unknown ids are left out.
Enabled(manifest, requested) ==
    LET known == {"form", "web"} \union (IF manifest = Nil THEN {} ELSE manifest.extra)
    IN  {"crm"} \union
        (IF requested = Nil THEN known \ {"web"} ELSE requested \cap known)

CrmTools(manifest, enabled, natives) ==
    IF manifest = Nil THEN {}
    ELSE {n \in manifest.tools \ (natives \union Reserved) : CapabilityOf(n) \in enabled}

\* tool_names of CAPABILITIES
ToolNames == [form |-> {"propose_form_fields_tool"}, web |-> {"web_search_tool"}]

\* build_native_tools
Natives(enabled) == UNION {ToolNames[id] : id \in enabled \cap DOMAIN ToolNames}

\* People of a company are prepared by a tool that calls two of the CRM's.
ContactTool(specs) ==
    IF {"crm_query_tool", "crm_action_tool"} \subseteq specs
    THEN {"prepare_company_contacts_tool"} ELSE {}

\* Helpers offer their agents a part: extract_fields and research_company the
\* tools on a list, recommend_actions what only reads.
ExtractionTools(all) == all \cap {"crm_query_tool"}
ResearchTools(all) == all \cap {"crm_query_tool", "web_search_tool"}
AdviceTools(manifest, specs, natives) ==
    natives \union {n \in specs : ~NeedsConfirmation(manifest, n)}

Offered(purpose, manifest, specs, natives) ==
    CASE purpose = "chat" -> specs \union natives
      [] purpose = "extraction" -> ExtractionTools(specs \union natives)
      [] purpose = "research" -> ResearchTools(specs \union natives)
      [] purpose = "recommendation" -> AdviceTools(manifest, specs, natives)

NoTurn == [pc |-> "idle", manifest |-> Nil, specs |-> {}, offered |-> {},
           enabled |-> {}, form |-> "none", purpose |-> "chat", sent |-> Nil]

ToolSetInit == turn = NoTurn /\ pending = Nil /\ shown = Nil

Begins(purpose, manifest, enabled, form) ==
    /\ turn.pc = "idle"
    /\ LET natives == Natives(enabled)
           specs == CrmTools(manifest, enabled, natives)
           all == natives \union ContactTool(specs)
       IN  turn' = [pc |-> "agent", manifest |-> manifest, specs |-> specs,
                    offered |-> Offered(purpose, manifest, specs, all),
                    enabled |-> enabled, form |-> form, purpose |-> purpose,
                    sent |-> Nil]
    /\ UNCHANGED <<pending, shown>>

TurnBegins(manifest) ==
    \E form \in {"none", "record", "new"},
       requested \in {Nil, {}, {"form", "custom", "unknown"}} :
          Begins("chat", manifest, Enabled(manifest, requested), form)

\* The helpers behind buttons of the front end; each names its capabilities.
RecommendActions(manifest) == Begins("recommendation", manifest, {"crm", "web"}, "none")
ExtractFields(manifest) == Begins("extraction", manifest, {"crm"}, "none")
ResearchCompany(manifest) == Begins("research", manifest, {"crm", "web"}, "none")

-----------------------------------------------------------------------------
(* The CRM, reached through CrmToolProvider.call *)

Token == IF shown = Nil THEN 1 ELSE shown.token + 1

\* The CRM may fill in arguments of its own; its token is bound to what it
\* shows.  A helper drops what is shown to it.
Previews(tool, args) ==
    /\ IF turn.purpose = "chat" /\ Token <= MaxTokens
       THEN \E text \in Contents :
               shown' = [tool |-> tool, args |-> [args EXCEPT !.text = text], token |-> Token]
       ELSE UNCHANGED shown
    /\ pending' = IF shown' = shown THEN pending ELSE shown'

Sent(tool, args, to, token) ==
    turn' = [turn EXCEPT !.pc = IF to = "preview" THEN "ended" ELSE "agent",
                         !.sent = [tool |-> tool, args |-> args, to |-> to, token |-> token]]

-----------------------------------------------------------------------------
(* ToolSet.invoke *)

\* A write names its record in the data or, the old way, beside it.
Args == [verb : {"create", "update"}, record : {"none", "open", "other"},
         old : BOOLEAN, text : {CHOOSE text \in Contents : TRUE}]

ArgsOf(tool) ==
    IF tool = "crm_action_tool" THEN Args
    ELSE {args \in Args : args.verb = "update" /\ args.record = "other" /\ ~args.old}

\* Bug: the old spelling is not read.
TargetNew(args) == IF args.old THEN "none" ELSE args.record

Target(args) == args.record

\* targets_open_form
AimsAtForm(args) ==
    /\ turn.form # "none"
    /\ \/ args.verb = "update" /\ (Target(args) = "none" \/ (Target(args) = "open" /\ turn.form = "record"))
       \/ args.verb = "create" /\ turn.form = "new"

Redirected(tool, args) == tool = "crm_action_tool" /\ "form" \in turn.enabled /\ AimsAtForm(args)

\* action_as_form_patch: the form shows the values, or has no schema to show them by.
AsFormPatch(tool, args) == Sent(tool, args, "form", Nil) /\ UNCHANGED <<pending, shown>>

\* A write to the open form ends in the form; then the tool's own annotation
\* decides between preview and execution.
CrmToolCalled(tool, args) ==
    IF Redirected(tool, args)
    THEN AsFormPatch(tool, args)
    ELSE IF NeedsConfirmation(turn.manifest, tool)
    THEN Previews(tool, args) /\ Sent(tool, args, "preview", Nil)
    ELSE Sent(tool, args, "execute", Nil) /\ UNCHANGED <<pending, shown>>

\* The gateway answers itself: a tool of its own, arguments that do not fit the
\* schema, people named in a company's description (guard_contact_description).
GatewayAnswers(tool, args) ==
    Sent(tool, args, "gateway", Nil) /\ UNCHANGED <<pending, shown>>

AgentCalls ==
    /\ turn.pc = "agent"
    /\ \E tool \in turn.offered : \E args \in ArgsOf(tool) :
          \/ tool \in turn.specs /\ CrmToolCalled(tool, args)
          \/ GatewayAnswers(tool, args)

\* propose_form_fields_tool: an agent inside the agent, with tools that only read.
FormFieldsProposed ==
    /\ turn.pc = "agent" /\ "propose_form_fields_tool" \in turn.offered
    /\ \E tool \in ExtractionTools(turn.specs) : \E args \in ArgsOf(tool) : CrmToolCalled(tool, args)

\* prepare_company_contacts_tool: a query, then a preview for each person; a
\* person's card carries the proposal.
ContactsPrepared ==
    /\ turn.pc = "agent" /\ "prepare_company_contacts_tool" \in turn.offered
    /\ \E text \in Contents :
          CrmToolCalled("crm_action_tool",
                        [verb |-> "create", record |-> "other", old |-> FALSE, text |-> text])

\* execute_pending: the tool may be of a capability that is off by now.
UserConfirms ==
    /\ turn.pc = "agent" /\ turn.purpose = "chat" /\ pending # Nil
    /\ turn' = [turn EXCEPT !.pc = "ended",
                  !.sent = IF turn.manifest # Nil /\ pending.tool \in turn.manifest.tools
                           THEN [tool |-> pending.tool, args |-> pending.args,
                                 to |-> "execute", token |-> pending.token]
                           ELSE Nil]
    /\ pending' = Nil
    /\ UNCHANGED shown

\* Bug: the edit is put under the token there is.
EditInPlace(args) ==
    /\ pending' = [pending EXCEPT !.args = args]
    /\ UNCHANGED shown

\* repreview_pending: the token covers the arguments that were shown, so an edit
\* is shown again; where that fails the old proposal stays.
EditAndPreview(args) ==
    IF turn.manifest # Nil /\ pending.tool \in turn.manifest.tools
    THEN Previews(pending.tool, args) \/ UNCHANGED <<pending, shown>>
    ELSE UNCHANGED <<pending, shown>>

UserEdits ==
    /\ turn.pc = "agent" /\ turn.purpose = "chat" /\ pending # Nil
    /\ \E text \in Contents : EditAndPreview([pending.args EXCEPT !.text = text])
    /\ turn' = [turn EXCEPT !.pc = "ended", !.sent = Nil]

TurnEnds ==
    /\ turn.pc # "idle"
    /\ turn' = NoTurn
    /\ UNCHANGED <<pending, shown>>

ToolSetNext ==
    \/ \E manifest \in Manifests \union {Nil} :
          \/ TurnBegins(manifest) \/ RecommendActions(manifest)
          \/ ExtractFields(manifest) \/ ResearchCompany(manifest)
    \/ AgentCalls \/ FormFieldsProposed \/ ContactsPrepared \/ UserConfirms \/ UserEdits \/ TurnEnds

ToolSetSpec == ToolSetInit /\ [][ToolSetNext]_toolVars

-----------------------------------------------------------------------------
(* Properties *)

\* Over any turns and whatever manifest each is given: the CRM executes without
\* a token only what that manifest declares read-only, and with a token exactly
\* the call it showed for it, in the latest form the user has seen; a helper's
\* agent never executes a write.
WritesAsConfirmed ==
    turn.sent # Nil /\ turn.sent.to = "execute" =>
        LET e == turn.sent
        IN  IF e.token = Nil THEN e.tool \in turn.manifest.reads
            ELSE /\ turn.purpose = "chat"
                 /\ e.token = shown.token /\ e.tool = shown.tool /\ e.args = shown.args

\* No call under a name of the gateway's own reaches the CRM, whether or not the
\* turn has that tool.  With the form capability on, no call of the agent writes
\* the record that is open in the form, and none meant for another record ends
\* in the form.
AimedAsNamed ==
    turn.sent # Nil =>
        LET r == turn.sent
            open == \/ r.args.verb = "update" /\ r.args.record = "open" /\ turn.form = "record"
                    \/ r.args.verb = "create" /\ turn.form = "new"
        IN  /\ r.tool \in Reserved => r.to = "gateway"
            /\ r.to = "preview" /\ r.tool = "crm_action_tool" /\ "form" \in turn.enabled => ~open
            /\ r.to = "form" /\ r.args.verb = "update" => r.args.record # "other"
=============================================================================
