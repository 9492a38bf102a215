----------------------------- MODULE TurnContext -----------------------------
(***************************************************************************)
(* What a turn takes to be on the user's screen (process_input_core of     *)
(* app/engine/pipeline.py): the context the front end sends, with what the *)
(* chat adds to it (app/services/chat_service.py): the record the CRM says *)
(* was created, the pending action's parent, the entry of a shown list the *)
(* user picks by its number.  The tools read the open form from the result *)
(* (app/engine/form_tools.py, app/tools/toolset.py).                       *)
(*                                                                         *)
(* The chat is read by three statements, between which other turns and the *)
(* CRM's notifications store messages.  What a call that is not taken for  *)
(* the form's may do is in ToolSets.                                       *)
(***************************************************************************)
EXTENDS Naturals, SequencesExt

CONSTANTS
    Ids,          \* records of the CRM
    Contacts,     \* those of the module Contacts; the others are meetings
    Window,       \* messages searched for a list: 10
    EventWindow,  \* messages searched for a created record: 30
    MaxMessages,  \* bound on the messages of the chat
    Unknown       \* an empty field

ASSUME ContextAssumption ==
    /\ Contacts \subseteq Ids /\ Unknown \notin Ids \union {"Contacts", "Meetings"}
    /\ Window \in Nat \ {0} /\ EventWindow \in Nat \ {0} /\ MaxMessages \in Nat

VARIABLES
    history,  \* the chat's assistant messages, the newest first
    screen,   \* what the front end sent with the turn: the context and the text
    context,  \* the context as far as it is put together
    waiting,  \* the pending action the turn loaded
    stage,    \* what the turn does next
    write     \* the agent's first write and where it went

contextVars == <<history, screen, context, waiting, stage, write>>

ContextFields == {"module", "record_module", "record", "record_id", "record_name"}
Blank == [f \in ContextFields \union {"contact_id", "meeting_id", "picked"} |-> Unknown]

ModuleOf(id) == IF id \in Contacts THEN "Contacts" ELSE "Meetings"

\* The first that is not empty.
First(x, y) == IF x # Unknown THEN x ELSE y

\* What an assistant message holds: a list, as cards or as the result of a search;
\* a record the CRM reports; a pending meeting, which may name a parent.
Plain == [list |-> <<>>, created |-> Unknown, pending |-> <<>>]
Answers ==
    {[Plain EXCEPT !.list = l] : l \in {l \in SeqOf(Ids, 2) : IsInjective(l)}}
    \union {[Plain EXCEPT !.created = i] : i \in Ids}
    \union {[Plain EXCEPT !.pending = <<p>>] : p \in Contacts \union {Unknown}}

NoWrite == [verb |-> "none", id |-> Unknown, to |-> "none"]
NoScreen == [context |-> Blank, form |-> FALSE, number |-> 0, readOnly |-> FALSE]

ContextInit ==
    /\ history = <<>>
    /\ screen = NoScreen /\ context = Blank /\ waiting = <<>>
    /\ stage = "idle" /\ write = NoWrite

-----------------------------------------------------------------------------
(* The chat, written by other requests as well *)

MessageStored ==
    /\ Len(history) < MaxMessages
    /\ \E m \in Answers : history' = <<m>> \o history
    /\ UNCHANGED <<screen, context, waiting, stage, write>>

HistoryReplaced ==
    /\ history # <<>> /\ history' = <<>>
    /\ UNCHANGED <<screen, context, waiting, stage, write>>

Newest(n) == SubSeq(history, 1, IF n < Len(history) THEN n ELSE Len(history))

\* load_latest_pending_action: of the newest assistant message alone.
LatestPending == IF history = <<>> THEN <<>> ELSE Head(history).pending

LatestCreated ==
    LET events == SelectSeq(Newest(EventWindow), LAMBDA m : m.created # Unknown)
    IN  IF events = <<>> THEN Unknown ELSE Head(events).created

\* extract_history_selection
Entry(message, n) == message.list[n]

\* The newest list that has an entry of the number; which may be an older one
\* than the user has before him.
Picked(n) ==
    LET lists == SelectSeq(Newest(Window), LAMBDA m : n \in DOMAIN m.list)
    IN  IF lists = <<>> THEN Unknown ELSE Entry(Head(lists), n)

-----------------------------------------------------------------------------
(* process_input_core *)

\* A record is named under one of two keys; a form may be open on a record or on
\* a new one.
Shows(i, key) == [Blank EXCEPT !.module = ModuleOf(i), ![key] = i]
Screens ==
    {Blank} \union {[Blank EXCEPT !.module = m] : m \in {"Contacts", "Meetings"}}
    \union {Shows(i, key) : i \in Ids, key \in {"record", "record_id"}}

ContextBegins ==
    /\ stage = "idle" /\ stage' = "begun"
    /\ \E c \in Screens, form, readOnly \in BOOLEAN, number \in 0..2 :
          /\ form => c.module # Unknown
          /\ screen' = [context |-> c, form |-> form, number |-> number,
                        readOnly |-> readOnly]
          /\ context' = c
    /\ waiting' = LatestPending
    /\ UNCHANGED <<history, write>>

\* What a source says of a field that is still empty.
Filled(c, said) == [f \in DOMAIN c |-> IF f \in DOMAIN said THEN First(c[f], said[f]) ELSE c[f]]

WithCreated(c, id) ==
    IF id = Unknown \/ c.module \notin {Unknown, ModuleOf(id)} THEN c
    ELSE Filled(c, [module |-> ModuleOf(id), record_module |-> ModuleOf(id), record |-> id,
                    record_id |-> id, record_name |-> id,
                    meeting_id |-> IF id \in Contacts THEN Unknown ELSE id])

WithPending(c, action) ==
    IF action = <<>> THEN c
    ELSE LET parent == Head(action)
         IN  Filled(c, [module |-> "Meetings", record |-> parent, contact_id |-> parent,
                        record_module |-> IF parent = Unknown THEN Unknown ELSE "Contacts"])

\* What is picked replaces everything.
WithPicked(c, id) ==
    LET said == [module |-> ModuleOf(id), record_module |-> ModuleOf(id), record |-> id,
                 record_id |-> id, record_name |-> id, picked |-> id,
                 contact_id |-> IF id \in Contacts THEN id ELSE c.contact_id]
    IN  IF id = Unknown THEN c
        ELSE [f \in DOMAIN c |-> IF f \in DOMAIN said THEN said[f] ELSE c[f]]

\* Bug: the pending action is merged before the created record.
PendingFirst(c, id, action) == WithCreated(WithPending(c, action), id)

Together(c, id, action) == WithPending(WithCreated(c, id), action)

\* The pending action is left out of a question about data that confirms nothing:
\* is_read_only_data_query of the text, without confirm_action.
CreatedLoaded ==
    /\ stage = "begun" /\ stage' = "merged"
    /\ context' = Together(context, LatestCreated, IF screen.readOnly THEN <<>> ELSE waiting)
    /\ UNCHANGED <<history, screen, waiting, write>>

ListLoaded ==
    /\ stage = "merged" /\ stage' = "ready"
    /\ context' = WithPicked(context, Picked(screen.number))
    /\ UNCHANGED <<history, screen, waiting, write>>

-----------------------------------------------------------------------------
(* The agent's writes *)

OpenModule == First(context.record_module, context.module)
OpenRecord == First(context.record_id, context.record)

\* targets_open_form
TargetsForm(verb, module, id) ==
    /\ screen.form /\ module = OpenModule
    /\ \/ verb = "update" /\ id \in {Unknown, OpenRecord}
       \/ verb = "create" /\ OpenRecord = Unknown

AgentWrites ==
    /\ stage = "ready" /\ write = NoWrite
    /\ \E verb \in {"update", "create"}, module \in {"Contacts", "Meetings"}, id \in Ids \union {Unknown} :
          /\ id # Unknown => verb = "update" /\ module = ModuleOf(id)
          /\ write' = [verb |-> verb, id |-> id,
                       to |-> IF TargetsForm(verb, module, id) THEN "form" ELSE "crm"]
    /\ UNCHANGED <<history, screen, context, waiting, stage>>

ContextTurnEnds ==
    /\ stage = "ready" /\ stage' = "idle"
    /\ screen' = NoScreen /\ context' = Blank /\ waiting' = <<>> /\ write' = NoWrite
    /\ UNCHANGED history

ContextNext ==
    \/ MessageStored \/ HistoryReplaced
    \/ ContextBegins \/ CreatedLoaded \/ ListLoaded \/ AgentWrites \/ ContextTurnEnds

ContextSpec == ContextInit /\ [][ContextNext]_contextVars

-----------------------------------------------------------------------------
(* Properties *)

\* The agent is told of one record: the one the user picked from a list, in
\* every field, whatever else the chat holds; otherwise every field the front end
\* sent stands, and where it names no record, what the chat adds from several
\* messages is said of one.
OneRecordOnScreen ==
    stage = "ready" =>
        LET asked == screen.context
        IN  IF context.picked # Unknown
            THEN /\ {context.record, context.record_id, context.record_name} = {context.picked}
                 /\ {context.module, context.record_module} = {ModuleOf(context.picked)}
            ELSE /\ \A f \in ContextFields : asked[f] # Unknown => context[f] = asked[f]
                 /\ asked.record = Unknown /\ asked.record_id = Unknown =>
                        /\ context.record_id \in {Unknown, context.record}
                        /\ context.record_name \in {Unknown, context.record}
                        /\ context.record # Unknown =>
                               context.record_module = ModuleOf(context.record)

\* "With the form capability on, a crm_action_tool call aimed at the record open in
\* the form becomes a live form_patch the user applies in the FE - never a CRM
\* write" (app/tools/toolset.py, open_form_redirect).  What the chat adds to the
\* context hides the open record, though no number was given.
OpenRecordNeverWritten ==
    screen.form /\ screen.number = 0 /\ write.to = "crm" =>
        write.id = Unknown \/ write.id # First(screen.context.record_id, screen.context.record)
=============================================================================
