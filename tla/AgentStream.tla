----------------------------- MODULE AgentStream -----------------------------
(***************************************************************************)
(* One streamed turn (process_input_stream of app/api/endpoints.py): the     *)
(* pipeline task (process_input_core, app/engine/pipeline.py) with the agent *)
(* loop inside it (run_agent, app/engine/agent.py), the generator that       *)
(* drains the event queue into the response, and the client that reads it.   *)
(*                                                                          *)
(* The tasks share one event loop, so an action runs from one await to the   *)
(* next.  put on the queue, which has no bound, never waits: what is emitted *)
(* together with the statements after it is one step.  A cancelled task gets *)
(* the cancellation at the await it stands at.                               *)
(***************************************************************************)
EXTENDS Naturals, Sequences

CONSTANTS
    MaxIterations,  \* agent_max_iterations
    EmptyRetries,   \* an empty completion is retried in the first rounds only
    MaxDeltas,      \* bound: answer.delta events of one completion, flush aside
    Statuses,       \* kinds of tool results, by their status and what they bring
    Ending,         \* those that end the turn: confirmation_required, contact_proposals
    Confirming,     \* the former of these
    Failing,        \* those that speak for the turn: crm_http_error, crm_action_error,
                    \* resolution_required
    Showing,        \* those with cards, or of a tool whose result is an answer
    Patching,       \* those that come with a patch of the open form
    None

\* The texts a turn may have.  A model may write, and a result may be, machine output:
\* "json" has a message for the user in it, "noise" has none.
Texts == {"answer", "json", "noise", "observation", "proposal", "unwrapped", "failure",
          "patched", "apology", "agent_timeout", "agent_error"}

ASSUME StreamAssumption ==
    /\ MaxIterations \in Nat \ {0} /\ EmptyRetries \in Nat /\ MaxDeltas \in Nat
    /\ "ok" \in Statuses
    /\ Ending \subseteq Statuses \ {"ok"} /\ Confirming \subseteq Ending
    /\ Failing \subseteq Statuses \ (Ending \union {"ok"})
    /\ Showing \subseteq Statuses \ {"ok"} /\ Patching \subseteq Statuses
    /\ None \notin Statuses \union Texts

VARIABLES
    stage,      \* the await at which the pipeline task stands
    iteration,  \* round of the agent loop
    shown,      \* answer.delta events of the completion being received
    seq,        \* last sequence number of an agent event
    steps,      \* intermediate_steps: the statuses of the tool results
    answer,     \* the text of the turn, once there is one
    events,     \* all events put on the queue
    taken,      \* how many the generator has taken off it
    draft,      \* messages of the open transaction
    chat,       \* messages of this turn that are committed
    cancelled,  \* the generator has cancelled the pipeline task
    reader,     \* the generator
    here        \* the client is connected

agentVars == <<iteration, shown, seq, steps>>
readerVars == <<taken, cancelled, reader, here>>
vars == <<stage, agentVars, answer, events, draft, chat, readerVars>>

Agent == {"starting", "llm", "tool", "forced"}
Stages == Agent \union {"open", "prepare", "execute", "history", "compose",
                        "commit", "report", "over"}

Event(type, n, note) == [type |-> type, seq |-> n, note |-> note]
Delta == Event("answer.delta", 0, None)
Verdicts == {"result", "error"}

Init ==
    /\ stage = "open" /\ iteration = 0 /\ shown = 0 /\ seq = 0 /\ steps = <<>>
    /\ answer = None /\ events = <<>> /\ taken = 0
    /\ draft = {} /\ chat = {}
    /\ cancelled = FALSE /\ reader = "serving" /\ here = TRUE

-----------------------------------------------------------------------------
(* The agent loop *)

At(s) == stage = s /\ ~cancelled

\* The events of run_agent are numbered.
Emit(es) ==
    /\ events' = events \o [k \in DOMAIN es |-> [es[k] EXCEPT !.seq = seq + k]]
    /\ seq' = seq + Len(es)

\* What is left in the tail guard of AnswerStreamState when a completion ends.
Tails == {<<>>, <<Delta>>}

\* The next round, or the tool-free call after the last one (for ... else).
NextRound ==
    /\ shown' = 0
    /\ IF iteration + 1 < MaxIterations
       THEN stage' = "llm" /\ iteration' = iteration + 1
       ELSE stage' = "forced" /\ UNCHANGED iteration

\* normalize_agent_result_for_ui: the newest result that asks for a confirmation, or
\* that failed, speaks for the turn whatever the text is.  Otherwise machine output
\* gives way to the message in it, to that of a tool with cards, to an apology.
Worded(text, observed) ==
    LET speaking == {k \in DOMAIN observed : observed[k] \in Confirming \union Failing}
        newest == {k \in speaking : \A j \in speaking : j <= k}
    IN  IF speaking # {}
        THEN {IF observed[k] \in Confirming THEN "proposal" ELSE "failure" : k \in newest}
        ELSE CASE text = "json"  -> {"unwrapped"}
               [] text = "noise" -> IF \E k \in DOMAIN observed : observed[k] \in Showing
                                    THEN {"observation", "noise"} ELSE {"apology"}
               [] OTHER          -> {text}

\* The loop is left with the text given, or none: the last result stands in for it, by
\* its message or as it is.  There is no answer.done for an apology.
Finals(given, observed) ==
    IF given # None THEN {given}
    ELSE IF observed # <<>> THEN {"observation", "noise"} ELSE {None}

\* The text is announced, and what the turn ends with is made of it.
Finish(before, given, observed) ==
    \E final \in Finals(given, observed) :
        LET done == IF final = None THEN <<>> ELSE <<Event("answer.done", 0, final)>>
        IN  /\ Emit(before \o done)
            /\ answer' \in Worded(IF final = None THEN "apology" ELSE final, observed)
            /\ stage' = "compose"
            /\ steps' = observed
            /\ UNCHANGED <<iteration, shown, draft, chat, readerVars>>

\* What a model may write instead of a call: an answer, machine output or nothing.
Written == {"answer", "json", "noise", None}

\* The model, the skills and the prompt are loaded; the first round begins.
StartAgent ==
    /\ At("starting")
    /\ stage' = "llm"
    /\ UNCHANGED <<agentVars, answer, events, draft, chat, readerVars>>

\* A chunk that is not held back is shown, whatever the completion will be.
Chunk ==
    /\ At("llm") /\ shown < MaxDeltas
    /\ Emit(<<Delta>>)
    /\ shown' = shown + 1
    /\ UNCHANGED <<stage, iteration, steps, answer, draft, chat, readerVars>>

\* A completion with a call of a known tool.
CallTool ==
    /\ At("llm")
    /\ \E tail \in Tails : Emit(tail \o <<Event("agent.tool_call", 0, None)>>)
    /\ stage' = "tool"
    /\ UNCHANGED <<iteration, shown, steps, answer, draft, chat, readerVars>>

\* A call of an unknown tool is answered at once, with an error.
CallUnknown ==
    /\ At("llm")
    /\ \E tail \in Tails :
        Emit(tail \o <<Event("agent.tool_call", 0, None),
                       Event("agent.tool_result", 0, "ok")>>)
    /\ steps' = Append(steps, "ok")
    /\ NextRound
    /\ UNCHANGED <<answer, draft, chat, readerVars>>

\* A call that does not parse is reported to the model.
CallGarbled ==
    /\ At("llm")
    /\ \E tail \in Tails : Emit(tail)
    /\ NextRound
    /\ UNCHANGED <<steps, answer, draft, chat, readerVars>>

\* An empty completion is asked for again in the first rounds.
EmptyCompletion ==
    /\ At("llm") /\ shown = 0
    /\ \/ /\ iteration < EmptyRetries
          /\ NextRound
          /\ UNCHANGED <<seq, steps, answer, events, draft, chat, readerVars>>
       \/ /\ iteration >= EmptyRetries
          /\ Finish(<<>>, None, steps)

\* The call of the model fails, before or after some of it was shown.
ModelFails ==
    /\ At("llm")
    /\ Finish(<<>>, None, steps)

\* An answer, with or without its tag; it may be empty inside the tag.
AnswerGiven ==
    /\ At("llm")
    /\ \E tail \in Tails, given \in Written : Finish(tail, given, steps)

\* Bug: the loop goes on after a preview.
ToolReturnsGoesOn ==
    /\ At("tool")
    /\ \E s \in Statuses :
        /\ Emit(<<Event("agent.tool_result", 0, s)>>)
        /\ steps' = Append(steps, s)
        /\ NextRound
    /\ UNCHANGED <<answer, draft, chat, readerVars>>

\* A tool's result, or the error that stands for its exception ("ok" too).
ToolReturns ==
    /\ At("tool")
    /\ \E s \in Statuses :
        LET result == <<Event("agent.tool_result", 0, s)>>
        IN  \/ /\ s \in Ending
               /\ Finish(result, "proposal", Append(steps, s))
            \/ /\ s \notin Ending
               /\ Emit(result)
               /\ steps' = Append(steps, s)
               /\ NextRound
               /\ UNCHANGED <<answer, draft, chat, readerVars>>

\* The answer after the last round; a failed or tool-calling one is dropped.
ForcedAnswer ==
    /\ At("forced")
    /\ \E given \in Written : Finish(<<>>, given, steps)

\* The agent is given up: its steps and its text are lost.
GiveUp(text) ==
    /\ answer' = text
    /\ steps' = <<>>
    /\ stage' = "compose"
    /\ UNCHANGED <<iteration, shown, seq, events, draft, chat, readerVars>>

\* An exception leaves run_agent: no model is configured, or the JSON of a call
\* is not an object.
AgentFails ==
    /\ stage \in {"starting", "llm"} /\ ~cancelled
    /\ GiveUp("agent_error")

\* Bug: the deadline covers the rest of the turn as well.
DeadlineCoversReport ==
    /\ stage \in Agent \union {"compose"} /\ ~cancelled
    /\ GiveUp("agent_timeout")

\* Bug: the deadline covers the rounds of the loop only.
DeadlineMissesForced ==
    /\ stage \in Agent \ {"forced"} /\ ~cancelled
    /\ GiveUp("agent_timeout")

\* agent_turn_timeout_seconds are over.
Deadline ==
    /\ stage \in Agent /\ ~cancelled
    /\ GiveUp("agent_timeout")

-----------------------------------------------------------------------------
(* The pipeline around it *)

Tell(type, note) == Append(events, Event(type, 0, note))
End == Event("end", 0, None)

Accept ==
    /\ At("open")
    /\ events' = Tell("accepted", None)
    /\ stage' = "prepare"
    /\ UNCHANGED <<agentVars, answer, draft, chat, readerVars>>

\* The question is appended; then a confirmed call or an edit of the pending
\* action, which may need no call, or the agent.
Prepare ==
    /\ At("prepare")
    /\ draft' = {"user"}
    /\ \/ stage' = "execute" /\ UNCHANGED <<answer, events>>
       \/ stage' = "compose" /\ answer' = "patched" /\ UNCHANGED events
       \/ /\ stage' = "history" /\ events' = Tell("pipeline.mode", None)
          /\ UNCHANGED answer
    /\ UNCHANGED <<agentVars, chat, readerVars>>

\* The pending action is executed, or its edit previewed, without the agent.
Execute ==
    /\ At("execute")
    /\ answer' = "observation"
    /\ stage' = "compose"
    /\ UNCHANGED <<agentVars, events, draft, chat, readerVars>>

LoadHistory ==
    /\ At("history")
    /\ Emit(<<Event("agent.started", 0, None)>>)
    /\ stage' = "starting"
    /\ UNCHANGED <<iteration, shown, steps, answer, draft, chat, readerVars>>

\* The answer is appended and the chat gets a name.
Compose ==
    /\ At("compose")
    /\ draft' = draft \union {"assistant"}
    /\ stage' = "commit"
    /\ UNCHANGED <<agentVars, answer, events, chat, readerVars>>

\* A transaction that is broken off rolls back, unless its COMMIT was on the way.
Outcomes == IF stage = "commit" THEN {chat, draft} ELSE {chat}

\* Bug: the result is on the queue before the commit is through.
CommitTellsFirst ==
    /\ At("commit")
    /\ chat' \in Outcomes /\ draft' = {}
    /\ events' = Tell("result", answer) \o <<End>>
    /\ stage' = "over"
    /\ UNCHANGED <<agentVars, answer, readerVars>>

Commit ==
    /\ At("commit")
    /\ chat' = draft
    /\ stage' = "report"
    /\ UNCHANGED <<agentVars, answer, events, draft, readerVars>>

\* The result, after the patch of the form if a tool proposed one.
Report ==
    /\ At("report")
    /\ events' = (IF \E k \in DOMAIN steps : steps[k] \in Patching
                  THEN Tell("form_patch", None) ELSE events)
                 \o <<Event("result", 0, answer), End>>
    /\ stage' = "over"
    /\ UNCHANGED <<agentVars, answer, draft, chat, readerVars>>

\* Bug: the task dies without an event and without the end of the queue.
FailsSilently ==
    /\ stage \in {"open", "prepare", "execute", "history", "compose", "commit"}
    /\ ~cancelled
    /\ chat' \in Outcomes /\ draft' = {}
    /\ stage' = "over"
    /\ UNCHANGED <<agentVars, answer, events, readerVars>>

\* An exception leaves process_input_core: an error, and the session is closed.
Fails ==
    /\ stage \in {"open", "prepare", "execute", "history", "compose", "commit"}
    /\ ~cancelled
    /\ events' = Tell("error", None) \o <<End>>
    /\ chat' \in Outcomes /\ draft' = {}
    /\ stage' = "over"
    /\ UNCHANGED <<agentVars, answer, readerVars>>

\* A cancelled task ends where it stands.
Cancelled ==
    /\ cancelled /\ stage # "over"
    /\ events' = Append(events, End)
    /\ chat' \in Outcomes /\ draft' = {}
    /\ stage' = "over"
    /\ UNCHANGED <<agentVars, answer, readerVars>>

-----------------------------------------------------------------------------
(* The generator and the client *)

\* Bug: the generator ends and leaves the task running.
StopAlone ==
    /\ reader' = "closing"
    /\ UNCHANGED cancelled

\* The generator leaves its loop, and cancels the task if it is not done.
Stop ==
    /\ reader' = "closing"
    /\ cancelled' = (stage # "over")

\* The next event is taken and sent; a verdict is the last one.
Deliver ==
    /\ reader = "serving" /\ here /\ taken < Len(events)
    /\ taken' = taken + 1
    /\ IF events[taken + 1].type \in Verdicts \union {"end"}
       THEN Stop ELSE UNCHANGED <<cancelled, reader>>
    /\ UNCHANGED <<stage, agentVars, answer, events, draft, chat, here>>

Leave ==
    /\ here /\ reader # "closed"
    /\ here' = FALSE
    /\ UNCHANGED <<stage, agentVars, answer, events, draft, chat, taken, cancelled,
                   reader>>

\* The generator is cancelled, or closed at its yield.
Disconnect ==
    /\ reader = "serving" /\ ~here
    /\ Stop
    /\ UNCHANGED <<stage, agentVars, answer, events, draft, chat, taken, here>>

\* The task has been awaited.
Close ==
    /\ reader = "closing" /\ stage = "over"
    /\ reader' = "closed"
    /\ UNCHANGED <<stage, agentVars, answer, events, draft, chat, taken, cancelled,
                   here>>

Rounds ==
    StartAgent \/ Chunk \/ CallTool \/ CallUnknown \/ CallGarbled \/ EmptyCompletion
    \/ ModelFails \/ AnswerGiven \/ ToolReturns \/ ForcedAnswer \/ AgentFails

\* Steps of the pipeline that end in bounded time: the database, the CRM and the
\* title's model have timeouts of their own.
Pipeline ==
    Accept \/ Prepare \/ Execute \/ LoadHistory \/ Compose \/ Commit \/ Report
    \/ Fails \/ Cancelled

Next == Rounds \/ Deadline \/ Pipeline \/ Deliver \/ Leave \/ Disconnect \/ Close

Spec == Init /\ [][Next]_vars

\* The agent may hang anywhere in its rounds; the deadline does not.
FairSpec ==
    /\ Spec
    /\ WF_vars(Pipeline) /\ WF_vars(Deadline)
    /\ WF_vars(Deliver) /\ WF_vars(Disconnect) /\ WF_vars(Close)

-----------------------------------------------------------------------------
(* Properties *)

Notes == {None} \union Texts \union Statuses

Types == {"accepted", "pipeline.mode", "agent.started", "answer.delta",
          "agent.tool_call", "agent.tool_result", "answer.done", "form_patch",
          "result", "error", "end"}

\* The types, and a turn that is never half in the chat: the question and its
\* answer are committed by one transaction.
TypeOK ==
    /\ stage \in Stages
    /\ iteration \in 0..(MaxIterations - 1) /\ shown \in 0..MaxDeltas
    /\ seq \in Nat /\ steps \in Seq(Statuses) /\ answer \in Notes
    /\ events \in Seq([type : Types, seq : Nat, note : Notes])
    /\ taken \in 0..Len(events)
    /\ draft \in SUBSET {"user", "assistant"} /\ chat \in {{}, {"user", "assistant"}}
    /\ cancelled \in BOOLEAN /\ here \in BOOLEAN
    /\ reader \in {"serving", "closing", "closed"}

\* A client that reads a result finds the turn in the chat, with that answer:
\* process_input_core commits before it emits.  (An error promises nothing: the
\* COMMIT that failed may have been carried out.)
ReportedAsStored ==
    \A k \in DOMAIN events :
        events[k].type = "result" =>
            chat = {"user", "assistant"} /\ events[k].note = answer

\* docs/streaming-plan.md: the result is the last data frame.  Nothing but the end
\* of the stream follows a verdict, so the generator drops nothing by stopping.
VerdictIsLast ==
    \A k \in DOMAIN events :
        events[k].type \in Verdicts =>
            k + 1 = Len(events) /\ events[k + 1].type = "end"

\* The first preview of a turn is its last tool call, and what the client and the
\* chat get is that proposal: neither the model nor the deadline puts another text
\* over a write the CRM holds a token for.  (Over contacts that were prepared, the
\* message of a call that had failed before them may be put.)
ProposalEndsTurn ==
    \A k \in DOMAIN events :
        events[k].type = "agent.tool_result" /\ events[k].note \in Ending =>
            /\ \/ answer = "proposal"
               \/ /\ answer = "failure" /\ events[k].note \notin Confirming
                  /\ \E j \in 1..(k - 1) :
                        events[j].type = "agent.tool_result" /\ events[j].note \in Failing
            /\ \A j \in (k + 1)..Len(events) :
                events[j].type \notin {"agent.tool_call", "answer.delta"}

\* A text announced by answer.done is what the turn ends with, whatever comes after it,
\* unless it is machine output or a call of the turn has failed: then the failure is
\* told, though the model has answered since.  (The wording of a proposal changes too:
\* it is described anew.)
AnnouncedAnswerStands ==
    \A k \in DOMAIN events :
        events[k].type = "answer.done" =>
            \/ answer = events[k].note
            \/ events[k].note \in {"json", "noise"}
            \/ /\ answer = "failure"
               /\ \E j \in 1..(k - 1) :
                     events[j].type = "agent.tool_result" /\ events[j].note \in Failing

\* Once the generator has stopped the pipeline begins nothing more: no round of the
\* model, no tool call and no COMMIT.  The turn of a client that left is as if never
\* asked, unless its COMMIT was on the way.
NothingBegunAfterStop ==
    [][reader # "serving" => stage' \in {stage, "over"}
                             /\ (stage # "commit" => chat' = chat)]_vars

\* A client that stays connected gets a verdict, however the agent hangs.
StayingGetsVerdict == <>(~here \/ \E k \in 1..taken : events[k].type \in Verdicts)

\* The pipeline task ends and the response with it, whether the client stays or
\* leaves: no turn runs on behind a closed stream.
StreamEnds == <>(reader = "closed" /\ stage = "over")
=============================================================================
