------------------------------ MODULE ChatTurns ------------------------------
(***************************************************************************)
(* The requests that write to one chat: turns (process_input_core of        *)
(* app/engine/pipeline.py), the CRM's record-created callbacks and PUT      *)
(* /chats/{chat_id} (app/api/endpoints.py), over the message table          *)
(* (app/services/chat_service.py, database/models.py).                      *)
(*                                                                          *)
(* A request is one database transaction.  All its messages carry the time  *)
(* at which the transaction began (created_at = now()), and become visible  *)
(* when it commits.  append_message also touches the chat's own row, so the *)
(* flush of a message (before the next query, or at the commit) locks that  *)
(* row until the transaction ends.  A proposal is named by the turn whose   *)
(* preview call made it, and so are its token and its arguments.            *)
(***************************************************************************)
EXTENDS Naturals, Sequences, FiniteSets

CONSTANTS
    Turns,       \* turns of the user
    Callbacks,   \* deliveries of record-created notifications
    Puts,        \* replacements of the history
    EventOf,     \* the record each callback announces
    Body,        \* roles of the messages a replacement brings, in order
    Elsewhere,   \* proposals of other chats a replacement may bring
    Echoes,      \* whether a request may name the pending action it is about
    MaxOpen,     \* requests under way at once
    None

Requests == Turns \union Callbacks \union Puts

ASSUME ChatAssumption ==
    /\ Turns \intersect Callbacks = {} /\ (Turns \union Callbacks) \intersect Puts = {}
    /\ None \notin Requests \union Elsewhere /\ Elsewhere \intersect Requests = {}
    /\ MaxOpen \in Nat \ {0}
    /\ Echoes \subseteq BOOLEAN
    /\ Body \in Seq(STRING)

VARIABLES
    clock,      \* transactions begun so far
    rows,       \* committed messages
    lock,       \* the request holding the lock of the chat's row, or None
    loaded,     \* what a request under that lock finds: load_messages after the flush
    pc,         \* where each request stands
    began,      \* when its transaction began
    intent,     \* what the user wants with a turn
    named,      \* the proposal the request itself names: the one on the screen
    offer,      \* pending_for_patch, the proposal a turn works with
    answer,     \* the assistant message of a request, before its commit
    previews,   \* tokens the CRM issued, with the arguments they cover
    execs,      \* calls the CRM carried out
    gone        \* messages a PUT has deleted in its transaction

turnVars == <<intent, named, offer, answer>>
crmVars == <<previews, execs>>
vars == <<clock, rows, lock, loaded, pc, began, turnVars, crmVars, gone>>

Ended == {"committed", "aborted", "deduplicated"}
UnderWay(r) == pc[r] \notin Ended \union {"idle"}

Answer(act, note) == [act |-> act, note |-> note]
NoAnswer == Answer(None, None)

Init ==
    /\ clock = 0 /\ rows = {} /\ lock = None
    /\ loaded = [r \in Requests |-> {}]
    /\ pc = [r \in Requests |-> "idle"]
    /\ began = [r \in Requests |-> 0]
    /\ intent = [t \in Turns |-> "ask"]
    /\ named = [t \in Turns |-> None]
    /\ offer = [t \in Turns |-> None]
    /\ answer = [r \in Requests |-> NoAnswer]
    /\ previews = {} /\ execs = {}
    /\ gone = [p \in Puts |-> {}]

-----------------------------------------------------------------------------
(* The message table *)

RoleOrder(role) == IF role = "user" THEN 0 ELSE 1

\* ORDER BY created_at, role_order, id: an id is random, its order a "tie".
Before(m, n) ==
    \/ m.ts < n.ts
    \/ m.ts = n.ts /\ RoleOrder(m.role) < RoleOrder(n.role)
    \/ m.ts = n.ts /\ m.role = n.role /\ m.tie < n.tie

Newest(S) == CHOOSE m \in S : \A n \in S \ {m} : Before(n, m)

Assistant(S) == {m \in S : m.role = "assistant"}

\* Bug: answers without a proposal are skipped.
PendingOfAnyAge(S) ==
    LET proposals == {m \in Assistant(S) : m.act # None}
    IN  IF proposals = {} THEN None ELSE Newest(proposals).act

\* load_latest_pending_action: the newest answer has a proposal, or there is none.
LatestPending(S) == IF Assistant(S) = {} THEN None ELSE Newest(Assistant(S)).act

\* load_latest_crm_record_created_event
LatestEvent(S) ==
    LET events == {m \in Assistant(S) : m.note \in {EventOf[c] : c \in Callbacks}}
    IN  IF events = {} THEN None ELSE Newest(events).note

Row(r, role, tie, n, reply) ==
    [ts |-> began[r], role |-> role, tie |-> tie, n |-> n, by |-> r,
     act |-> reply.act, note |-> reply.note]

\* Bug: the answer carries the time of its own insert.
ExchangeStampedLate(t) ==
    {Row(t, "user", 0, 1, Answer(None, None)),
     [Row(t, "assistant", 0, 2, answer[t]) EXCEPT !.ts = clock]}

\* The question and the answer of a turn.
Exchange(t) ==
    {Row(t, "user", 0, 1, Answer(None, None)), Row(t, "assistant", 0, 2, answer[t])}

Event(c) == {Row(c, "assistant", 0, 1, answer[c])}

\* The messages of a replacement share their time; their ids are in any order.
\* They have the metadata the client gives them, a pending action or a notification
\* too: only the newest answer's is ever read, so that all answers have the same.
Replacements(p) ==
    LET places == 1..Len(Body)
        reply(i) == IF Body[i] = "assistant" THEN answer[p] ELSE NoAnswer
    IN  {{Row(p, Body[i], tie[i], i, reply(i)) : i \in places} :
            tie \in {f \in [places -> places] :
                        \A i, j \in places : f[i] = f[j] => i = j}}

-----------------------------------------------------------------------------
(* A transaction: it begins, takes the chat's row with its first flush, and  *)
(* commits or rolls back.                                                    *)

Arrives(r) ==
    /\ pc[r] = "idle"
    /\ Cardinality({q \in Requests : UnderWay(q)}) < MaxOpen

Begins(r, next) ==
    /\ clock' = clock + 1
    /\ began' = [began EXCEPT ![r] = clock + 1]
    /\ pc' = [pc EXCEPT ![r] = next]

\* Bug: append_message leaves the chat's row alone.
FlushUnlocked(r) ==
    /\ pc[r] \in {"asking", "answered"}
    /\ lock' = r
    /\ loaded' = [loaded EXCEPT ![r] = rows]
    /\ pc' = [pc EXCEPT ![r] = IF pc[r] = "asking" THEN "agent" ELSE "flushed"]
    /\ UNCHANGED <<clock, rows, began, turnVars, crmVars, gone>>

\* UPDATE chats and INSERT the message: the question before the agent starts,
\* or all of a request's messages once its answer is known.
Flush(r) ==
    /\ pc[r] \in {"asking", "answered"}
    /\ lock = None
    /\ lock' = r
    /\ loaded' = [loaded EXCEPT ![r] = rows]
    /\ pc' = [pc EXCEPT ![r] = IF pc[r] = "asking" THEN "agent" ELSE "flushed"]
    /\ UNCHANGED <<clock, rows, began, turnVars, crmVars, gone>>

Commit(r) ==
    /\ pc[r] = "flushed"
    /\ \/ r \in Turns /\ rows' = rows \union Exchange(r)
       \/ r \in Callbacks /\ rows' = rows \union Event(r)
       \/ /\ r \in Puts
          /\ \E new \in Replacements(r) : rows' = (rows \ gone[r]) \union new
    /\ lock' = None
    /\ loaded' = [loaded EXCEPT ![r] = {}]
    /\ pc' = [pc EXCEPT ![r] = "committed"]
    /\ UNCHANGED <<clock, began, turnVars, crmVars, gone>>

\* Bug: the session of a failed request stays open.
AbortLeavesLock(r) ==
    /\ UnderWay(r)
    /\ pc' = [pc EXCEPT ![r] = "aborted"]
    /\ answer' = [answer EXCEPT ![r] = NoAnswer]
    /\ UNCHANGED <<clock, rows, lock, loaded, began, intent, named, offer, crmVars, gone>>

\* The client leaves, the worker dies or the database fails: rolled back, and the
\* answer it had is gone.
Abort(r) ==
    /\ UnderWay(r)
    /\ lock' = IF lock = r THEN None ELSE lock
    /\ loaded' = [loaded EXCEPT ![r] = {}]
    /\ pc' = [pc EXCEPT ![r] = "aborted"]
    /\ answer' = [answer EXCEPT ![r] = NoAnswer]
    /\ UNCHANGED <<clock, rows, began, intent, named, offer, crmVars, gone>>

-----------------------------------------------------------------------------
(* A turn.  The request may itself name a pending action (context of         *)
(* process-input); a client that does names the one on its screen.           *)

Send(t) ==
    /\ Arrives(t)
    /\ pc' = [pc EXCEPT ![t] = "sent"]
    /\ \E wish \in {"confirm", "edit", "ask"} : intent' = [intent EXCEPT ![t] = wish]
    /\ \E echo \in Echoes :
          named' = [named EXCEPT ![t] = IF echo THEN LatestPending(rows) ELSE None]
    /\ UNCHANGED <<clock, rows, lock, loaded, began, offer, answer, crmVars,
                   gone>>

BeginTurn(t) ==
    /\ pc[t] = "sent"
    /\ Begins(t, "open")
    /\ UNCHANGED <<rows, lock, loaded, turnVars, crmVars, gone>>

Way(t, act) == CASE act # None /\ intent[t] = "confirm" -> "confirming"
                 [] act # None /\ intent[t] = "edit"    -> "editing"
                 [] OTHER                               -> "asking"

\* Bug: the pending action named by the request is overlooked.
ReadPendingOverlooks(t) ==
    /\ pc[t] = "open"
    /\ offer' = [offer EXCEPT ![t] = LatestPending(rows)]
    /\ pc' = [pc EXCEPT ![t] = Way(t, LatestPending(rows))]
    /\ UNCHANGED <<clock, rows, lock, loaded, began, intent, named, answer,
                   crmVars, gone>>

\* The pending action is read before the flush, and decides the way to go.
ReadPending(t) ==
    LET act == IF named[t] # None THEN named[t] ELSE LatestPending(rows)
    IN  /\ pc[t] = "open"
        /\ offer' = [offer EXCEPT ![t] = act]
        /\ pc' = [pc EXCEPT ![t] = Way(t, act)]
        /\ UNCHANGED <<clock, rows, lock, loaded, began, intent, named, answer,
                       crmVars, gone>>

Replies(t, from, to, reply) ==
    /\ pc[t] = from
    /\ pc' = [pc EXCEPT ![t] = to]
    /\ answer' = [answer EXCEPT ![t] = reply]
    /\ UNCHANGED <<clock, rows, lock, loaded, began, intent, named, offer,
                   gone>>

\* execute_pending: the CRM may carry the call out (the answer may be lost even
\* so) or not; the answer never has a pending action.
ExecutePending(t) ==
    /\ Replies(t, "confirming", "answered", Answer(None, None))
    /\ \/ execs' = execs \union {[by |-> t, token |-> offer[t].token,
                                   args |-> offer[t].args]}
       \/ execs' = execs
    /\ UNCHANGED previews

\* Bug: the edited arguments keep the token of the old ones.
EditKeepsToken(t) ==
    /\ Replies(t, "editing", "answered", Answer([offer[t] EXCEPT !.args = t], None))
    /\ UNCHANGED crmVars

\* try_patch_pending_action, then repreview_pending: a new token for the edited
\* arguments, or an error without a pending action.
EditPending(t) ==
    \/ /\ Replies(t, "editing", "answered",
                  Answer([offer[t] EXCEPT !.token = t, !.args = t], None))
       /\ previews' = previews \union {[token |-> t, args |-> t]}
       /\ UNCHANGED execs
    \/ /\ Replies(t, "editing", "answered", Answer(None, None))
       /\ UNCHANGED crmVars

\* The agent previews a write, or answers without one (its deadline included),
\* or fails, with or without a preview made.
RunAgent(t) ==
    \/ /\ Replies(t, "agent", "flushed", Answer([token |-> t, args |-> t], None))
       /\ previews' = previews \union {[token |-> t, args |-> t]}
       /\ UNCHANGED execs
    \/ /\ \E note \in {None, "agent_error"} :
             Replies(t, "agent", "flushed", Answer(None, note))
       /\ UNCHANGED crmVars

-----------------------------------------------------------------------------
(* POST /crm/events/record-created and PUT /chats/{chat_id}                  *)

BeginCallback(c) ==
    /\ Arrives(c)
    /\ Begins(c, "open")
    /\ UNCHANGED <<rows, lock, loaded, turnVars, crmVars, gone>>

\* A notification that repeats the latest event adds nothing; any other one is
\* stored without a pending action, which withdraws the one there is.
ReadEvent(c) ==
    /\ pc[c] = "open"
    /\ \/ /\ LatestEvent(rows) = EventOf[c]
          /\ pc' = [pc EXCEPT ![c] = "deduplicated"]
          /\ UNCHANGED answer
       \/ /\ LatestEvent(rows) # EventOf[c]
          /\ pc' = [pc EXCEPT ![c] = "answered"]
          /\ answer' = [answer EXCEPT ![c] = Answer(None, EventOf[c])]
    /\ UNCHANGED <<clock, rows, lock, loaded, began, intent, named, offer,
                   crmVars, gone>>

\* Pending actions a client may have: of this chat, in force or not, and of others.
Brought ==
    {answer[t].act : t \in {u \in Turns : pc[u] = "committed"}}
        \union {[token |-> e, args |-> e] : e \in Elsewhere} \union {None}

BeginPut(p) ==
    /\ Arrives(p)
    /\ Begins(p, "open")
    /\ \E act \in Brought, note \in {EventOf[c] : c \in Callbacks} \union {None} :
          answer' = [answer EXCEPT ![p] = Answer(act, note)]
    /\ UNCHANGED <<rows, lock, loaded, intent, named, offer, crmVars, gone>>

\* The DELETE sees what is committed, and waits for another replacement's.
DeleteMessages(p) ==
    /\ pc[p] = "open"
    /\ \A q \in Puts \ {p} : pc[q] \notin {"answered", "flushed"}
    /\ gone' = [gone EXCEPT ![p] = rows]
    /\ pc' = [pc EXCEPT ![p] = "answered"]
    /\ UNCHANGED <<clock, rows, lock, loaded, began, turnVars, crmVars>>

-----------------------------------------------------------------------------

Advances(r) ==
    \/ Commit(r)
    \/ /\ r \in Turns
       /\ BeginTurn(r) \/ ReadPending(r) \/ ExecutePending(r) \/ EditPending(r)
             \/ RunAgent(r)
    \/ r \in Callbacks /\ ReadEvent(r)
    \/ r \in Puts /\ DeleteMessages(r)

Next ==
    \/ \E t \in Turns :
          Send(t) \/ BeginTurn(t) \/ ReadPending(t) \/ ExecutePending(t)
             \/ EditPending(t) \/ RunAgent(t)
    \/ \E c \in Callbacks : BeginCallback(c) \/ ReadEvent(c)
    \/ \E p \in Puts : BeginPut(p) \/ DeleteMessages(p)
    \/ \E r \in Requests : Flush(r) \/ Commit(r) \/ Abort(r)

Spec == Init /\ [][Next]_vars

\* The agent has a deadline, calls of the CRM and of the LLM have timeouts, and
\* PostgreSQL grants a row's lock to those that wait for it in turn.
Fairness == \A r \in Requests : WF_vars(Advances(r)) /\ SF_vars(Flush(r))

FairSpec == Spec /\ Fairness

-----------------------------------------------------------------------------
(* What the user sees of a write: the proposal on the screen, which proposals *)
(* there were, and which of them were carried out.                           *)

Shown == IF Assistant(rows) = {} THEN None
         ELSE LET act == Newest(Assistant(rows)).act
              IN  IF act = None THEN None ELSE act.token

Proposed == {t \in Turns : pc[t] = "committed" /\ answer[t].act # None}

CarriedOut == {x.token : x \in execs}

Restored == {p \in Puts : pc[p] = "committed"}

\* An action that stood in the chat: a committed answer proposes it, with the very
\* arguments the CRM previewed, or a committed replacement brought it along.
Stood(act) ==
    \/ act \in previews /\ pc[act.token] = "committed"
    \/ \E p \in Restored : answer[p].act = act

-----------------------------------------------------------------------------
(* Properties *)

Act == [token : Turns \union Elsewhere, args : Turns \union Elsewhere]

TypeOK ==
    /\ clock \in 0..Cardinality(Requests)
    /\ \A m \in rows : m.ts \in 1..clock /\ m.by \in Requests /\ m.act \in Act \union {None}
    /\ lock \in Requests \union {None}
    /\ pc \in [Requests -> Ended \union
                 {"idle", "sent", "open", "confirming", "editing", "asking", "agent",
                  "answered", "flushed"}]
    /\ began \in [Requests -> 0..clock]
    /\ intent \in [Turns -> {"confirm", "edit", "ask"}]
    /\ named \in [Turns -> Act \union {None}]
    /\ offer \in [Turns -> Act \union {None}]
    /\ \A r \in Requests : answer[r].act \in Act \union {None}
    /\ previews \subseteq [token : Turns, args : Turns]
    /\ execs \subseteq [by : Turns, token : Turns \union Elsewhere,
                        args : Turns \union Elsewhere]
    /\ \A p \in Puts : \A m \in gone[p] : m.by \in Requests

\* In the order load_messages gives, a question is followed at once by its own
\* answer, however turns, callbacks and replacements of the history overlap.
QuestionThenAnswer ==
    \A q \in rows : (q.role = "user" /\ q.by \in Turns) =>
        \E a \in rows :
            /\ a.role = "assistant" /\ a.by = q.by
            /\ Before(q, a)
            /\ ~\E m \in rows : Before(q, m) /\ Before(m, a)

\* What the agent is told of the chat stays true until its answer is committed:
\* no other request adds to or replaces the messages while it works.
LoadedIsCurrent ==
    \A r \in Requests : pc[r] \in {"agent", "flushed"} => loaded[r] = rows

\* The CRM is only asked to carry out what the user confirmed and what stood in
\* the chat: not what a turn that was rolled back had previewed, and no edit
\* without a preview of its own.  A history the client stored over the chat's may
\* bring an action of its own, and that one alone needs no preview of a turn here.
ExecutedAsOffered ==
    \A x \in execs :
        /\ intent[x.by] = "confirm"
        /\ Stood([token |-> x.token, args |-> x.args])

\* A confirmation that names its pending action has that one carried out, also
\* when other turns replace or withdraw the proposal in the meantime.
ConfirmsWhatWasNamed ==
    \A x \in execs : named[x.by] # None => x.token = named[x.by].token

\* Every request ends, though it waits for the agent of another one.
EveryRequestEnds == \A r \in Requests : UnderWay(r) ~> ~UnderWay(r)

\* docs/coripo-ai-gateway-review.md: "chat-scoped pending action confirm is
\* naturally idempotent".
ConfirmIdempotent ==
    \A x, y \in execs : x.token = y.token => x.by = y.by
=============================================================================
