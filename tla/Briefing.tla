------------------------------- MODULE Briefing -------------------------------
(***************************************************************************)
(* The daily briefing of one user (app/services/briefing_service.py), as   *)
(* the dashboard, the chat tool and several workers ask for it at once.    *)
(*                                                                         *)
(* A request takes a database connection and keeps it, with its            *)
(* transaction, to the end.  It computes the key of what it would collect, *)
(* waits for the PostgreSQL advisory lock of that key, looks for a         *)
(* briefing under the key among the newest messages the assistant wrote    *)
(* the user in the last hour, and otherwise collects one.  While it holds  *)
(* the lock it asks for a second connection to learn which language model  *)
(* phrases the summary.  A briefing is a message of a chat: it goes when   *)
(* the user deletes or replaces the chat, and a replaced history can bring *)
(* one back.                                                               *)
(***************************************************************************)
EXTENDS Naturals, FiniteSets

CONSTANTS
    Askers,       \* requests under way at once, in all workers
    Views,        \* the CRM's answers a key is made of: readable modules,
                  \* status sets, the day
    Blocks,       \* the blocks of a briefing
    Hour,         \* how long a briefing may be served again, in ticks
    MaxTime,      \* bound on the clock
    Connections,  \* connections a worker's pool hands out
    LookedAt,     \* how many of the hour's messages are looked at (100)
    MaxKept,      \* bound on the messages kept and about to be stored
    NoBriefing    \* the key of a message that is no whole briefing

ASSUME BriefingAssumption ==
    /\ Hour \in Nat \ {0} /\ MaxTime \in Nat /\ Connections \in Nat \ {0}
    /\ LookedAt \in Nat \ {0} /\ MaxKept \in Nat /\ NoBriefing \notin Views

VARIABLES
    view,      \* what the CRM and the overlays answer now
    clock,
    messages,  \* what the assistant wrote the user, in all chats
    asker,     \* each request
    free       \* connections left in the pool

briefingVars == <<view, clock, messages, asker, free>>

NotAsking == [pc |-> "idle", key |-> NoBriefing, refresh |-> FALSE, now |-> 0,
              partial |-> FALSE, full |-> FALSE]

\* An assistant's message, by its briefing_cache_key and created_at; "restored"
\* is of a briefing that a replaced history brought and no request stored, and
\* "nth" tells equal messages apart.
NewMessage(key, at, restored) ==
    LET equal == {m \in messages : m.key = key /\ m.at = at /\ m.restored = restored}
    IN  [key |-> key, at |-> at, restored |-> restored, nth |-> 1 + Cardinality(equal)]

BriefingInit ==
    /\ view \in Views
    /\ clock = 0
    /\ messages = {}
    /\ asker = [r \in Askers |-> NotAsking]
    /\ free = Connections

Holding == {"checking", "collecting", "phrasing", "storing"}

Goto(r, pc) == asker' = [asker EXCEPT ![r].pc = pc]

\* Commit or rollback: the advisory lock and the connection go back together.
Leave(r) ==
    /\ asker' = [asker EXCEPT ![r] = NotAsking]
    /\ free' = free + 1

-----------------------------------------------------------------------------
(* get_briefing *)

Room == Cardinality(messages) + Cardinality({r \in Askers : asker[r].pc # "idle"}) < MaxKept

\* The clock is read and the key computed before the lock is waited for.
Ask(r) ==
    /\ asker[r].pc = "idle" /\ free > 0 /\ Room
    /\ free' = free - 1
    /\ \E refresh \in BOOLEAN :
          asker' = [asker EXCEPT ![r] = [pc |-> "locking", key |-> view,
                                         refresh |-> refresh, now |-> clock,
                                         partial |-> FALSE, full |-> FALSE]]
    /\ UNCHANGED <<view, clock, messages>>

\* Bug: the advisory lock is taken without waiting for its holder.
LockFreeAlways(k) == TRUE

LockFree(k) == \A o \in Askers : asker[o].pc \in Holding => asker[o].key # k

TakeLock(r) ==
    /\ asker[r].pc = "locking"
    /\ LockFree(asker[r].key)
    /\ Goto(r, "checking")
    /\ UNCHANGED <<view, clock, messages, free>>

InHour(q) == {m \in messages : q.now <= m.at + Hour}

\* The whole briefings of the hour under the request's key.
Matching(q) == {m \in InHour(q) : m.key = q.key}

\* The query returns the newest LookedAt messages of the hour, those of one time in any
\* order: one of these briefings may be among them ...
Recent(q) ==
    \E m \in Matching(q) : Cardinality({o \in InHour(q) : o.at > m.at}) < LookedAt

\* ... or none, when enough others are as new.
NoneRecent(q) ==
    \A m \in Matching(q) :
        Cardinality({o \in InHour(q) \ Matching(q) : o.at >= m.at}) >= LookedAt

ServeStored(r) ==
    /\ asker[r].pc = "checking"
    /\ ~asker[r].refresh /\ Recent(asker[r])
    /\ Leave(r)
    /\ UNCHANGED <<view, clock, messages>>

\* "full" keeps whether the hour held as many messages as are looked at.
StartCollecting(r) ==
    /\ asker[r].pc = "checking"
    /\ asker[r].refresh \/ NoneRecent(asker[r])
    /\ asker' = [asker EXCEPT ![r].pc = "collecting",
                              ![r].full = Cardinality(InHour(asker[r])) >= LookedAt]
    /\ UNCHANGED <<view, clock, messages, free>>

\* Every block is read, unavailable to the user, or failed; a failed block
\* makes the briefing partial and leaves the others as they are.
Collected(r) ==
    /\ asker[r].pc = "collecting"
    /\ \E block \in [Blocks -> {"ok", "unavailable", "error"}] :
          asker' = [asker EXCEPT ![r].pc = "phrasing",
                                 ![r].partial = \E b \in Blocks : block[b] = "error"]
    /\ UNCHANGED <<view, clock, messages, free>>

\* focus_summary and summarize_briefing: with a second connection, held for one
\* query, or without any while the tenant's language model is cached.
Phrase(r) ==
    /\ asker[r].pc = "phrasing" /\ free > 0
    /\ Goto(r, "storing")
    /\ UNCHANGED <<view, clock, messages, free>>

\* Bug: the summary is given up only when a connection came.
PhraseFallbackLate(r) ==
    /\ asker[r].pc = "phrasing" /\ free > 0
    /\ Goto(r, "storing")
    /\ UNCHANGED <<view, clock, messages, free>>

\* No connection came free in the pool's time, or the model failed: the fixed
\* sentences are used.
PhraseFallback(r) ==
    /\ asker[r].pc = "phrasing"
    /\ Goto(r, "storing")
    /\ UNCHANGED <<view, clock, messages, free>>

Cacheable(q) == ~q.partial

\* The chat message is created at the time its transaction began.
Store(r) ==
    /\ asker[r].pc = "storing"
    /\ LET key == IF Cacheable(asker[r]) THEN asker[r].key ELSE NoBriefing
       IN  messages' = messages \union {NewMessage(key, asker[r].now, FALSE)}
    /\ Leave(r)
    /\ UNCHANGED <<view, clock>>

\* The CRM does not list its modules, the client is gone, the worker stops.
AskFails(r) ==
    /\ asker[r].pc # "idle"
    /\ Leave(r)
    /\ UNCHANGED <<view, clock, messages>>

-----------------------------------------------------------------------------

\* The assistant answers the user in some chat.
AssistantWrites ==
    /\ Room
    /\ messages' = messages \union {NewMessage(NoBriefing, clock, FALSE)}
    /\ UNCHANGED <<view, clock, asker, free>>

\* DELETE and PUT of a chat take its messages away (of equal ones the last).
NoneAfter(m) == \A o \in messages : [o EXCEPT !.nth = m.nth] = m => o.nth <= m.nth

Deleted ==
    /\ \E m \in messages : NoneAfter(m) /\ messages' = messages \ {m}
    /\ UNCHANGED <<view, clock, asker, free>>

\* PUT stores the client's messages with their metadata, a briefing and its key
\* included, as created now.
Replaced ==
    /\ \E m \in messages, key \in Views \union {NoBriefing} :
          /\ NoneAfter(m) /\ <<m.key, m.at, m.restored>> # <<key, clock, key # NoBriefing>>
          /\ messages' = (messages \ {m}) \union {NewMessage(key, clock, key # NoBriefing)}
    /\ UNCHANGED <<view, clock, asker, free>>

\* Rights, status sets or the day change.
ViewChanges ==
    /\ view' \in Views \ {view}
    /\ UNCHANGED <<clock, messages, asker, free>>

HourPasses ==
    /\ clock < MaxTime
    /\ clock' = clock + 1
    /\ UNCHANGED <<view, messages, asker, free>>

BriefingNext ==
    \/ ViewChanges
    \/ HourPasses
    \/ AssistantWrites
    \/ Deleted
    \/ Replaced
    \/ \E r \in Askers : \/ Ask(r) \/ TakeLock(r) \/ ServeStored(r)
                         \/ StartCollecting(r) \/ Collected(r) \/ Phrase(r)
                         \/ PhraseFallback(r) \/ Store(r) \/ AskFails(r)

\* The CRM calls, the model calls and the wait for a connection have time
\* limits; PostgreSQL grants an advisory lock in the order it was asked for.
BriefingFairness ==
    \A r \in Askers :
        /\ SF_briefingVars(TakeLock(r))
        /\ WF_briefingVars(ServeStored(r) \/ StartCollecting(r))
        /\ WF_briefingVars(Collected(r))
        /\ WF_briefingVars(PhraseFallback(r))
        /\ WF_briefingVars(Store(r))

BriefingSpec == BriefingInit /\ [][BriefingNext]_briefingVars /\ BriefingFairness

-----------------------------------------------------------------------------
(* Properties *)

\* Two requests, of any workers, never collect the same briefing at once: a
\* second one waits and finds what the first one stored.  So when a briefing is
\* stored unasked, none under its key is kept that a request stored in the hour
\* before it, unless that hour already held as many messages as a request looks
\* at; and a briefing some block of which failed is found by nobody.
OneBriefingAnHour ==
    [][\A r \in Askers : asker[r].pc = "storing" /\ asker'[r].pc = "idle" =>
          \A n \in messages' \ messages : n.key # NoBriefing =>
              /\ ~asker[r].partial
              /\ \/ asker[r].refresh \/ asker[r].full
                 \/ \A m \in Matching(asker[r]) : m.restored]_briefingVars

\* Every request gets its briefing or an error, although requests that wait for
\* the lock may hold every connection its holder needs one more of.
EveryBriefingEnds ==
    \A r \in Askers : asker[r].pc # "idle" ~> asker[r].pc = "idle"
=============================================================================
