------------------------------ MODULE CrmSession ------------------------------
(* The CRM session (SID) under which the client of a request makes its calls *)
(* (CoripoClient of app/services/crm_client.py).                             *)
(*                                                                           *)
(* Every request makes a client of its own and may send several calls at     *)
(* once: a briefing reads its blocks, a list its records, a search its       *)
(* modules together.  The clients of one user and tenant in a worker share   *)
(* an entry of _SID_CACHE.  The CRM may forget a session whenever it likes.  *)
(*                                                                           *)
(* The clients here can sign (a key, a secret and a user); one with a static *)
(* session alone never logs in.                                              *)
EXTENDS Naturals

CONSTANTS
    Clients,  \* requests under way in the worker
    Calls,    \* CRM calls of one request at once
    SidTtl,   \* coripo_sid_cache_ttl_seconds, in ticks; 0 turns the cache off
    MaxSids,  \* bound on the sessions the CRM gives out
    NoSid

ASSUME SessionAssumption ==
    /\ SidTtl \in Nat /\ MaxSids \in Nat
    /\ NoSid \notin Nat

VARIABLES
    valid,    \* sessions the CRM knows
    given,    \* sessions it has given out: 1..given
    sidCache, \* the entry of _SID_CACHE: the session and the ticks left
    client,   \* _coripo_session_id, _sid_from_cache and logins made
    call      \* each call of each client

sessionVars == <<valid, given, sidCache, client, call>>

NewClient == [sid |-> NoSid, fromCache |-> FALSE, logins |-> 0]
NewCall == [pc |-> "idle", sid |-> NoSid, cached |-> FALSE, retried |-> FALSE]
NoEntry == [sid |-> NoSid, left |-> 0]

SessionInit ==
    /\ valid = {} /\ given = 0
    /\ sidCache = NoEntry
    /\ client = [c \in Clients |-> NewClient]
    /\ call = [c \in Clients |-> [k \in Calls |-> NewCall]]

-----------------------------------------------------------------------------
(* _coripo_request_response *)

\* _send: the call carries the client's session of that moment.
Send(c, k, cl) ==
    call' = [call EXCEPT ![c][k].pc = "sent", ![c][k].sid = cl.sid,
                         ![c][k].cached = cl.fromCache]

BeginCall(c, k) ==
    /\ call[c][k].pc = "idle"
    /\ IF client[c].sid # NoSid
       THEN Send(c, k, client[c])
       ELSE call' = [call EXCEPT ![c][k].pc = "locking"]
    /\ UNCHANGED <<valid, given, sidCache, client>>

\* The CRM does the call, or refuses it for another reason than the session.
Answered(c, k) ==
    /\ call[c][k].pc = "sent" /\ call[c][k].sid \in valid
    /\ call' = [call EXCEPT ![c][k].pc = "done"]
    /\ UNCHANGED <<valid, given, sidCache, client>>

Fails(c, k) ==
    /\ call[c][k].pc = "sent"
    /\ call' = [call EXCEPT ![c][k].pc = "failed"]
    /\ UNCHANGED <<valid, given, sidCache, client>>

\* What the client remembers now decides, not what the call was sent with.
Retry(c, k) == ~call[c][k].retried /\ client[c].fromCache

\* 401 or 403, for the session or for the user's rights.  A session that came
\* from the cache is dropped there and the call sent once more with another.
Refused(c, k) ==
    /\ call[c][k].pc = "sent"
    /\ IF Retry(c, k)
       THEN /\ sidCache' = NoEntry
            /\ client' = [client EXCEPT ![c].sid = NoSid, ![c].fromCache = FALSE]
            /\ call' = [call EXCEPT ![c][k].pc = "locking", ![c][k].retried = TRUE]
       ELSE /\ call' = [call EXCEPT ![c][k].pc = "refused"]
            /\ UNCHANGED <<sidCache, client>>
    /\ UNCHANGED <<valid, given>>

-----------------------------------------------------------------------------
(* _ensure_coripo_sid *)

\* Bug: calls of one client log in side by side.
SidLockFreeAlways(c) == TRUE

\* _sid_lock is held while its holder logs in.
SidLockFree(c) == \A k \in Calls : call[c][k].pc # "login"

HasSid(c, k) ==
    /\ call[c][k].pc = "locking" /\ SidLockFree(c)
    /\ client[c].sid # NoSid
    /\ Send(c, k, client[c])
    /\ UNCHANGED <<valid, given, sidCache, client>>

CacheHit(c, k) ==
    /\ call[c][k].pc = "locking" /\ SidLockFree(c)
    /\ client[c].sid = NoSid /\ sidCache.left > 0
    /\ client' = [client EXCEPT ![c].sid = sidCache.sid, ![c].fromCache = TRUE]
    /\ Send(c, k, client'[c])
    /\ UNCHANGED <<valid, given, sidCache>>

StartLogin(c, k) ==
    /\ call[c][k].pc = "locking" /\ SidLockFree(c)
    /\ client[c].sid = NoSid /\ sidCache.left = 0
    /\ call' = [call EXCEPT ![c][k].pc = "login"]
    /\ UNCHANGED <<valid, given, sidCache, client>>

LoggedIn(cl, sid) == [sid |-> sid, fromCache |-> FALSE, logins |-> cl.logins + 1]

\* _login_for_sid succeeds; the lock is released and the call sent.
Login(c, k) ==
    /\ call[c][k].pc = "login" /\ given < MaxSids
    /\ given' = given + 1
    /\ valid' = valid \union {given'}
    /\ client' = [client EXCEPT ![c] = LoggedIn(@, given')]
    /\ sidCache' = IF SidTtl > 0 THEN [sid |-> given', left |-> SidTtl] ELSE sidCache
    /\ Send(c, k, client'[c])

\* hmac-login twice and checksid three times brought no session, or one of them
\* had no answer in time.
LoginFails(c, k) ==
    /\ call[c][k].pc = "login"
    /\ call' = [call EXCEPT ![c][k].pc = "failed"]
    /\ UNCHANGED <<valid, given, sidCache, client>>

-----------------------------------------------------------------------------

SessionExpires ==
    /\ \E s \in valid : valid' = valid \ {s}
    /\ UNCHANGED <<given, sidCache, client, call>>

EntryAges ==
    /\ sidCache.left > 0
    /\ sidCache' = [sidCache EXCEPT !.left = @ - 1]
    /\ UNCHANGED <<valid, given, client, call>>

CallEnded(c, k) == call[c][k].pc \in {"done", "refused", "failed"}

\* The request is over and the next one of the user makes a client of its own.
NextRequest(c) ==
    /\ \A k \in Calls : CallEnded(c, k)
    /\ client' = [client EXCEPT ![c] = NewClient]
    /\ call' = [call EXCEPT ![c] = [k \in Calls |-> NewCall]]
    /\ UNCHANGED <<valid, given, sidCache>>

SessionNext ==
    \/ SessionExpires
    \/ EntryAges
    \/ \E c \in Clients :
          \/ NextRequest(c)
          \/ \E k \in Calls :
                \/ BeginCall(c, k) \/ Answered(c, k) \/ Fails(c, k) \/ Refused(c, k)
                \/ HasSid(c, k) \/ CacheHit(c, k) \/ StartLogin(c, k)
                \/ Login(c, k) \/ LoginFails(c, k)

SessionSpec == SessionInit /\ [][SessionNext]_sessionVars

-----------------------------------------------------------------------------
(* Properties *)

\* However many calls a request sends at once, and whatever sessions the CRM
\* forgets meanwhile, its client obtains at most one session by logging in: a
\* refused call drops a cached session, never one just negotiated.
OneLoginPerClient == \A c \in Clients : client[c].logins <= 1

=============================================================================
