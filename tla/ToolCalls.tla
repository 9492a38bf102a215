------------------------------ MODULE ToolCalls ------------------------------
(***************************************************************************)
(* The calls one worker makes to the tools of one tenant's CRM: the        *)
(* per-tenant guard of app/tools/resilience.py (circuit breaker and        *)
(* semaphore) and CrmToolProvider.call of app/tools/crm_provider.py.       *)
(*                                                                         *)
(* Every call is a task of the event loop: code between two awaits is one  *)
(* step, other tasks run at the awaits (the semaphore, the transport, the  *)
(* sleep before a retry), and a task may be cancelled at any of them.      *)
(* Guards are per tenant and share nothing, so one tenant is enough.       *)
(***************************************************************************)
EXTENDS Naturals, Sequences, FiniteSets, SequencesExt

CONSTANTS
    Calls,             \* calls that may be made, each one once
    ReadOnly,          \* the calls of tools annotated read_only
    MaxConcurrency,    \* TenantGuards.max_concurrency
    FailureThreshold   \* TenantGuards.failure_threshold

ASSUME GuardAssumption ==
    /\ ReadOnly \subseteq Calls
    /\ MaxConcurrency \in Nat \ {0}
    /\ FailureThreshold \in Nat \ {0}

VARIABLES
    failures,   \* CircuitBreaker.failures
    circuit,    \* CircuitBreaker.state: opened_at read against the clock
    trial,      \* CircuitBreaker._trial_in_flight
    permits,    \* value of the tenant's semaphore
    queue,      \* its waiters, first come first served
    pc,         \* where each call stands
    attempt,    \* times CrmToolProvider.call has called its transport
    outcome,    \* what the caller of CrmToolProvider.call got
    onWire,     \* requests sent that the CRM has neither executed nor refused
                \* for their session (it may never)
    applied,    \* times the CRM executed the call
    refetch,    \* ManifestCache.invalidate was called since the last refetch
    probes      \* history: calls admitted as the half-open trial, not ended

breakerVars == <<failures, circuit, trial>>
semVars == <<permits, queue>>
crmVars == <<onWire, applied>>
vars == <<failures, circuit, trial, permits, queue, pc, attempt, outcome,
          onWire, applied, refetch, probes>>

Outcomes == {"none", "circuit_open", "answered", "error"}

Waiting == {c \in Calls : pc[c] = "queued"}
\* In transport.call: seeing to a session, waiting for the answer, and both again
\* after the CRM refused the session.
InTransport(c) == pc[c] \in {"session", "sending", "renewing", "resending"}
Holders == {c \in Calls : InTransport(c) \/ pc[c] = "backoff"}
Active  == Waiting \union Holders

\* Bug: writes are retried as well.
AttemptsForWritesToo(c) == 2

Attempts(c) == IF c \in ReadOnly THEN 2 ELSE 1

Init ==
    /\ failures = 0 /\ circuit = "closed" /\ trial = FALSE
    /\ permits = MaxConcurrency /\ queue = <<>>
    /\ pc = [c \in Calls |-> "idle"]
    /\ attempt = [c \in Calls |-> 0]
    /\ outcome = [c \in Calls |-> "none"]
    /\ onWire = [c \in Calls |-> 0]
    /\ applied = [c \in Calls |-> 0]
    /\ refetch = FALSE
    /\ probes = {}

-----------------------------------------------------------------------------
(* The circuit breaker *)

Refuses == circuit = "open" \/ (circuit = "half_open" /\ trial)

\* Bug: the failures before the success still count.
RecordSuccessKeepsCount ==
    /\ circuit' = "closed"
    /\ trial' = FALSE
    /\ UNCHANGED failures

RecordSuccess ==
    /\ failures' = 0
    /\ circuit' = "closed"
    /\ trial' = FALSE

RecordFailure ==
    /\ trial' = FALSE
    /\ failures' = failures + 1
    /\ circuit' = IF circuit # "closed" \/ failures + 1 >= FailureThreshold
                  THEN "open" ELSE "closed"

\* Bug: a cancelled trial keeps the flag.
ReleaseTrialForgotten == UNCHANGED breakerVars

ReleaseTrial ==
    /\ trial' = FALSE
    /\ UNCHANGED <<failures, circuit>>

\* reset_seconds have passed since opened_at.
CoolDownEnds ==
    /\ circuit = "open"
    /\ circuit' = "half_open"
    /\ UNCHANGED <<failures, trial, semVars, pc, attempt, outcome,
                   crmVars, refetch, probes>>

-----------------------------------------------------------------------------
(* The semaphore; a call that gets a permit calls its transport in the same  *)
(* step, which first sees to the session.                                    *)

Begin(c) == attempt' = [attempt EXCEPT ![c] = @ + 1]

Acquire(c) ==
    IF permits > 0
    THEN /\ permits' = permits - 1
         /\ pc' = [pc EXCEPT ![c] = "session"]
         /\ Begin(c)
         /\ UNCHANGED queue
    ELSE /\ queue' = Append(queue, c)
         /\ pc' = [pc EXCEPT ![c] = "queued"]
         /\ UNCHANGED <<permits, attempt>>

\* Bug: the permit is given back, but nobody is woken up.
ReleaseWakesNobody(c) ==
    /\ permits' = permits + 1
    /\ pc' = [pc EXCEPT ![c] = "done"]
    /\ UNCHANGED <<queue, attempt>>

\* The holder c leaves: its permit goes to the first waiter, if there is one.
Release(c) ==
    IF queue = <<>>
    THEN /\ permits' = permits + 1
         /\ pc' = [pc EXCEPT ![c] = "done"]
         /\ UNCHANGED <<queue, attempt>>
    ELSE /\ queue' = Tail(queue)
         /\ pc' = [pc EXCEPT ![c] = "done", ![Head(queue)] = "session"]
         /\ Begin(Head(queue))
         /\ UNCHANGED permits

Returns(c, result) ==
    /\ outcome' = [outcome EXCEPT ![c] = result]
    /\ probes' = probes \ {c}

-----------------------------------------------------------------------------
(* CrmToolProvider.call *)

FailFast(c) ==
    /\ pc[c] = "idle"
    /\ Refuses
    /\ pc' = [pc EXCEPT ![c] = "done"]
    /\ Returns(c, "circuit_open")
    /\ UNCHANGED <<breakerVars, semVars, attempt, crmVars, refetch>>

Admit(c) ==
    /\ pc[c] = "idle"
    /\ ~Refuses
    /\ trial' = (trial \/ circuit = "half_open")
    /\ probes' = IF circuit = "half_open" THEN probes \union {c} ELSE probes
    /\ Acquire(c)
    /\ UNCHANGED <<failures, circuit, outcome, crmVars, refetch>>

\* The client has a session or gets one (CrmSession); the request goes out.
Send(c) ==
    /\ pc[c] \in {"session", "renewing"}
    /\ pc' = [pc EXCEPT ![c] = IF @ = "session" THEN "sending" ELSE "resending"]
    /\ onWire' = [onWire EXCEPT ![c] = @ + 1]
    /\ UNCHANGED <<breakerVars, semVars, attempt, outcome, applied,
                   refetch, probes>>

\* 401 or 403 under a session of the cache: the CRM has not done what was asked,
\* and the client sends the same request, of a write too, once more under
\* another session.
SessionRefused(c) ==
    /\ pc[c] = "sending"
    /\ onWire[c] > 0
    /\ onWire' = [onWire EXCEPT ![c] = @ - 1]
    /\ pc' = [pc EXCEPT ![c] = "renewing"]
    /\ UNCHANGED <<breakerVars, semVars, attempt, outcome, applied, refetch,
                   probes>>

\* A 2xx answer, tool-level errors included. It may still not parse.
Answered(c) ==
    /\ pc[c] \in {"sending", "resending"}
    /\ applied[c] > 0
    /\ RecordSuccess
    /\ Release(c)
    /\ \E result \in {"answered", "error"} : Returns(c, result)
    /\ UNCHANGED <<crmVars, refetch>>

\* The transport fails while it logs in for a session or while the request is
\* out; a failed login counts like a failed request.

\* 502, 503, 504 or a connection-level failure other than a read timeout.
Retry(c) ==
    /\ InTransport(c)
    /\ attempt[c] < Attempts(c)
    /\ pc' = [pc EXCEPT ![c] = "backoff"]
    /\ UNCHANGED <<breakerVars, semVars, attempt, outcome, crmVars,
                   refetch, probes>>

RetryBegins(c) ==
    /\ pc[c] = "backoff"
    /\ pc' = [pc EXCEPT ![c] = "session"]
    /\ Begin(c)
    /\ UNCHANGED <<breakerVars, semVars, outcome, crmVars, refetch, probes>>

\* A 5xx status or a failure of the connection with no attempt left, or a read
\* timeout, which is not retried even for a read-only tool.
Unavailable(c) ==
    /\ InTransport(c)
    /\ RecordFailure
    /\ Release(c)
    /\ Returns(c, "error")
    /\ UNCHANGED <<crmVars, refetch>>

\* _http_error below 500: the CRM is alive, whatever it thinks of the request;
\* 404 has the manifest fetched anew.
Rejected(c) ==
    /\ InTransport(c)
    /\ RecordSuccess
    /\ Release(c)
    /\ Returns(c, "error")
    /\ refetch' \in {refetch, TRUE}
    /\ UNCHANGED crmVars

\* Any other exception of the transport, e.g. a body that is not JSON.
ClientError(c) ==
    /\ InTransport(c)
    /\ ReleaseTrial
    /\ Release(c)
    /\ Returns(c, "error")
    /\ UNCHANGED <<crmVars, refetch>>

\* The turn is cancelled: client gone, or the agent's time is up.
CancelHolder(c) ==
    /\ c \in Holders
    /\ ReleaseTrial
    /\ Release(c)
    /\ Returns(c, "none")
    /\ UNCHANGED <<crmVars, refetch>>

CancelWaiter(c) ==
    /\ pc[c] = "queued"
    /\ ReleaseTrial
    /\ \E i \in 1..Len(queue) : queue[i] = c /\ queue' = RemoveAt(queue, i)
    /\ pc' = [pc EXCEPT ![c] = "done"]
    /\ Returns(c, "none")
    /\ UNCHANGED <<permits, attempt, crmVars, refetch>>

-----------------------------------------------------------------------------
(* The surroundings: the CRM executes a request, perhaps long after the     *)
(* caller gave up; ManifestCache.get refetches an invalidated manifest.     *)

CrmExecutes(c) ==
    /\ onWire[c] > 0
    /\ onWire' = [onWire EXCEPT ![c] = @ - 1]
    /\ applied' = [applied EXCEPT ![c] = @ + 1]
    /\ UNCHANGED <<breakerVars, semVars, pc, attempt, outcome, refetch,
                   probes>>

ManifestRefetched ==
    /\ refetch
    /\ refetch' = FALSE
    /\ UNCHANGED <<breakerVars, semVars, pc, attempt, outcome, crmVars,
                   probes>>

\* What the timeouts of the login's requests and of the call force to happen.
Ends(c) == Answered(c) \/ Unavailable(c) \/ Rejected(c)
              \/ ClientError(c)

Next ==
    \/ CoolDownEnds
    \/ ManifestRefetched
    \/ \E c \in Calls :
          \/ FailFast(c) \/ Admit(c)
          \/ Send(c) \/ SessionRefused(c)
          \/ Answered(c) \/ Retry(c) \/ RetryBegins(c)
          \/ Unavailable(c) \/ Rejected(c) \/ ClientError(c)
          \/ CancelHolder(c) \/ CancelWaiter(c)
          \/ CrmExecutes(c)

Spec == Init /\ [][Next]_vars

\* Each request has connect and read timeouts of at most 60 seconds, and the
\* event loop resumes a task whose sleep is over.
Fairness == \A c \in Calls : WF_vars(Send(c) \/ Ends(c)) /\ WF_vars(RetryBegins(c))

FairSpec == Spec /\ Fairness

-----------------------------------------------------------------------------
(* Properties *)

TypeOK ==
    /\ failures \in Nat
    /\ circuit \in {"closed", "open", "half_open"}
    /\ trial \in BOOLEAN
    /\ permits \in 0..MaxConcurrency
    /\ queue \in Seq(Calls)
    /\ pc \in [Calls -> {"idle", "queued", "session", "sending", "renewing",
                        "resending", "backoff", "done"}]
    /\ attempt \in [Calls -> 0..2]
    /\ outcome \in [Calls -> Outcomes]
    /\ onWire \in [Calls -> Nat]
    /\ applied \in [Calls -> Nat]
    /\ refetch \in BOOLEAN
    /\ probes \subseteq Calls

\* The half-open flag is up only while a call that was let in as the trial is
\* still running: no exit of a trial (answer, error, malformed body, a cancel
\* in the queue, in the request or in the back-off) can leave the flag behind,
\* which would refuse this tenant's calls until the worker restarts.
TrialHasOwner ==
    /\ probes \subseteq Active
    /\ trial => probes # {}

\* The breaker is closed exactly while the failures since the last verdict of a
\* living CRM are below the threshold: stragglers that end after it opened, in
\* whatever order, can neither leave it tripped with a clean record nor closed
\* with a spent one.
TrippedByFailures == (circuit = "closed") <=> (failures < FailureThreshold)

\* Every permit of the semaphore is free or held by one running call, whichever
\* way calls end, and no call waits while a permit is free.
PermitsConserved ==
    /\ permits + Cardinality(Holders) = MaxConcurrency
    /\ permits > 0 => Waiting = {}

\* A write is never in the CRM's hands a second time unless the CRM refused the
\* first for its session: whatever fails, on the wire or while the client logs in
\* anew, the requests executed and those still to be executed are at most one.
\* A call refused by the breaker sends none, nor one that is still waiting.
WriteAtMostOnce ==
    \A c \in Calls :
        /\ c \notin ReadOnly => onWire[c] + applied[c] <= 1
        /\ (outcome[c] = "circuit_open" \/ pc[c] \in {"idle", "queued"})
              => onWire[c] + applied[c] = 0

\* While the breaker refuses, the calls in progress only drain: those let in
\* before it opened end one by one and no new one joins them.
DrainsWhileRefusing == [][Refuses => Active' \subseteq Active]_vars

\* Every call that was let in returns: a waiter is reached by a permit even when
\* calls ahead of it are cancelled.
EveryCallReturns == \A c \in Calls : (c \in Active) ~> (pc[c] = "done")

=============================================================================
