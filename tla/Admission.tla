------------------------------ MODULE Admission ------------------------------
(***************************************************************************)
(* Who may start a turn: signed requests and stream tokens                 *)
(* (app/api/dependencies.py, app/core/security.py,                         *)
(* app/core/stream_token.py) and the store of used nonces that the worker  *)
(* processes share (DatabaseNonceStore of app/core/nonce_store.py).        *)
(*                                                                         *)
(* A message is a signature over one timestamp and one nonce; networks,    *)
(* proxies and clients may deliver it any number of times, to any worker.  *)
(* Each worker has a clock of its own.  Only messages whose signature a    *)
(* worker finds good are here; how long a replaced secret counts as good   *)
(* is TenantCaches' subject.                                               *)
(***************************************************************************)
EXTENDS Naturals, Sequences

CONSTANTS
    Workers,    \* worker processes
    Messages,   \* signed requests and stream tokens
    MaxSkew,    \* hmac_max_skew_seconds, in ticks
    TokenLife,  \* how long a stream token may be used: 60 seconds
    TokenTtl,   \* how long its nonce is kept: 120 seconds
    Drift,      \* by how much the workers' clocks differ at most
    MaxNow,     \* bound on the clock
    Never       \* no nonce, no message

ASSUME AdmissionAssumption ==
    /\ MaxSkew \in Nat \ {0} /\ MaxNow \in Nat
    /\ TokenLife \in Nat /\ TokenTtl \in Nat /\ Drift \in Nat
    /\ TokenLife + 2 * Drift < TokenTtl
    /\ Never \notin Nat \union [kind : {"request", "token"}, at : Nat]

VARIABLES
    time,      \* true time
    ahead,     \* by how much each worker's clock is ahead
    message,   \* what each message says, or Never while it is not signed
    expires,   \* hmac_nonces: expires_at of each message's nonce
    checking,  \* messages whose signature a worker has verified
    accepted   \* history: true times at which each message was accepted

admissionVars == <<time, ahead, message, expires, checking, accepted>>

Now(w) == time + ahead[w]
Signed(m) == message[m] # Never

AdmissionInit ==
    /\ time = 0
    /\ ahead \in [Workers -> 0..Drift]
    /\ message = [m \in Messages |-> Never]
    /\ expires = [m \in Messages |-> Never]
    /\ checking = {}
    /\ accepted = [m \in Messages |-> << >>]

-----------------------------------------------------------------------------
(* Messages *)

\* A client signs; its clock may be off either way.
SignRequest(m) ==
    /\ ~Signed(m)
    /\ \E at \in 0..MaxNow :
          message' = [message EXCEPT ![m] =
                        [kind |-> "request", at |-> at]]
    /\ UNCHANGED <<time, ahead, expires, checking, accepted>>

\* create_stream_token, by a worker.
IssueToken(w, m) ==
    /\ ~Signed(m)
    /\ message' = [message EXCEPT ![m] =
                    [kind |-> "token", at |-> Now(w)]]
    /\ UNCHANGED <<time, ahead, expires, checking, accepted>>

-----------------------------------------------------------------------------
(* A worker's check of a delivered message *)

\* _verify_signature: the window around the timestamp.
RequestInTime(w, m) ==
    /\ Now(w) <= message[m].at + MaxSkew
    /\ message[m].at <= Now(w) + MaxSkew

\* _verify_stream_token: the expiry.
TokenInTime(w, m) == Now(w) <= message[m].at + TokenLife

\* Time and signature are checked before the nonce is touched.
Verified(w, m) ==
    /\ checking' = checking \union {<<w, m>>}
    /\ UNCHANGED <<time, ahead, message, expires, accepted>>

VerifyRequest(w, m) ==
    /\ Signed(m) /\ message[m].kind = "request" /\ RequestInTime(w, m)
    /\ Verified(w, m)

VerifyToken(w, m) ==
    /\ Signed(m) /\ message[m].kind = "token" /\ TokenInTime(w, m)
    /\ Verified(w, m)

NonceTtl(m) == IF message[m].kind = "token" THEN TokenTtl ELSE 2 * MaxSkew

\* Bug: the nonce of an old row is never compared with the clock.
FreshIfUnseen(w, m) == expires[m] = Never \/ expires[m] < Now(w) + NonceTtl(m)

\* INSERT .. ON CONFLICT DO UPDATE .. WHERE expires_at <= now RETURNING
Fresh(w, m) == expires[m] = Never \/ (expires[m] # Never /\ expires[m] <= Now(w))

\* The upsert, atomic in the database, accepts or refuses.
Register(w, m) ==
    /\ <<w, m>> \in checking
    /\ checking' = checking \ {<<w, m>>}
    /\ IF Fresh(w, m)
       THEN /\ expires' = [expires EXCEPT ![m] = Now(w) + NonceTtl(m)]
            /\ accepted' = [accepted EXCEPT ![m] = Append(@, time)]
       ELSE UNCHANGED <<expires, accepted>>
    /\ UNCHANGED <<time, ahead, message>>

\* Now and then a registering worker deletes the rows that expired by its clock.
Prune(w) ==
    /\ expires' = [m \in Messages |->
                     IF expires[m] = Never THEN Never
                     ELSE IF expires[m] <= Now(w) THEN Never ELSE expires[m]]
    /\ UNCHANGED <<time, ahead, message, checking, accepted>>

\* The database is away or the client left: nothing accepted.
CheckFails(w, m) ==
    /\ <<w, m>> \in checking
    /\ checking' = checking \ {<<w, m>>}
    /\ UNCHANGED <<time, ahead, message, expires, accepted>>

\* get_tenant_context, get_stream_token_context: 503.
RequestCheckFails(w, m) == CheckFails(w, m) /\ message[m].kind = "request"
TokenCheckFails(w, m) == CheckFails(w, m) /\ message[m].kind = "token"

-----------------------------------------------------------------------------

\* A check, from the clock's reading to the upsert, takes less than a tick.
AdmissionTick ==
    /\ time < MaxNow /\ checking = {}
    /\ time' = time + 1
    /\ UNCHANGED <<ahead, message, expires, checking, accepted>>

AdmissionNext ==
    \/ AdmissionTick
    \/ \E m \in Messages :
          \/ SignRequest(m)
          \/ \E w \in Workers : \/ IssueToken(w, m) \/ VerifyRequest(w, m) \/ VerifyToken(w, m)
                                \/ Register(w, m) \/ RequestCheckFails(w, m) \/ TokenCheckFails(w, m)
    \/ \E w \in Workers : Prune(w)

AdmissionSpec == AdmissionInit /\ [][AdmissionNext]_admissionVars

-----------------------------------------------------------------------------
(* Properties *)

\* A message delivered again, to any worker and however the checks interleave,
\* is not accepted again while its nonce is kept: two acceptances are its time
\* to live apart, less what the clocks differ by.  A stream token, whose nonce
\* outlives it, is accepted once.
NonceUsedOnce ==
    \A m \in Messages : \A i, j \in DOMAIN accepted[m] :
        i < j => /\ accepted[m][j] + Drift >= accepted[m][i] + NonceTtl(m)
                 /\ message[m].kind # "token"
=============================================================================
