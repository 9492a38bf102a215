-------------------------- MODULE Requests_proofs ---------------------------
(***************************************************************************)
(* Who gets in, with what, and who waits for whom: five components of the  *)
(* requests' way without shared state, each with an inductive invariant of *)
(* its own.                                                                *)
(*                                                                         *)
(* A signed message is not accepted again while its nonce is kept, for any *)
(* number of workers, messages and deliveries and any clocks that differ   *)
(* by no more than Drift.  The client of a request logs in at most once,   *)
(* for any number of clients and calls and however the CRM forgets         *)
(* sessions.  A cache serves nothing outdated for longer than its bound.   *)
(* Only one briefing is collected at a time under a key.  The permits,     *)
(* temporary files and threads of spoken turns fit together, and a turn is *)
(* processed with what was said.                                           *)
(***************************************************************************)
EXTENDS Admission, CrmSession, TenantCaches, Briefing, AudioTurns, FiniteSetTheorems,
        SequenceTheorems, TLAPS

-----------------------------------------------------------------------------
(* Admission.  That the upsert is atomic is not enough: a row may be pruned,   *)
(* by any worker and that worker's clock.  The inductive invariant says what a *)
(* missing or expired row means (Remembered): so much time has passed since    *)
(* the last acceptance; and, for a stream token, that by then its own life is  *)
(* over (TokensOnTime).                                                        *)

Ahead == 0..Drift
Said == [kind : {"request", "token"}, at : Nat]

AdmissionTypeInv ==
    /\ time \in Nat
    /\ ahead \in [Workers -> Ahead]
    /\ message \in [Messages -> Said \union {Never}]
    /\ expires \in [Messages -> Nat \union {Never}]
    /\ checking \subseteq Workers \X Messages
    /\ accepted \in [Messages -> Seq(Nat)]

\* Only signed messages are checked and accepted.
OnlySigned ==
    /\ \A w \in Workers, m \in Messages : <<w, m>> \in checking => Signed(m)
    /\ \A m \in Messages : ~Signed(m) => accepted[m] = << >>

\* Whatever became of its row: at a moment from which on a worker may take the
\* message for new, the message's time to live is over, but for the drift.
RememberedOf(m) ==
    \A i \in 1..Len(accepted[m]) :
        /\ accepted[m][i] <= time
        /\ expires[m] = Never => time + Drift >= accepted[m][i] + NonceTtl(m)
        /\ expires[m] # Never => expires[m] >= accepted[m][i] + NonceTtl(m)

Remembered == \A m \in Messages : RememberedOf(m)

\* A token was issued before it was checked and accepted, and a worker that
\* still checks it found it in time.
TokenOnTime(m) ==
    Signed(m) /\ message[m].kind = "token" =>
        /\ message[m].at <= time + Drift
        /\ \A i \in 1..Len(accepted[m]) : message[m].at <= accepted[m][i] + Drift
        /\ \A w \in Workers : <<w, m>> \in checking => time <= message[m].at + TokenLife

TokensOnTime == \A m \in Messages : TokenOnTime(m)

SpacedOf(m) ==
    \A i, j \in 1..Len(accepted[m]) :
        i < j => /\ accepted[m][j] + Drift >= accepted[m][i] + NonceTtl(m)
                 /\ message[m].kind # "token"

Spaced == \A m \in Messages : SpacedOf(m)

AdmissionInv == AdmissionTypeInv /\ OnlySigned /\ Remembered /\ TokensOnTime /\ Spaced

-----------------------------------------------------------------------------

LEMMA NonceTtlNat == \A m \in Messages : NonceTtl(m) \in Nat
BY AdmissionAssumption DEF NonceTtl

LEMMA NowBounds ==
    ASSUME AdmissionTypeInv, NEW w \in Workers
    PROVE  Now(w) \in Nat /\ time <= Now(w) /\ Now(w) <= time + Drift
BY AdmissionAssumption DEF AdmissionTypeInv, Now, Ahead

LEMMA AdmissionInitInv == AdmissionInit => AdmissionInv
<1> SUFFICES ASSUME AdmissionInit PROVE AdmissionInv
  OBVIOUS
<1>1. AdmissionTypeInv
  BY AdmissionAssumption DEF AdmissionInit, AdmissionTypeInv, Ahead
<1>2. \A m \in Messages : accepted[m] = << >> /\ Len(accepted[m]) = 0 /\ ~Signed(m)
  BY DEF AdmissionInit, Signed
<1>3. checking = {}
  BY DEF AdmissionInit
<1>4. OnlySigned
  BY <1>2, <1>3 DEF OnlySigned
<1>5. Remembered /\ TokensOnTime /\ Spaced
  BY <1>2 DEF Remembered, RememberedOf, TokensOnTime, TokenOnTime, Spaced, SpacedOf
<1> QED
  BY <1>1, <1>4, <1>5 DEF AdmissionInv

-----------------------------------------------------------------------------
(* The steps of a message.  Those that only sign it disturb nothing said of   *)
(* an accepted one.                                                           *)

LEMMA SignStep ==
    ASSUME AdmissionInv, NEW m \in Messages, ~Signed(m),
           NEW said \in Said,
           said.kind = "token" => said.at <= time + Drift,
           message' = [message EXCEPT ![m] = said],
           UNCHANGED <<time, ahead, expires, checking, accepted>>
    PROVE  AdmissionInv'
<1>1. AdmissionTypeInv'
  BY DEF AdmissionInv, AdmissionTypeInv
<1>2. message'[m] = said /\ \A n \in Messages \ {m} : message'[n] = message[n]
  BY DEF AdmissionInv, AdmissionTypeInv
<1>3. accepted[m] = << >> /\ \A w \in Workers : <<w, m>> \notin checking
  BY DEF AdmissionInv, OnlySigned
<1>4. said # Never
  BY AdmissionAssumption DEF Said
<1>5. \A n \in Messages \ {m} : NonceTtl(n)' = NonceTtl(n) /\ Signed(n)' = Signed(n)
  BY <1>2 DEF NonceTtl, Signed
<1>6. OnlySigned'
  <2>1. ASSUME NEW w \in Workers, NEW n \in Messages, <<w, n>> \in checking'
        PROVE  Signed(n)'
    BY <2>1, <1>3, <1>5 DEF AdmissionInv, OnlySigned
  <2>2. ASSUME NEW n \in Messages, ~Signed(n)' PROVE accepted'[n] = << >>
    <3>1. CASE n = m
      BY <3>1, <1>3
    <3>2. CASE n # m
      BY <3>2, <2>2, <1>5 DEF AdmissionInv, OnlySigned
    <3> QED
      BY <3>1, <3>2
  <2> QED
    BY <2>1, <2>2 DEF OnlySigned
<1>7. ASSUME NEW n \in Messages PROVE RememberedOf(n)' /\ TokenOnTime(n)' /\ SpacedOf(n)'
  <2>1. CASE n = m
    <3>1. Len(accepted'[n]) = 0
      BY <2>1, <1>3
    <3> QED
      BY <3>1, <2>1, <1>2, <1>3 DEF RememberedOf, TokenOnTime, SpacedOf
  <2>2. CASE n # m
    BY <2>2, <1>2, <1>5 DEF AdmissionInv, Remembered, RememberedOf, TokensOnTime, TokenOnTime,
                            Spaced, SpacedOf
  <2> QED
    BY <2>1, <2>2
<1> QED
  BY <1>1, <1>6, <1>7 DEF AdmissionInv, Remembered, TokensOnTime, Spaced

\* A check that begins finds a token in time; one that fails is forgotten.
LEMMA CheckStep ==
    ASSUME AdmissionInv, checking' \subseteq Workers \X Messages,
           \A w \in Workers, m \in Messages :
               <<w, m>> \in checking' =>
                   /\ Signed(m)
                   /\ message[m].kind = "token" => time <= message[m].at + TokenLife,
           UNCHANGED <<time, ahead, message, expires, accepted>>
    PROVE  AdmissionInv'
<1>1. AdmissionTypeInv' /\ OnlySigned'
  BY DEF AdmissionInv, AdmissionTypeInv, OnlySigned, Signed
<1>2. Remembered' /\ Spaced'
  BY DEF AdmissionInv, Remembered, RememberedOf, Spaced, SpacedOf, NonceTtl
<1>3. TokensOnTime'
  BY DEF AdmissionInv, TokensOnTime, TokenOnTime, Signed
<1> QED
  BY <1>1, <1>2, <1>3 DEF AdmissionInv

LEMMA VerifyStep ==
    ASSUME AdmissionInv, NEW w \in Workers, NEW m \in Messages,
           VerifyRequest(w, m) \/ VerifyToken(w, m)
    PROVE  AdmissionInv'
<1>1. Verified(w, m) /\ Signed(m)
  BY DEF VerifyRequest, VerifyToken
<1>2. message[m].kind = "token" => time <= message[m].at + TokenLife
  <2>1. CASE VerifyRequest(w, m)
    BY <2>1 DEF VerifyRequest
  <2>2. CASE VerifyToken(w, m)
    <3>1. message[m].at \in Nat
      BY <1>1 DEF AdmissionInv, AdmissionTypeInv, Signed, Said
    <3>2. Now(w) <= message[m].at + TokenLife
      BY <2>2 DEF VerifyToken, TokenInTime
    <3>3. Now(w) \in Nat /\ time \in Nat /\ time <= Now(w)
      BY NowBounds DEF AdmissionInv, AdmissionTypeInv
    <3> QED
      BY <3>1, <3>2, <3>3, AdmissionAssumption
  <2> QED
    BY <2>1, <2>2
<1>3. /\ checking' = checking \union {<<w, m>>}
      /\ UNCHANGED <<time, ahead, message, expires, accepted>>
  BY <1>1 DEF Verified
<1>4. checking' \subseteq Workers \X Messages
  BY <1>3 DEF AdmissionInv, AdmissionTypeInv
<1>5. ASSUME NEW v \in Workers, NEW n \in Messages, <<v, n>> \in checking'
      PROVE  /\ Signed(n)
             /\ message[n].kind = "token" => time <= message[n].at + TokenLife
  <2>1. CASE n = m
    BY <2>1, <1>1, <1>2
  <2>2. CASE n # m
    <3>1. <<v, n>> \in checking
      BY <2>2, <1>3, <1>5
    <3> QED
      BY <3>1 DEF AdmissionInv, OnlySigned, TokensOnTime, TokenOnTime
  <2> QED
    BY <2>1, <2>2
<1> QED
  BY <1>3, <1>4, <1>5, CheckStep

LEMMA CheckFailsStep ==
    ASSUME AdmissionInv, NEW w \in Workers, NEW m \in Messages, CheckFails(w, m)
    PROVE  AdmissionInv'
<1>1. /\ checking' \subseteq checking
      /\ UNCHANGED <<time, ahead, message, expires, accepted>>
  BY DEF CheckFails
<1>2. checking' \subseteq Workers \X Messages
  BY <1>1 DEF AdmissionInv, AdmissionTypeInv
<1>3. ASSUME NEW v \in Workers, NEW n \in Messages, <<v, n>> \in checking'
      PROVE  /\ Signed(n)
             /\ message[n].kind = "token" => time <= message[n].at + TokenLife
  BY <1>1, <1>3 DEF AdmissionInv, OnlySigned, TokensOnTime, TokenOnTime
<1> QED
  BY <1>1, <1>2, <1>3, CheckStep

-----------------------------------------------------------------------------
(* The steps of the store. *)

\* What the upsert accepts was last accepted a time to live ago, less the drift.
LEMMA FreshIsLate ==
    ASSUME AdmissionInv, NEW w \in Workers, NEW m \in Messages, Fresh(w, m),
           NEW i \in 1..Len(accepted[m])
    PROVE  time + Drift >= accepted[m][i] + NonceTtl(m)
<1>1. /\ accepted[m][i] \in Nat /\ NonceTtl(m) \in Nat /\ time \in Nat /\ Drift \in Nat
      /\ expires[m] \in Nat \union {Never}
  BY NonceTtlNat, AdmissionAssumption DEF AdmissionInv, AdmissionTypeInv
<1>2. Now(w) \in Nat /\ Now(w) <= time + Drift
  BY NowBounds DEF AdmissionInv
<1>3. RememberedOf(m)
  BY DEF AdmissionInv, Remembered
<1> QED
  BY <1>1, <1>2, <1>3 DEF Fresh, RememberedOf

\* A token cannot be in time once its nonce may be gone.
LEMMA NoTokenLeft ==
    \A at, first, now \in Nat :
        ~ /\ at <= first + Drift
          /\ now <= at + TokenLife
          /\ now + Drift >= first + TokenTtl
<1>1. /\ TokenLife \in Nat /\ TokenTtl \in Nat /\ Drift \in Nat
      /\ TokenLife + 2 * Drift < TokenTtl
  BY AdmissionAssumption
<1> QED
  BY <1>1

LEMMA AcceptStep ==
    ASSUME AdmissionInv, NEW w \in Workers, NEW m \in Messages, <<w, m>> \in checking, Fresh(w, m),
           checking' = checking \ {<<w, m>>},
           expires' = [expires EXCEPT ![m] = Now(w) + NonceTtl(m)],
           accepted' = [accepted EXCEPT ![m] = Append(@, time)],
           UNCHANGED <<time, ahead, message>>
    PROVE  AdmissionInv'
<1>1. time \in Nat /\ Now(w) \in Nat /\ time <= Now(w) /\ NonceTtl(m) \in Nat /\ Drift \in Nat
  BY NowBounds, NonceTtlNat, AdmissionAssumption DEF AdmissionInv, AdmissionTypeInv
<1>2. accepted[m] \in Seq(Nat) /\ Signed(m)
  BY DEF AdmissionInv, AdmissionTypeInv, OnlySigned
<1>3. /\ accepted'[m] = Append(accepted[m], time)
      /\ expires'[m] = Now(w) + NonceTtl(m)
      /\ \A n \in Messages \ {m} : accepted'[n] = accepted[n] /\ expires'[n] = expires[n]
  BY DEF AdmissionInv, AdmissionTypeInv
<1>4. /\ Len(accepted'[m]) = Len(accepted[m]) + 1
      /\ accepted'[m][Len(accepted[m]) + 1] = time
      /\ \A i \in 1..Len(accepted[m]) :
            accepted'[m][i] = accepted[m][i] /\ accepted[m][i] \in Nat
  BY <1>1, <1>2, <1>3
<1>5. AdmissionTypeInv'
  BY <1>1, <1>2 DEF AdmissionInv, AdmissionTypeInv
<1>6. OnlySigned'
  BY <1>2, <1>3 DEF AdmissionInv, OnlySigned, Signed
<1>7. \A n \in Messages : NonceTtl(n)' = NonceTtl(n)
  BY DEF NonceTtl
<1>8. ASSUME NEW n \in Messages \ {m}
      PROVE  RememberedOf(n)' /\ TokenOnTime(n)' /\ SpacedOf(n)'
  BY <1>3, <1>7 DEF AdmissionInv, Remembered, RememberedOf, TokensOnTime, TokenOnTime, Signed,
                    Spaced, SpacedOf
<1>9. RememberedOf(m)'
  <2>1. expires'[m] # Never
    BY <1>1, <1>3, AdmissionAssumption
  <2>2. ASSUME NEW i \in 1..Len(accepted'[m])
        PROVE  accepted'[m][i] <= time /\ expires'[m] >= accepted'[m][i] + NonceTtl(m)
    <3>1. accepted'[m][i] \in Nat /\ accepted'[m][i] <= time
      BY <1>1, <1>2, <1>4 DEF AdmissionInv, Remembered, RememberedOf
    <3> QED
      BY <3>1, <1>1, <1>3
  <2> QED
    BY <2>1, <2>2, <1>7 DEF RememberedOf
<1>10. TokenOnTime(m)'
  <2>1. ASSUME message[m].kind = "token"
        PROVE  \A i \in 1..Len(accepted'[m]) : message[m].at <= accepted'[m][i] + Drift
    BY <2>1, <1>2, <1>4 DEF AdmissionInv, TokensOnTime, TokenOnTime
  <2> QED
    BY <2>1 DEF AdmissionInv, TokensOnTime, TokenOnTime, Signed
<1>11. SpacedOf(m)'
  <2> SUFFICES ASSUME NEW i \in 1..Len(accepted'[m]), NEW j \in 1..Len(accepted'[m]), i < j
               PROVE  /\ accepted'[m][j] + Drift >= accepted'[m][i] + NonceTtl(m)
                      /\ message[m].kind # "token"
    BY <1>7 DEF SpacedOf
  <2>1. i \in 1..Len(accepted[m])
    BY <1>2, <1>4
  <2>2. CASE j \in 1..Len(accepted[m])
    BY <2>1, <2>2, <1>4 DEF AdmissionInv, Spaced, SpacedOf
  <2>3. CASE j = Len(accepted[m]) + 1
    <3>1. /\ time + Drift >= accepted[m][i] + NonceTtl(m)
          /\ accepted[m][i] \in Nat
      BY <2>1, <1>4, FreshIsLate
    <3>2. message[m].kind # "token"
      <4> SUFFICES ASSUME message[m].kind = "token" PROVE FALSE
        OBVIOUS
      <4>1. /\ message[m].at <= accepted[m][i] + Drift
            /\ time <= message[m].at + TokenLife
        BY <2>1, <1>2 DEF AdmissionInv, TokensOnTime, TokenOnTime
      <4>2. message[m].at \in Nat
        BY <1>2 DEF AdmissionInv, AdmissionTypeInv, Signed, Said
      <4>3. NonceTtl(m) = TokenTtl
        BY DEF NonceTtl
      <4>4. time + Drift >= accepted[m][i] + TokenTtl
        BY <3>1, <4>3
      <4> QED
        BY <3>1, <4>1, <4>2, <4>4, <1>1, NoTokenLeft
    <3> QED
      BY <3>1, <3>2, <2>1, <2>3, <1>4
  <2> QED
    BY <2>2, <2>3, <1>2, <1>4
<1> QED
  BY <1>5, <1>6, <1>8, <1>9, <1>10, <1>11 DEF AdmissionInv, Remembered, TokensOnTime, Spaced

LEMMA RegisterStep ==
    ASSUME AdmissionInv, NEW w \in Workers, NEW m \in Messages, Register(w, m)
    PROVE  AdmissionInv'
<1>1. CASE Fresh(w, m)
  BY <1>1, AcceptStep DEF Register
<1>2. CASE ~Fresh(w, m)
  <2>1. CheckFails(w, m)
    BY <1>2 DEF Register, CheckFails
  <2> QED
    BY <2>1, CheckFailsStep
<1> QED
  BY <1>1, <1>2

LEMMA PruneStep ==
    ASSUME AdmissionInv, NEW w \in Workers, Prune(w)
    PROVE  AdmissionInv'
<1>1. /\ UNCHANGED <<time, ahead, message, checking, accepted>>
      /\ \A m \in Messages : expires'[m] =
            IF expires[m] = Never THEN Never
            ELSE IF expires[m] <= Now(w) THEN Never ELSE expires[m]
  BY DEF Prune
<1>2. AdmissionTypeInv'
  BY <1>1 DEF AdmissionInv, AdmissionTypeInv, Prune
<1>3. OnlySigned' /\ TokensOnTime' /\ Spaced'
  BY <1>1 DEF AdmissionInv, OnlySigned, Signed, TokensOnTime, TokenOnTime, Spaced, SpacedOf, NonceTtl
<1>4. ASSUME NEW m \in Messages PROVE RememberedOf(m)'
  <2>1. NonceTtl(m)' = NonceTtl(m) /\ accepted'[m] = accepted[m] /\ time' = time
    BY <1>1 DEF NonceTtl
  <2>2. CASE Fresh(w, m)
    <3>1. expires'[m] = Never
      BY <2>2, <1>1 DEF Fresh
    <3> QED
      BY <3>1, <2>1, <2>2, FreshIsLate DEF AdmissionInv, Remembered, RememberedOf
  <2>3. CASE ~Fresh(w, m)
    <3>1. expires'[m] = expires[m]
      BY <2>3, <1>1 DEF Fresh
    <3> QED
      BY <3>1, <2>1 DEF AdmissionInv, Remembered, RememberedOf
  <2> QED
    BY <2>2, <2>3
<1> QED
  BY <1>2, <1>3, <1>4 DEF AdmissionInv, Remembered

LEMMA AdmissionTickStep ==
    ASSUME AdmissionInv, AdmissionTick
    PROVE  AdmissionInv'
<1>1. /\ time \in Nat /\ time' = time + 1 /\ checking = {} /\ Drift \in Nat
      /\ UNCHANGED <<ahead, message, expires, checking, accepted>>
  BY AdmissionAssumption DEF AdmissionInv, AdmissionTypeInv, AdmissionTick
<1>2. AdmissionTypeInv' /\ OnlySigned'
  BY <1>1 DEF AdmissionInv, AdmissionTypeInv, OnlySigned, Signed
<1>3. Spaced'
  BY <1>1 DEF AdmissionInv, Spaced, SpacedOf, NonceTtl
<1>4. ASSUME NEW m \in Messages PROVE RememberedOf(m)' /\ TokenOnTime(m)'
  <2>1. /\ NonceTtl(m)' = NonceTtl(m) /\ NonceTtl(m) \in Nat
        /\ \A i \in 1..Len(accepted[m]) : accepted[m][i] \in Nat
    BY <1>1, NonceTtlNat DEF NonceTtl, AdmissionInv, AdmissionTypeInv
  <2>2. RememberedOf(m)'
    BY <2>1, <1>1 DEF AdmissionInv, Remembered, RememberedOf
  <2>3. Signed(m) => message[m].at \in Nat
    BY DEF AdmissionInv, AdmissionTypeInv, Signed, Said
  <2>4. TokenOnTime(m)'
    BY <2>1, <2>3, <1>1 DEF AdmissionInv, TokensOnTime, TokenOnTime, Signed
  <2> QED
    BY <2>2, <2>4
<1> QED
  BY <1>2, <1>3, <1>4 DEF AdmissionInv, Remembered, TokensOnTime

-----------------------------------------------------------------------------

LEMMA AdmissionStepInv == AdmissionInv /\ [AdmissionNext]_admissionVars => AdmissionInv'
<1> SUFFICES ASSUME AdmissionInv, [AdmissionNext]_admissionVars PROVE AdmissionInv'
  OBVIOUS
<1>1. CASE AdmissionTick
  BY <1>1, AdmissionTickStep
<1>2. ASSUME NEW m \in Messages, SignRequest(m) PROVE AdmissionInv'
  <2>1. PICK at \in 0..MaxNow : message' = [message EXCEPT ![m] = [kind |-> "request", at |-> at]]
    BY <1>2 DEF SignRequest
  <2>2. [kind |-> "request", at |-> at] \in Said
    BY AdmissionAssumption DEF Said
  <2> QED
    BY <1>2, <2>1, <2>2, SignStep DEF SignRequest
<1>3. ASSUME NEW m \in Messages, NEW w \in Workers, IssueToken(w, m) PROVE AdmissionInv'
  <2>1. Now(w) \in Nat /\ Now(w) <= time + Drift
    BY NowBounds DEF AdmissionInv
  <2>2. [kind |-> "token", at |-> Now(w)] \in Said
    BY <2>1 DEF Said
  <2> QED
    BY <1>3, <2>1, <2>2, SignStep DEF IssueToken
<1>4. ASSUME NEW m \in Messages, NEW w \in Workers,
             VerifyRequest(w, m) \/ VerifyToken(w, m)
      PROVE  AdmissionInv'
  BY <1>4, VerifyStep
<1>5. ASSUME NEW m \in Messages, NEW w \in Workers, Register(w, m) PROVE AdmissionInv'
  BY <1>5, RegisterStep
<1>6. ASSUME NEW m \in Messages, NEW w \in Workers, RequestCheckFails(w, m) \/ TokenCheckFails(w, m)
      PROVE  AdmissionInv'
  BY <1>6, CheckFailsStep DEF RequestCheckFails, TokenCheckFails
<1>7. ASSUME NEW w \in Workers, Prune(w) PROVE AdmissionInv'
  BY <1>7, PruneStep
<1>8. CASE UNCHANGED admissionVars
  BY <1>8 DEF admissionVars, AdmissionInv, AdmissionTypeInv, OnlySigned, Signed, Remembered,
              RememberedOf, TokensOnTime, TokenOnTime, Spaced, SpacedOf, NonceTtl
<1> QED
  BY <1>1, <1>2, <1>3, <1>4, <1>5, <1>6, <1>7, <1>8 DEF AdmissionNext

\* A message delivered again, to any worker and however the checks interleave,
\* is not accepted again while its nonce is kept, and a stream token never
\* (app/core/nonce_store.py, app/core/security.py).
THEOREM NoReplay == AdmissionSpec => []NonceUsedOnce
<1>1. AdmissionInv => NonceUsedOnce
  <2> SUFFICES ASSUME AdmissionInv, NEW m \in Messages, NEW i \in DOMAIN accepted[m],
                      NEW j \in DOMAIN accepted[m], i < j
               PROVE  /\ accepted[m][j] + Drift >= accepted[m][i] + NonceTtl(m)
                      /\ message[m].kind # "token"
    BY DEF NonceUsedOnce
  <2>1. DOMAIN accepted[m] = 1..Len(accepted[m])
    BY DEF AdmissionInv, AdmissionTypeInv
  <2> QED
    BY <2>1 DEF AdmissionInv, Spaced, SpacedOf
<1> QED
  BY <1>1, AdmissionInitInv, AdmissionStepInv, PTL DEF AdmissionSpec

-----------------------------------------------------------------------------
(* CrmSession.  The lock around the login is only half of the reason: a client *)
(* that has logged in must never be without a session again (LoginKept), and   *)
(* that rests on a refusal dropping only a session that came from the cache.   *)

Sids == Nat \union {NoSid}
ClientRecords == [sid : Sids, fromCache : BOOLEAN, logins : Nat]
CallStages == {"idle", "locking", "login", "sent", "done", "refused", "failed"}
CallRecords == [pc : CallStages, sid : Sids, cached : BOOLEAN, retried : BOOLEAN]

SessionTypeInv ==
    /\ given \in Nat
    /\ sidCache \in [sid : Sids, left : Nat]
    /\ client \in [Clients -> ClientRecords]
    /\ call \in [Clients -> [Calls -> CallRecords]]

\* One call of a client logs in, while the client has no session; and a session
\* obtained by logging in stays.
LoginKept(c) ==
    /\ client[c].logins <= 1
    /\ client[c].logins = 1 => client[c].sid # NoSid /\ ~client[c].fromCache
    /\ \A k \in Calls : call[c][k].pc = "login" =>
          /\ client[c].sid = NoSid
          /\ \A j \in Calls : call[c][j].pc = "login" => j = k

SessionInv == SessionTypeInv /\ \A c \in Clients : LoginKept(c)

LEMMA SessionInitInv == SessionInit => SessionInv
<1> SUFFICES ASSUME SessionInit PROVE SessionInv
  OBVIOUS
<1>1. SessionTypeInv
  BY SessionAssumption DEF SessionInit, SessionTypeInv, Sids, ClientRecords, CallRecords, CallStages,
                           NewClient, NewCall, NoEntry
<1>2. ASSUME NEW c \in Clients PROVE LoginKept(c)
  BY DEF SessionInit, LoginKept, NewClient, NewCall
<1> QED
  BY <1>1, <1>2 DEF SessionInv

-----------------------------------------------------------------------------

\* A step of one call that does not begin or end in a login, and leaves its
\* client as it is.
LEMMA CallStep ==
    ASSUME SessionInv, NEW c \in Clients, NEW k \in Calls, NEW new \in CallRecords,
           new.pc # "login",
           call' = [call EXCEPT ![c] = [call[c] EXCEPT ![k] = new]],
           UNCHANGED <<given, sidCache, client>>
    PROVE  SessionInv'
<1>1. SessionTypeInv'
  BY DEF SessionInv, SessionTypeInv
<1>2. \A d \in Clients, j \in Calls : call'[d][j].pc = "login" => call[d][j].pc = "login"
  BY DEF SessionInv, SessionTypeInv
<1>3. ASSUME NEW d \in Clients PROVE LoginKept(d)'
  BY <1>2 DEF SessionInv, LoginKept
<1> QED
  BY <1>1, <1>3 DEF SessionInv

\* A step in which a call of a client gets a session while none of the client's
\* calls, but perhaps this one, logs in; or loses one that came from the cache.
LEMMA ClientStep ==
    ASSUME SessionInv, NEW c \in Clients, NEW k \in Calls, NEW new \in CallRecords,
           NEW cl \in ClientRecords, new.pc # "login",
           \A j \in Calls \ {k} : call[c][j].pc = "login" => cl.sid = NoSid,
           cl.logins <= 1,
           cl.logins = 1 => cl.sid # NoSid /\ ~cl.fromCache,
           client' = [client EXCEPT ![c] = cl],
           call' = [call EXCEPT ![c] = [call[c] EXCEPT ![k] = new]],
           given' \in Nat, sidCache' \in [sid : Sids, left : Nat]
    PROVE  SessionInv'
<1>1. SessionTypeInv'
  BY DEF SessionInv, SessionTypeInv
<1>2. client'[c] = cl /\ \A d \in Clients \ {c} : client'[d] = client[d] /\ call'[d] = call[d]
  BY DEF SessionInv, SessionTypeInv
<1>3. \A j \in Calls : call'[c][j].pc = "login" => j # k /\ call[c][j].pc = "login"
  BY DEF SessionInv, SessionTypeInv
<1>4. LoginKept(c)'
  BY <1>2, <1>3 DEF SessionInv, LoginKept
<1>5. ASSUME NEW d \in Clients \ {c} PROVE LoginKept(d)'
  BY <1>2 DEF SessionInv, LoginKept
<1> QED
  BY <1>1, <1>4, <1>5 DEF SessionInv

\* What a call is after it was sent.
SentCall(c, k, cl) ==
    [call[c][k] EXCEPT !.pc = "sent", !.sid = cl.sid, !.cached = cl.fromCache]

LEMMA SentOk ==
    ASSUME SessionInv, NEW c \in Clients, NEW k \in Calls, NEW cl \in ClientRecords, Send(c, k, cl)
    PROVE  /\ SentCall(c, k, cl) \in CallRecords
           /\ SentCall(c, k, cl).pc # "login"
           /\ call' = [call EXCEPT ![c] = [call[c] EXCEPT ![k] = SentCall(c, k, cl)]]
<1>1. call[c][k] \in CallRecords
  BY DEF SessionInv, SessionTypeInv
<1>2. /\ SentCall(c, k, cl) \in CallRecords
      /\ SentCall(c, k, cl).pc = "sent"
  BY <1>1 DEF SentCall, CallRecords, ClientRecords, CallStages
<1>3. call' = [call EXCEPT ![c] = [call[c] EXCEPT ![k] = SentCall(c, k, cl)]]
  BY DEF Send, SentCall, SessionInv, SessionTypeInv, CallRecords
<1> QED
  BY <1>2, <1>3

LEMMA StageOk ==
    ASSUME SessionInv, NEW c \in Clients, NEW k \in Calls, NEW stage \in CallStages,
           call' = [call EXCEPT ![c][k].pc = stage]
    PROVE  /\ [call[c][k] EXCEPT !.pc = stage] \in CallRecords
           /\ [call[c][k] EXCEPT !.pc = stage].pc = stage
           /\ call' = [call EXCEPT ![c] = [call[c] EXCEPT ![k] = [call[c][k] EXCEPT !.pc = stage]]]
<1>1. call[c][k] \in CallRecords
  BY DEF SessionInv, SessionTypeInv
<1>2. [call[c][k] EXCEPT !.pc = stage] \in CallRecords
  BY <1>1 DEF CallRecords
<1>3. [call[c][k] EXCEPT !.pc = stage].pc = stage
  BY <1>1 DEF CallRecords
<1>4. call' = [call EXCEPT ![c] = [call[c] EXCEPT ![k] = [call[c][k] EXCEPT !.pc = stage]]]
  BY DEF SessionInv, SessionTypeInv
<1> QED
  BY <1>2, <1>3, <1>4

LEMMA BeginCallStep ==
    ASSUME SessionInv, NEW c \in Clients, NEW k \in Calls, BeginCall(c, k)
    PROVE  SessionInv'
<1>1. UNCHANGED <<given, sidCache, client>> /\ client[c] \in ClientRecords
  BY DEF BeginCall, SessionInv, SessionTypeInv
<1>2. CASE client[c].sid # NoSid
  BY <1>1, <1>2, SentOk, CallStep DEF BeginCall
<1>3. CASE client[c].sid = NoSid
  <2>1. call' = [call EXCEPT ![c][k].pc = "locking"] /\ "locking" \in CallStages
    BY <1>3 DEF BeginCall, CallStages
  <2> DEFINE new == [call[c][k] EXCEPT !.pc = "locking"]
  <2>2. new \in CallRecords /\ new.pc = "locking"
    <3>1. call[c][k] \in CallRecords
      BY DEF SessionInv, SessionTypeInv
    <3> QED
      BY <3>1 DEF CallRecords, CallStages
  <2>3. call' = [call EXCEPT ![c] = [call[c] EXCEPT ![k] = new]]
    BY <2>1 DEF SessionInv, SessionTypeInv
  <2> HIDE DEF new
  <2> QED
    BY <1>1, <2>2, <2>3, CallStep
<1> QED
  BY <1>2, <1>3

LEMMA EndStep ==
    ASSUME SessionInv, NEW c \in Clients, NEW k \in Calls, NEW stage \in {"done", "refused", "failed"},
           call' = [call EXCEPT ![c][k].pc = stage],
           UNCHANGED <<given, sidCache, client>>
    PROVE  SessionInv'
BY StageOk, CallStep DEF CallStages

LEMMA RefusedStep ==
    ASSUME SessionInv, NEW c \in Clients, NEW k \in Calls, Refused(c, k)
    PROVE  SessionInv'
<1>1. CASE ~Retry(c, k)
  BY <1>1, EndStep DEF Refused
<1>2. CASE Retry(c, k)
  <2> DEFINE cl == [client[c] EXCEPT !.sid = NoSid, !.fromCache = FALSE]
             new == [call[c][k] EXCEPT !.pc = "locking", !.retried = TRUE]
  <2>1. client[c] \in ClientRecords /\ call[c][k] \in CallRecords
    BY DEF SessionInv, SessionTypeInv
  <2>2. cl \in ClientRecords /\ cl.sid = NoSid /\ cl.logins = client[c].logins
    BY <2>1 DEF ClientRecords, Sids
  <2>3. new \in CallRecords /\ new.pc = "locking"
    BY <2>1 DEF CallRecords, CallStages
  <2>4. cl.logins <= 1 /\ cl.logins # 1
    BY <1>2, <2>2 DEF Retry, SessionInv, LoginKept
  <2>5. /\ client' = [client EXCEPT ![c] = cl]
        /\ call' = [call EXCEPT ![c] = [call[c] EXCEPT ![k] = new]]
    BY <1>2 DEF Refused, SessionInv, SessionTypeInv, ClientRecords, CallRecords
  <2>6. given' \in Nat /\ sidCache' \in [sid : Sids, left : Nat]
    BY <1>2 DEF Refused, SessionInv, SessionTypeInv, NoEntry, Sids
  <2> HIDE DEF cl, new
  <2> QED
    BY <2>2, <2>3, <2>4, <2>5, <2>6, ClientStep
<1> QED
  BY <1>1, <1>2

LEMMA HasSidStep ==
    ASSUME SessionInv, NEW c \in Clients, NEW k \in Calls, HasSid(c, k)
    PROVE  SessionInv'
<1>1. client[c] \in ClientRecords
  BY DEF SessionInv, SessionTypeInv
<1> QED
  BY <1>1, SentOk, CallStep DEF HasSid

LEMMA CacheHitStep ==
    ASSUME SessionInv, NEW c \in Clients, NEW k \in Calls, CacheHit(c, k)
    PROVE  SessionInv'
<1> DEFINE cl == [client[c] EXCEPT !.sid = sidCache.sid, !.fromCache = TRUE]
<1>1. client[c] \in ClientRecords /\ sidCache \in [sid : Sids, left : Nat] /\ given \in Nat
  BY DEF SessionInv, SessionTypeInv
<1>2. cl \in ClientRecords /\ cl.logins = client[c].logins
  BY <1>1 DEF ClientRecords
<1>3. client' = [client EXCEPT ![c] = cl] /\ client'[c] = cl
  BY DEF CacheHit, SessionInv, SessionTypeInv, ClientRecords
<1>4. cl.logins <= 1 /\ cl.logins # 1
  BY <1>2 DEF CacheHit, SessionInv, LoginKept
<1>5. Send(c, k, cl) /\ UNCHANGED <<given, sidCache>>
  BY <1>3 DEF CacheHit
<1>6. \A j \in Calls : call[c][j].pc # "login"
  BY DEF CacheHit, SidLockFree
<1> HIDE DEF cl
<1> QED
  <2>1. /\ SentCall(c, k, cl) \in CallRecords /\ SentCall(c, k, cl).pc # "login"
        /\ call' = [call EXCEPT ![c] = [call[c] EXCEPT ![k] = SentCall(c, k, cl)]]
    BY <1>2, <1>5, SentOk
  <2>2. given' \in Nat /\ sidCache' \in [sid : Sids, left : Nat]
    BY <1>1, <1>5
  <2> QED
    BY <1>2, <1>3, <1>4, <1>6, <2>1, <2>2, ClientStep

LEMMA StartLoginStep ==
    ASSUME SessionInv, NEW c \in Clients, NEW k \in Calls, StartLogin(c, k)
    PROVE  SessionInv'
<1>1. /\ call' = [call EXCEPT ![c][k].pc = "login"]
      /\ client[c].sid = NoSid /\ \A j \in Calls : call[c][j].pc # "login"
      /\ UNCHANGED <<given, sidCache, client>>
  BY DEF StartLogin, SidLockFree
<1>2. SessionTypeInv'
  <2>1. /\ [call[c][k] EXCEPT !.pc = "login"] \in CallRecords
        /\ call' = [call EXCEPT ![c] = [call[c] EXCEPT ![k] = [call[c][k] EXCEPT !.pc = "login"]]]
    BY <1>1, StageOk DEF CallStages
  <2> QED
    BY <1>1, <2>1 DEF SessionInv, SessionTypeInv
<1>3. \A d \in Clients, j \in Calls :
          (d # c \/ j # k) => call'[d][j].pc = call[d][j].pc
  BY <1>1 DEF SessionInv, SessionTypeInv, CallRecords
<1>4. LoginKept(c)'
  BY <1>1, <1>3 DEF SessionInv, LoginKept
<1>5. ASSUME NEW d \in Clients \ {c} PROVE LoginKept(d)'
  BY <1>1, <1>3 DEF SessionInv, LoginKept
<1> QED
  BY <1>2, <1>4, <1>5 DEF SessionInv

LEMMA LoginStep ==
    ASSUME SessionInv, NEW c \in Clients, NEW k \in Calls, Login(c, k)
    PROVE  SessionInv'
<1> DEFINE cl == LoggedIn(client[c], given')
<1>1. client[c] \in ClientRecords /\ given \in Nat /\ given' = given + 1
  BY DEF Login, SessionInv, SessionTypeInv
<1>2. client[c].sid = NoSid /\ client[c].logins = 0
  BY <1>1 DEF Login, SessionInv, LoginKept, ClientRecords
<1>3. /\ cl \in ClientRecords /\ cl.logins = 1
      /\ cl.sid # NoSid /\ ~cl.fromCache
  BY <1>1, <1>2, SessionAssumption DEF LoggedIn, ClientRecords, Sids
<1>4. client' = [client EXCEPT ![c] = cl] /\ client'[c] = cl
  BY DEF Login, SessionInv, SessionTypeInv
<1>5. \A j \in Calls \ {k} : call[c][j].pc # "login"
  BY DEF Login, SessionInv, LoginKept
<1>6. sidCache' \in [sid : Sids, left : Nat]
  BY <1>1, SessionAssumption DEF Login, SessionInv, SessionTypeInv, Sids
<1>7. Send(c, k, cl)
  BY <1>4 DEF Login
<1> HIDE DEF cl
<1> QED
  <2>1. /\ SentCall(c, k, cl) \in CallRecords /\ SentCall(c, k, cl).pc # "login"
        /\ call' = [call EXCEPT ![c] = [call[c] EXCEPT ![k] = SentCall(c, k, cl)]]
    BY <1>3, <1>7, SentOk
  <2>2. given' \in Nat
    BY <1>1
  <2>3. cl.logins <= 1
    BY <1>3
  <2> QED
    BY <1>3, <1>4, <1>5, <1>6, <2>1, <2>2, <2>3, ClientStep

LEMMA NextRequestStep ==
    ASSUME SessionInv, NEW c \in Clients, NextRequest(c)
    PROVE  SessionInv'
<1>1. /\ client' = [client EXCEPT ![c] = NewClient]
      /\ call' = [call EXCEPT ![c] = [k \in Calls |-> NewCall]]
      /\ UNCHANGED <<given, sidCache>>
  BY DEF NextRequest
<1>2. SessionTypeInv'
  BY <1>1 DEF SessionInv, SessionTypeInv, NewClient, NewCall, ClientRecords, CallRecords, CallStages, Sids
<1>3. /\ client'[c] = NewClient /\ call'[c] = [k \in Calls |-> NewCall]
      /\ \A d \in Clients \ {c} : client'[d] = client[d] /\ call'[d] = call[d]
  BY <1>1 DEF SessionInv, SessionTypeInv
<1>4. LoginKept(c)'
  BY <1>3 DEF LoginKept, NewClient, NewCall
<1>5. ASSUME NEW d \in Clients \ {c} PROVE LoginKept(d)'
  BY <1>3 DEF SessionInv, LoginKept
<1> QED
  BY <1>2, <1>4, <1>5 DEF SessionInv

LEMMA SessionStepInv == SessionInv /\ [SessionNext]_sessionVars => SessionInv'
<1> SUFFICES ASSUME SessionInv, [SessionNext]_sessionVars PROVE SessionInv'
  OBVIOUS
<1>1. CASE SessionExpires
  BY <1>1 DEF SessionExpires, SessionInv, SessionTypeInv, LoginKept
<1>2. CASE EntryAges
  <2>1. sidCache' \in [sid : Sids, left : Nat]
    BY <1>2 DEF EntryAges, SessionInv, SessionTypeInv
  <2> QED
    BY <1>2, <2>1 DEF EntryAges, SessionInv, SessionTypeInv, LoginKept
<1>3. ASSUME NEW c \in Clients, NextRequest(c) PROVE SessionInv'
  BY <1>3, NextRequestStep
<1>4. ASSUME NEW c \in Clients, NEW k \in Calls,
             BeginCall(c, k) \/ Answered(c, k) \/ Fails(c, k) \/ Refused(c, k)
      PROVE  SessionInv'
  <2>1. CASE Answered(c, k) \/ Fails(c, k)
    BY <2>1, EndStep DEF Answered, Fails
  <2> QED
    BY <1>4, <2>1, BeginCallStep, RefusedStep
<1>5. ASSUME NEW c \in Clients, NEW k \in Calls,
             HasSid(c, k) \/ CacheHit(c, k) \/ StartLogin(c, k) \/ Login(c, k) \/ LoginFails(c, k)
      PROVE  SessionInv'
  <2>1. CASE LoginFails(c, k)
    BY <2>1, EndStep DEF LoginFails
  <2> QED
    BY <1>5, <2>1, HasSidStep, CacheHitStep, StartLoginStep, LoginStep
<1>6. CASE UNCHANGED sessionVars
  BY <1>6 DEF sessionVars, SessionInv, SessionTypeInv, LoginKept
<1> QED
  BY <1>1, <1>2, <1>3, <1>4, <1>5, <1>6 DEF SessionNext

\* However many calls a request sends at once, and whatever sessions the CRM
\* forgets meanwhile, its client logs in at most once (app/services/crm_client.py,
\* _ensure_coripo_sid and _coripo_request_response).
THEOREM LoginOnce == SessionSpec => []OneLoginPerClient
<1>1. SessionInv => OneLoginPerClient
  BY DEF SessionInv, LoginKept, OneLoginPerClient
<1> QED
  BY <1>1, SessionInitInv, SessionStepInv, PTL DEF SessionSpec

-----------------------------------------------------------------------------
(* TenantCaches.  How old what is kept is cannot be seen in the cache: an      *)
(* entry counts from the end of its load, or from its start.  The invariant    *)
(* bounds the age of what a lookup read by the time it took, and the age of an *)
(* entry together with what is left of it by Bound, in whatever order the      *)
(* overlapping lookups store.                                                  *)

CacheEntries == [value : Found, left : Nat]
LookupRecords == [pc : {"idle", "loading", "read"}, value : Found, took : 0..LoadMax]

CacheTypeInv ==
    /\ kind \in Kinds /\ source \in Found
    /\ gone \in [Found -> Nat]
    /\ cache \in CacheEntries \union {Nothing}
    /\ lookup \in [Lookups -> LookupRecords]
    /\ outdated \in Nat

\* Between its start and its end a lookup holds what was the source's at some moment.
ReadRecently ==
    /\ gone[source] = 0
    /\ \A l \in Lookups : lookup[l].pc = "read" => gone[lookup[l].value] <= lookup[l].took

KeptRecently == cache # Nothing /\ cache.left > 0 => gone[cache.value] + cache.left <= Bound

CacheInv == CacheTypeInv /\ ReadRecently /\ KeptRecently /\ ServedRecently

LEMMA BoundLarge == /\ Bound \in Nat /\ Ttl <= Bound /\ LoadMax <= Bound
                    /\ kind # "catalog" => Bound = Ttl + LoadMax
BY CacheAssumption DEF Bound

LEMMA AgedNat == \A n \in Nat : Aged(n) \in Nat /\ Aged(n) <= n + 1
BY CacheAssumption DEF Aged, Oldest

LEMMA CacheInitInv == CacheInit => CacheInv
<1> SUFFICES ASSUME CacheInit PROVE CacheInv
  OBVIOUS
<1>1. CacheTypeInv
  BY CacheAssumption DEF CacheInit, CacheTypeInv, Oldest, NoLookup, LookupRecords, Found
<1>2. ReadRecently /\ KeptRecently
  BY DEF CacheInit, ReadRecently, KeptRecently, NoLookup
<1>3. ServedRecently
  BY BoundLarge DEF CacheInit, ServedRecently
<1> QED
  BY <1>1, <1>2, <1>3 DEF CacheInv

\* What a lookup that stores keeps, and what it answers.
LEMMA StoresStep ==
    ASSUME CacheInv, NEW l \in Lookups, Stores(l)
    PROVE  CacheInv'
<1> DEFINE q == lookup[l]
<1>1. q \in LookupRecords /\ gone[q.value] \in Nat /\ gone[q.value] <= q.took
  BY DEF Stores, CacheInv, CacheTypeInv, ReadRecently, LookupRecords
<1>2. q.took \in Nat /\ q.took <= LoadMax /\ q.value \in Found
  BY <1>1, CacheAssumption DEF LookupRecords
<1>3. Left(q) \in Nat /\ (Left(q) > 0 => gone[q.value] + Left(q) <= Bound)
  BY <1>1, <1>2, BoundLarge, CacheAssumption DEF Left
<1>4. lookup' \in [Lookups -> LookupRecords]
  BY CacheAssumption DEF Stores, CacheInv, CacheTypeInv, LookupRecords, NoLookup, Found
<1>5. cache' = cache \/ cache' = [value |-> q.value, left |-> Left(q)]
  BY DEF Stores
<1>6. UNCHANGED <<kind, source, gone>> /\ outdated' = gone[q.value] /\ Bound' = Bound
  BY DEF Stores, Bound
<1>7. CacheTypeInv'
  BY <1>1, <1>2, <1>3, <1>4, <1>5, <1>6 DEF CacheInv, CacheTypeInv, CacheEntries
<1>8. ReadRecently'
  <2>1. \A k \in Lookups : lookup'[k] = lookup[k] \/ lookup'[k].pc = "idle"
    BY DEF Stores, CacheInv, CacheTypeInv, NoLookup
  <2> QED
    BY <2>1, <1>6 DEF CacheInv, ReadRecently
<1>9. KeptRecently'
  BY <1>3, <1>5, <1>6 DEF CacheInv, KeptRecently
<1>10. ServedRecently'
  BY <1>1, <1>2, <1>6, BoundLarge, CacheAssumption DEF ServedRecently
<1> QED
  BY <1>7, <1>8, <1>9, <1>10 DEF CacheInv

\* Every age grows by at most one, while what is left shrinks and loads go on.
LEMMA CacheTickStep ==
    ASSUME CacheInv, CacheTick
    PROVE  CacheInv'
<1>1. UNCHANGED <<kind, source, outdated>> /\ Bound' = Bound /\ source \in Found
  BY DEF CacheTick, Bound, CacheInv, CacheTypeInv
<1>2. /\ gone' \in [Found -> Nat] /\ gone'[source] = 0
      /\ \A v \in Found : gone'[v] <= gone[v] + 1
  BY AgedNat DEF CacheTick, CacheInv, CacheTypeInv
<1>3. ASSUME NEW l \in Lookups
      PROVE  /\ lookup'[l] \in LookupRecords
             /\ lookup'[l].pc = "read" => gone'[lookup'[l].value] <= lookup'[l].took
  <2>1. lookup[l] \in LookupRecords /\ lookup[l].took < LoadMax
    BY DEF CacheTick, CacheInv, CacheTypeInv
  <2>2. CASE lookup[l].pc = "idle"
    BY <2>1, <2>2 DEF CacheTick
  <2>3. CASE lookup[l].pc # "idle"
    <3>1. lookup'[l] = [lookup[l] EXCEPT !.took = @ + 1]
      BY <2>3 DEF CacheTick
    <3>2. lookup'[l] \in LookupRecords
      BY <2>1, <3>1, CacheAssumption DEF LookupRecords
    <3>3. /\ lookup'[l].pc = lookup[l].pc /\ lookup'[l].value = lookup[l].value
          /\ lookup'[l].took = lookup[l].took + 1 /\ lookup[l].took \in Nat
          /\ lookup[l].value \in Found
      BY <2>1, <3>1, CacheAssumption DEF LookupRecords
    <3>4. gone[lookup[l].value] \in Nat /\ gone'[lookup[l].value] \in Nat
      BY <3>3, <1>2 DEF CacheInv, CacheTypeInv
    <3>5. lookup[l].pc = "read" => gone[lookup[l].value] <= lookup[l].took
      BY DEF CacheInv, ReadRecently
    <3> QED
      BY <3>2, <3>3, <3>4, <3>5, <1>2
  <2> QED
    BY <2>2, <2>3
<1>4. lookup' \in [Lookups -> LookupRecords]
  BY <1>3 DEF CacheTick
<1>5. ReadRecently'
  BY <1>1, <1>2, <1>3 DEF ReadRecently
<1>6. cache' \in CacheEntries \union {Nothing} /\ KeptRecently'
  <2>1. CASE cache = Nothing
    BY <2>1 DEF CacheTick, KeptRecently
  <2>2. CASE cache # Nothing
    <3>1. cache' = [cache EXCEPT !.left = IF @ > 0 THEN @ - 1 ELSE 0]
      BY <2>2 DEF CacheTick
    <3>2. cache \in CacheEntries
      BY <2>2 DEF CacheInv, CacheTypeInv
    <3>3. /\ cache' \in CacheEntries /\ cache'.value = cache.value
          /\ cache.left \in Nat /\ cache.value \in Found
          /\ cache'.left = IF cache.left > 0 THEN cache.left - 1 ELSE 0
      BY <3>1, <3>2 DEF CacheEntries
    <3>4. cache.left > 0 => gone[cache.value] + cache.left <= Bound
      BY <2>2 DEF CacheInv, KeptRecently
    <3>5. gone[cache.value] \in Nat /\ gone'[cache.value] \in Nat
      BY <3>3, <1>2 DEF CacheInv, CacheTypeInv
    <3>6. cache'.left > 0 => gone'[cache'.value] + cache'.left <= Bound
      BY <3>3, <3>4, <3>5, <1>2, BoundLarge
    <3> QED
      BY <3>3, <3>6, <1>1 DEF KeptRecently
  <2> QED
    BY <2>1, <2>2
<1>7. ServedRecently'
  BY <1>1 DEF CacheInv, ServedRecently
<1> QED
  BY <1>1, <1>2, <1>4, <1>5, <1>6, <1>7 DEF CacheInv, CacheTypeInv

LEMMA CacheStepInv == CacheInv /\ [CacheNext]_cacheVars => CacheInv'
<1> SUFFICES ASSUME CacheInv, [CacheNext]_cacheVars PROVE CacheInv'
  OBVIOUS
<1>1. CASE CacheTick
  BY <1>1, CacheTickStep
<1>2. CASE Invalidate
  BY <1>2 DEF Invalidate, CacheInv, CacheTypeInv, ReadRecently, KeptRecently, ServedRecently, Bound
<1>3. CASE SourceChanges
  <2>1. /\ gone' \in [Found -> Nat] /\ gone'[source'] = 0 /\ source' \in Found
        /\ \A v \in Found : gone'[v] <= gone[v]
    BY <1>3 DEF SourceChanges, CacheInv, CacheTypeInv
  <2>2. UNCHANGED <<kind, cache, lookup, outdated>> /\ Bound' = Bound
    BY <1>3 DEF SourceChanges, Bound
  <2>3. CacheTypeInv' /\ ServedRecently'
    BY <2>1, <2>2 DEF CacheInv, CacheTypeInv, ServedRecently
  <2>4. ReadRecently'
    <3> SUFFICES ASSUME NEW l \in Lookups, lookup[l].pc = "read"
                 PROVE  gone'[lookup[l].value] <= lookup[l].took
      BY <2>1, <2>2 DEF ReadRecently
    <3>1. lookup[l].value \in Found /\ lookup[l].took \in Nat
      BY CacheAssumption DEF CacheInv, CacheTypeInv, LookupRecords
    <3>2. gone[lookup[l].value] <= lookup[l].took
      BY DEF CacheInv, ReadRecently
    <3>3. gone[lookup[l].value] \in Nat /\ gone'[lookup[l].value] \in Nat
      BY <2>1, <3>1 DEF CacheInv, CacheTypeInv
    <3> QED
      BY <2>1, <3>1, <3>2, <3>3
  <2>5. KeptRecently'
    <3> SUFFICES ASSUME cache # Nothing, cache.left > 0
                 PROVE  gone'[cache.value] + cache.left <= Bound
      BY <2>2 DEF KeptRecently
    <3>1. cache.value \in Found /\ cache.left \in Nat
      BY DEF CacheInv, CacheTypeInv, CacheEntries
    <3>2. gone[cache.value] \in Nat /\ gone'[cache.value] \in Nat
      BY <2>1, <3>1 DEF CacheInv, CacheTypeInv
    <3> QED
      BY <2>1, <3>1, <3>2, BoundLarge DEF CacheInv, KeptRecently
  <2> QED
    BY <2>3, <2>4, <2>5 DEF CacheInv
<1>4. ASSUME NEW l \in Lookups, Hit(l) PROVE CacheInv'
  <2>1. cache \in CacheEntries /\ cache.left > 0 /\ gone[cache.value] + cache.left <= Bound
    BY <1>4 DEF Hit, CacheInv, CacheTypeInv, KeptRecently
  <2>2. cache.left \in Nat /\ gone[cache.value] \in Nat
    BY <2>1 DEF CacheEntries, CacheInv, CacheTypeInv
  <2>3. outdated' \in Nat /\ outdated' <= Bound
    BY <1>4, <2>1, <2>2, BoundLarge DEF Hit
  <2> QED
    BY <1>4, <2>3 DEF Hit, CacheInv, CacheTypeInv, ReadRecently, KeptRecently, ServedRecently, Bound
<1>5. ASSUME NEW l \in Lookups, Miss(l) \/ LookupFails(l) PROVE CacheInv'
  <2>1. /\ lookup' \in [Lookups -> LookupRecords]
        /\ \A k \in Lookups : lookup'[k] = lookup[k] \/ lookup'[k].pc # "read"
    BY <1>5, CacheAssumption DEF Miss, LookupFails, CacheInv, CacheTypeInv, LookupRecords, NoLookup,
                                 Found
  <2>2. UNCHANGED <<kind, source, gone, cache, outdated>>
    BY <1>5 DEF Miss, LookupFails
  <2> QED
    BY <2>1, <2>2 DEF CacheInv, CacheTypeInv, ReadRecently, KeptRecently, ServedRecently, Bound
<1>6. ASSUME NEW l \in Lookups, Reads(l) PROVE CacheInv'
  <2>1. /\ lookup' = [lookup EXCEPT ![l].pc = "read", ![l].value = source]
        /\ UNCHANGED <<kind, source, gone, cache, outdated>>
    BY <1>6 DEF Reads
  <2>2. lookup[l] \in LookupRecords /\ source \in Found /\ gone[source] = 0
    BY DEF CacheInv, CacheTypeInv, ReadRecently
  <2>3. lookup'[l] = [lookup[l] EXCEPT !.pc = "read", !.value = source]
    BY <2>1 DEF CacheInv, CacheTypeInv
  <2>4. /\ lookup'[l] \in LookupRecords /\ lookup'[l].value = source
        /\ lookup'[l].took \in Nat /\ gone[source] <= lookup'[l].took
    <3>1. lookup'[l] = [pc |-> "read", value |-> source, took |-> lookup[l].took]
      BY <2>2, <2>3 DEF LookupRecords
    <3>2. lookup[l].took \in 0..LoadMax
      BY <2>2 DEF LookupRecords
    <3> QED
      BY <2>2, <3>1, <3>2, CacheAssumption DEF LookupRecords
  <2>5. \A k \in Lookups : k # l => lookup'[k] = lookup[k]
    BY <2>1 DEF CacheInv, CacheTypeInv
  <2>6. CacheTypeInv'
    BY <2>1, <2>4 DEF CacheInv, CacheTypeInv
  <2>7. ReadRecently'
    <3> SUFFICES ASSUME NEW k \in Lookups, lookup'[k].pc = "read"
                 PROVE  gone[lookup'[k].value] <= lookup'[k].took
      BY <2>1, <2>2 DEF ReadRecently
    <3>1. CASE k = l
      BY <3>1, <2>4
    <3>2. CASE k # l
      BY <3>2, <2>5 DEF CacheInv, ReadRecently
    <3> QED
      BY <3>1, <3>2
  <2> QED
    BY <2>1, <2>6, <2>7 DEF CacheInv, KeptRecently, ServedRecently, Bound
<1>7. ASSUME NEW l \in Lookups, Stores(l) PROVE CacheInv'
  BY <1>7, StoresStep
<1>8. CASE UNCHANGED cacheVars
  BY <1>8 DEF cacheVars, CacheInv, CacheTypeInv, ReadRecently, KeptRecently, ServedRecently, Bound
<1> QED
  BY <1>1, <1>2, <1>3, <1>4, <1>5, <1>6, <1>7, <1>8 DEF CacheNext

\* Nothing a tenant's caches answer with had been replaced for longer than its
\* life and one load, whatever lookups overlapped (app/services/tenant_manager.py,
\* tenant_llm.py, module_catalog.py).
THEOREM CachesServeRecent == CacheSpec => []ServedRecently
<1>1. CacheInv => ServedRecently
  BY DEF CacheInv
<1> QED
  BY <1>1, CacheInitInv, CacheStepInv, PTL DEF CacheSpec

-----------------------------------------------------------------------------
(* Briefings *)

AskerPlaces == Holding \union {"idle", "locking"}
AskerRecords ==
    [pc : AskerPlaces, key : Views \union {NoBriefing}, refresh : BOOLEAN, now : Nat,
     partial : BOOLEAN, full : BOOLEAN]

\* What a request that collects unasked has seen: an hour full of messages, or one
\* with no briefing under its key that a request stored.
MayCollect(q) == q.refresh \/ q.full \/ \A m \in Matching(q) : m.restored

\* The holder of a key's lock is the only one to store under that key.  So from
\* its look at the messages to its end none appears that would have done.
BriefingInv ==
    /\ view \in Views /\ clock \in Nat
    /\ IsFiniteSet(messages)
    /\ asker \in [Askers -> AskerRecords]
    /\ \A r \in Askers : asker[r].pc # "idle" => asker[r].key \in Views
    /\ \A r, o \in Askers :
          asker[r].pc \in Holding /\ asker[o].pc \in Holding /\ asker[r].key = asker[o].key => r = o
    /\ \A r \in Askers :
          asker[r].pc \in {"collecting", "phrasing", "storing"} => MayCollect(asker[r])

LEMMA BriefingInitInv == BriefingInit => BriefingInv
BY FS_EmptySet DEF BriefingInit, BriefingInv, NotAsking, AskerRecords, AskerPlaces, Holding

\* Unless as many messages were found as are looked at, a request that finds no
\* briefing under its key has seen every message of the hour.
LEMMA NoneFound ==
    ASSUME IsFiniteSet(messages), NEW q, NoneRecent(q),
           ~(Cardinality(InHour(q)) >= LookedAt)
    PROVE  Matching(q) = {}
<1>1. SUFFICES ASSUME NEW m \in Matching(q) PROVE FALSE
    OBVIOUS
<1> DEFINE asNew == {o \in InHour(q) \ Matching(q) : o.at >= m.at}
<1>2. Cardinality(asNew) >= LookedAt
    BY <1>1 DEF NoneRecent
<1>3. InHour(q) \subseteq messages /\ asNew \subseteq InHour(q)
    BY DEF InHour
<1> HIDE DEF asNew
<1>4. IsFiniteSet(InHour(q)) /\ IsFiniteSet(asNew)
    BY <1>3, FS_Subset
<1>5. Cardinality(asNew) <= Cardinality(InHour(q))
    BY <1>3, <1>4, FS_Subset
<1>6. Cardinality(asNew) \in Nat /\ Cardinality(InHour(q)) \in Nat /\ LookedAt \in Nat
    BY <1>4, FS_CardinalityType, BriefingAssumption
<1>. QED BY <1>2, <1>5, <1>6

\* One request goes on; nothing is stored.
LEMMA BriefingGoesOn ==
    ASSUME BriefingInv, NEW r \in Askers, NEW q \in AskerRecords,
           asker' = [asker EXCEPT ![r] = q], UNCHANGED <<view, clock, messages>>,
           q.pc # "idle" => q.key \in Views,
           q.pc \in Holding => \/ asker[r].pc \in Holding /\ asker[r].key = q.key
                               \/ LockFree(q.key),
           q.pc \in {"collecting", "phrasing", "storing"} => MayCollect(q)
    PROVE  BriefingInv'
<1>1. asker' \in [Askers -> AskerRecords] /\ asker'[r] = q
    BY DEF BriefingInv
<1>2. \A o \in Askers : o # r => asker'[o] = asker[o]
    BY DEF BriefingInv
<1>3. \A o \in Askers : o # r => ~(asker[o].pc \in Holding /\ q.pc \in Holding /\ asker[o].key = q.key)
    BY DEF BriefingInv, LockFree
<1>4. \A o, p \in Askers :
          asker'[o].pc \in Holding /\ asker'[p].pc \in Holding /\ asker'[o].key = asker'[p].key
          => o = p
    BY <1>1, <1>2, <1>3 DEF BriefingInv
<1>5. \A o \in Askers : asker'[o].pc # "idle" => asker'[o].key \in Views
    BY <1>1, <1>2 DEF BriefingInv
<1>6. \A o \in Askers :
          asker'[o].pc \in {"collecting", "phrasing", "storing"} => MayCollect(asker[o])'
    BY <1>1, <1>2 DEF BriefingInv, MayCollect, Matching, InHour
<1>. QED BY <1>1, <1>4, <1>5, <1>6 DEF BriefingInv

\* The messages change, and bring no request's briefing under a key.
LEMMA StillMayCollect ==
    ASSUME NEW q, MayCollect(q),
           \A m \in messages' \ messages : m.restored \/ m.key # q.key
    PROVE  q.refresh \/ q.full \/ \A m \in messages' :
               q.now <= m.at + Hour /\ m.key = q.key => m.restored
BY DEF MayCollect, Matching, InHour

LEMMA MessagesChange ==
    ASSUME BriefingInv, UNCHANGED <<view, clock, asker>>, IsFiniteSet(messages'),
           \A m \in messages' \ messages : m.restored \/ m.key = NoBriefing
    PROVE  BriefingInv'
<1>1. \A o \in Askers :
          asker'[o].pc \in {"collecting", "phrasing", "storing"} => MayCollect(asker[o])'
    <2>. SUFFICES ASSUME NEW o \in Askers,
                         asker[o].pc \in {"collecting", "phrasing", "storing"}
                  PROVE  MayCollect(asker[o])'
        OBVIOUS
    <2>1. asker[o].key \in Views /\ MayCollect(asker[o])
        BY DEF BriefingInv
    <2>2. \A m \in messages' \ messages : m.restored \/ m.key # asker[o].key
        BY <2>1, BriefingAssumption
    <2>. QED BY <2>1, <2>2, StillMayCollect DEF MayCollect, Matching, InHour
<1>. QED BY <1>1 DEF BriefingInv

\* The holder stores under its own key and lets go of the lock.
LEMMA BriefingStored ==
    ASSUME BriefingInv, NEW r \in Askers, Store(r)
    PROVE  BriefingInv'
<1>1. /\ asker[r].pc = "storing" /\ asker[r].key \in Views
      /\ asker' = [asker EXCEPT ![r] = NotAsking]
    BY DEF Store, Leave, BriefingInv
<1>2. /\ IsFiniteSet(messages')
      /\ \A m \in messages' \ messages : m.key \in {asker[r].key, NoBriefing}
    <2>1. PICK key \in {asker[r].key, NoBriefing} :
              messages' = messages \union {NewMessage(key, asker[r].now, FALSE)}
        BY DEF Store
    <2>2. NewMessage(key, asker[r].now, FALSE).key = key
        BY DEF NewMessage
    <2>. QED BY <2>1, <2>2, FS_AddElement DEF BriefingInv
<1>4. NotAsking \in AskerRecords /\ NotAsking.pc = "idle"
    BY DEF NotAsking, AskerRecords, AskerPlaces
<1>5. asker' \in [Askers -> AskerRecords] /\ asker'[r] = NotAsking
      /\ \A o \in Askers : o # r => asker'[o] = asker[o]
    BY <1>1, <1>4 DEF BriefingInv
<1>6. \A o \in Askers : asker'[o].pc \in Holding =>
          o # r /\ asker[o].pc \in Holding /\ asker[o].key # asker[r].key
    BY <1>1, <1>4, <1>5 DEF BriefingInv, Holding
<1>7. \A o \in Askers :
          asker'[o].pc \in {"collecting", "phrasing", "storing"} => MayCollect(asker[o])'
    <2>. SUFFICES ASSUME NEW o \in Askers, asker'[o].pc \in {"collecting", "phrasing", "storing"}
                  PROVE  MayCollect(asker[o])'
        OBVIOUS
    <2>1. /\ asker'[o] = asker[o] /\ asker[o].key # asker[r].key /\ asker[o].key \in Views
          /\ MayCollect(asker[o])
        BY <1>5, <1>6 DEF BriefingInv, Holding
    <2>2. \A m \in messages' \ messages : m.restored \/ m.key # asker[o].key
        BY <1>2, <2>1, BriefingAssumption
    <2>. QED BY <2>1, <2>2, StillMayCollect DEF MayCollect, Matching, InHour
<1>8. \A o, p \in Askers :
          asker'[o].pc \in Holding /\ asker'[p].pc \in Holding /\ asker'[o].key = asker'[p].key
          => o = p
    BY <1>5, <1>6 DEF BriefingInv
<1>9. \A o \in Askers : asker'[o].pc # "idle" => asker'[o].key \in Views
    BY <1>4, <1>5 DEF BriefingInv
<1>. QED BY <1>2, <1>5, <1>7, <1>8, <1>9 DEF BriefingInv, Store

LEMMA BriefingStep == BriefingInv /\ [BriefingNext]_briefingVars => BriefingInv'
<1>. SUFFICES ASSUME BriefingInv, [BriefingNext]_briefingVars PROVE BriefingInv'
    OBVIOUS
<1>0. \A r \in Askers : asker[r] \in AskerRecords
    BY DEF BriefingInv
<1>1. ASSUME NEW r \in Askers, Ask(r)
      PROVE  BriefingInv'
    <2>1. PICK refresh \in BOOLEAN :
              asker' = [asker EXCEPT ![r] = [pc |-> "locking", key |-> view,
                                             refresh |-> refresh, now |-> clock,
                                             partial |-> FALSE, full |-> FALSE]]
        BY <1>1 DEF Ask
    <2>. DEFINE q == [pc |-> "locking", key |-> view, refresh |-> refresh, now |-> clock,
                      partial |-> FALSE, full |-> FALSE]
    <2>2. q \in AskerRecords /\ q.key \in Views /\ q.pc = "locking"
        BY DEF BriefingInv, AskerRecords, AskerPlaces
    <2>. HIDE DEF q
    <2>3. asker' = [asker EXCEPT ![r] = q]
        BY <2>1 DEF q
    <2>. QED BY <1>1, <2>2, <2>3, BriefingGoesOn DEF Ask, Holding
<1>2. ASSUME NEW r \in Askers, NEW next \in Holding, Goto(r, next),
             UNCHANGED <<view, clock, messages>>, asker[r].pc # "idle",
             next = "checking" => LockFree(asker[r].key),
             next = "checking" \/ asker[r].pc \in {"collecting", "phrasing"},
             next # "collecting"
      PROVE  BriefingInv'
    <2>. DEFINE q == asker'[r]
    <2>1. /\ asker' = [asker EXCEPT ![r] = q] /\ q \in AskerRecords
          /\ q.pc = next /\ q.key = asker[r].key /\ q.refresh = asker[r].refresh
          /\ q.now = asker[r].now /\ q.full = asker[r].full
        BY <1>0, <1>2 DEF BriefingInv, Goto, AskerRecords, AskerPlaces
    <2>2. q.key \in Views
        BY <1>2, <2>1 DEF BriefingInv
    <2>3. MayCollect(asker[r]) => MayCollect(q)
        BY <2>1 DEF MayCollect, Matching, InHour
    <2>4. q.pc \in Holding => \/ asker[r].pc \in Holding /\ asker[r].key = q.key
                              \/ LockFree(q.key)
        BY <1>2, <2>1 DEF Holding
    <2>5. q.pc \in {"collecting", "phrasing", "storing"} => MayCollect(q)
        BY <1>2, <2>1, <2>3 DEF BriefingInv
    <2>. HIDE DEF q
    <2>. QED BY <1>2, <2>1, <2>2, <2>4, <2>5, BriefingGoesOn
<1>3. ASSUME NEW r \in Askers, Collected(r)
      PROVE  BriefingInv'
    <2>1. PICK partial \in BOOLEAN :
              asker' = [asker EXCEPT ![r].pc = "phrasing", ![r].partial = partial]
        <3>1. PICK block \in [Blocks -> {"ok", "unavailable", "error"}] :
                  asker' = [asker EXCEPT ![r].pc = "phrasing",
                                         ![r].partial = \E b \in Blocks : block[b] = "error"]
            BY <1>3 DEF Collected
        <3>2. (\E b \in Blocks : block[b] = "error") \in BOOLEAN
            OBVIOUS
        <3>. QED BY <3>1, <3>2
    <2>. DEFINE q == asker'[r]
    <2>2. /\ asker' \in [Askers -> AskerRecords] /\ \A o \in Askers : o # r => asker'[o] = asker[o]
          /\ q.pc = "phrasing" /\ q.key = asker[r].key /\ q.refresh = asker[r].refresh
          /\ q.now = asker[r].now /\ q.full = asker[r].full
        BY <1>0, <2>1 DEF BriefingInv, AskerRecords, AskerPlaces, Holding
    <2>3. q \in AskerRecords /\ asker' = [asker EXCEPT ![r] = q]
        BY <2>2 DEF BriefingInv
    <2>. HIDE DEF q
    <2>4. q.key \in Views /\ asker[r].pc \in Holding /\ MayCollect(asker[r])
        BY <1>3, <2>2 DEF BriefingInv, Collected, Holding
    <2>5. MayCollect(q)
        BY <2>2, <2>4 DEF MayCollect, Matching, InHour
    <2>. QED BY <1>3, <2>2, <2>3, <2>4, <2>5, BriefingGoesOn DEF Collected
<1>4. ASSUME NEW r \in Askers, Leave(r), UNCHANGED <<view, clock, messages>>
      PROVE  BriefingInv'
    <2>1. NotAsking \in AskerRecords /\ NotAsking.pc = "idle"
        BY DEF NotAsking, AskerRecords, AskerPlaces
    <2>. QED BY <1>4, <2>1, BriefingGoesOn DEF Leave, Holding
<1>5. ASSUME ViewChanges \/ HourPasses \/ UNCHANGED briefingVars
      PROVE  BriefingInv'
    BY <1>5 DEF BriefingInv, ViewChanges, HourPasses, briefingVars, MayCollect, Matching, InHour
<1>6. ASSUME NEW r \in Askers, TakeLock(r) \/ Phrase(r) \/ PhraseFallback(r)
      PROVE  BriefingInv'
    BY <1>2, <1>6 DEF TakeLock, Phrase, PhraseFallback, Holding
<1>7. ASSUME NEW r \in Askers, StartCollecting(r)
      PROVE  BriefingInv'
    <2>1. PICK full \in BOOLEAN :
              /\ full = (Cardinality(InHour(asker[r])) >= LookedAt)
              /\ asker' = [asker EXCEPT ![r].pc = "collecting", ![r].full = full]
        <3>1. (Cardinality(InHour(asker[r])) >= LookedAt) \in BOOLEAN
            OBVIOUS
        <3>. QED BY <1>7, <3>1 DEF StartCollecting
    <2>. DEFINE q == asker'[r]
    <2>2. /\ asker' \in [Askers -> AskerRecords] /\ \A o \in Askers : o # r => asker'[o] = asker[o]
          /\ q.pc = "collecting" /\ q.key = asker[r].key /\ q.refresh = asker[r].refresh
          /\ q.now = asker[r].now /\ q.full = full
        BY <1>0, <2>1 DEF BriefingInv, AskerRecords, AskerPlaces, Holding
    <2>3. q \in AskerRecords /\ asker' = [asker EXCEPT ![r] = q]
        BY <2>2 DEF BriefingInv
    <2>. HIDE DEF q
    <2>4. q.key \in Views /\ asker[r].pc \in Holding
        BY <1>7, <2>2 DEF BriefingInv, StartCollecting, Holding
    <2>5. q.refresh \/ q.full \/ Matching(asker[r]) = {}
        BY <1>7, <2>1, <2>2, NoneFound DEF StartCollecting, BriefingInv
    <2>6. Matching(q) = Matching(asker[r])
        BY <2>2 DEF Matching, InHour
    <2>7. MayCollect(q)
        BY <2>5, <2>6 DEF MayCollect
    <2>. QED BY <1>7, <2>2, <2>3, <2>4, <2>7, BriefingGoesOn DEF StartCollecting
<1>8. ASSUME AssistantWrites PROVE BriefingInv'
    <2>1. NewMessage(NoBriefing, clock, FALSE).key = NoBriefing
        BY DEF NewMessage
    <2>. QED BY <1>8, <2>1, FS_AddElement, MessagesChange DEF AssistantWrites, BriefingInv
<1>9. ASSUME Deleted PROVE BriefingInv'
    BY <1>9, FS_Subset, MessagesChange DEF Deleted, BriefingInv
<1>10. ASSUME Replaced PROVE BriefingInv'
    <2>1. PICK m \in messages, key \in Views \union {NoBriefing} :
              messages' = (messages \ {m}) \union {NewMessage(key, clock, key # NoBriefing)}
        BY <1>10 DEF Replaced
    <2>2. LET new == NewMessage(key, clock, key # NoBriefing)
          IN  new.restored \/ new.key = NoBriefing
        BY DEF NewMessage
    <2>3. IsFiniteSet(messages \ {m})
        BY FS_Subset DEF BriefingInv
    <2>4. IsFiniteSet(messages')
        BY <2>1, <2>3, FS_AddElement
    <2>. QED BY <1>10, <2>1, <2>2, <2>4, MessagesChange DEF Replaced
<1>. QED
    BY <1>1, <1>3, <1>4, <1>5, <1>6, <1>7, <1>8, <1>9, <1>10, BriefingStored
    DEF BriefingNext, ServeStored, AskFails

\* However many requests of however many workers overlap, and whatever the user does
\* to the chats: what a request stores as a briefing is whole, and was asked for anew,
\* or no other request's briefing of its key is kept from the hour before it, or that
\* hour held as many messages as a request looks at
\* (app/services/briefing_service.py).
THEOREM CollectedOncePerHour == BriefingSpec => OneBriefingAnHour
<1> DEFINE Stored ==
        \A r \in Askers : asker[r].pc = "storing" /\ asker'[r].pc = "idle" =>
          \A n \in messages' \ messages : n.key # NoBriefing =>
              /\ ~asker[r].partial
              /\ \/ asker[r].refresh \/ asker[r].full
                 \/ \A m \in Matching(asker[r]) : m.restored
<1>1. BriefingInv /\ [BriefingNext]_briefingVars => [Stored]_briefingVars
    <2>. SUFFICES ASSUME BriefingInv, BriefingNext, NEW r \in Askers,
                         asker[r].pc = "storing", asker'[r].pc = "idle",
                         NEW n \in messages' \ messages, n.key # NoBriefing
                  PROVE  /\ ~asker[r].partial
                         /\ \/ asker[r].refresh \/ asker[r].full
                            \/ \A m \in Matching(asker[r]) : m.restored
        BY DEF briefingVars
    <2>1. PICK o \in Askers : Store(o)
        BY DEF BriefingNext, ViewChanges, HourPasses, AssistantWrites, Deleted, Replaced, Ask,
               TakeLock, ServeStored, StartCollecting, Collected, Phrase, PhraseFallback,
               AskFails
    <2>2. o = r
        BY <2>1 DEF Store, Leave, BriefingInv
    <2>3. ~asker[r].partial
        BY <2>1, <2>2 DEF Store, Cacheable, NewMessage
    <2>4. MayCollect(asker[r])
        BY DEF BriefingInv
    <2>. QED BY <2>3, <2>4 DEF MayCollect
<1>2. BriefingSpec => []BriefingInv
    BY BriefingInitInv, BriefingStep, PTL DEF BriefingSpec
<1>. QED BY <1>1, <1>2, PTL DEF BriefingSpec, OneBriefingAnHour

-----------------------------------------------------------------------------
(* Spoken turns *)

Stages == {"new", "queued", "transcribing", "processing"} \union Ended
Threads == [on : {"none", "gpu", "cpu"}, next : Nat, retried : BOOLEAN]

\* The permits are given and taken back one at a time, in the order of the queue,
\* so a turn stands in the queue once, and only while it waits.
InLine ==
    /\ waiting \in Seq(Turns)
    /\ \A i \in DOMAIN waiting : turn[waiting[i]] = "queued"
    /\ \A i, j \in DOMAIN waiting : waiting[i] = waiting[j] => i = j

Counted ==
    /\ permits \in Nat
    /\ IsFiniteSet(InTurn)
    /\ permits + Cardinality(InTurn) = Permits

\* What one turn's stage says of its thread and its file.
Owned(t) ==
    /\ Running(t) => turn[t] \in {"transcribing", "cancelled"}
    /\ turn[t] = "cancelled" => t \in Streamed
    /\ file[t] <=> turn[t] \notin Ended \union {"new"}

PermitInv ==
    /\ turn \in [Turns -> Stages]
    /\ thread \in [Turns -> Threads]
    /\ device \in {"gpu", "cpu"}
    /\ DOMAIN file = Turns
    /\ InLine
    /\ Counted
    /\ \A t \in Turns : Owned(t)

\* A spoken answer is nothing or whole, and so is what was fetched of it.
SpeechInv ==
    voice \in [Turns -> [job : {"none", "announced", "speaking", "ended"},
                         file : {"none", "whole"}, served : SUBSET {"none", "whole"}]]

LEMMA SpeechInit == AudioInit => SpeechInv
BY DEF AudioInit, SpeechInv

LEMMA SpeechStep == SpeechInv /\ [AudioNext]_audioVars => SpeechInv'
<1>. SUFFICES ASSUME SpeechInv, [AudioNext]_audioVars PROVE SpeechInv'
    OBVIOUS
<1>. USE DEF SpeechInv
<1>1. ASSUME NEW t \in Turns, Processed(t)
      PROVE  SpeechInv'
    BY <1>1 DEF Processed, Announce
<1>2. ASSUME NEW t \in Turns, SpeechBegins(t)
      PROVE  SpeechInv'
    BY <1>2 DEF SpeechBegins, Speak
<1>3. ASSUME NEW t \in Turns, SpeechEnds(t)
      PROVE  SpeechInv'
    BY <1>3 DEF SpeechEnds
<1>4. ASSUME NEW t \in Turns, AudioServed(t)
      PROVE  SpeechInv'
    BY <1>4 DEF AudioServed
<1>5. ASSUME NEW t \in Turns, CleanUp(t)
      PROVE  SpeechInv'
    BY <1>5 DEF CleanUp
<1>6. ASSUME UNCHANGED voice
      PROVE  SpeechInv'
    BY <1>6
<1>. QED BY <1>1, <1>2, <1>3, <1>4, <1>5, <1>6 DEF AudioNext, audioVars

-----------------------------------------------------------------------------
(* The queue and the permits *)

\* A queue from which a place is given up has the others left, in their order.
LEMMA WithoutPlace ==
    ASSUME NEW T, NEW queue \in Seq(T), NEW i \in DOMAIN queue
    PROVE  /\ Without(queue, i) \in Seq(T)
           /\ DOMAIN Without(queue, i) = 1..(Len(queue) - 1)
           /\ \A j \in 1..(Len(queue) - 1) :
                  Without(queue, i)[j] = queue[IF j < i THEN j ELSE j + 1]
<1>1. Len(queue) - 1 \in Nat /\ DOMAIN queue = 1..Len(queue)
    OBVIOUS
<1>2. \A j \in 1..(Len(queue) - 1) : j \in DOMAIN queue /\ j + 1 \in DOMAIN queue
    BY <1>1
<1>. QED BY <1>1, <1>2 DEF Without

\* A step that neither gives nor takes a permit.
LEMMA PermitsKept ==
    ASSUME Counted, UNCHANGED permits, InTurn' = InTurn
    PROVE  Counted'
BY DEF Counted

LEMMA PermitGiven ==
    ASSUME Counted, permits > 0, permits' = permits - 1,
           NEW t, t \notin InTurn, InTurn' = InTurn \union {t}
    PROVE  Counted'
<1>1. Cardinality(InTurn') = Cardinality(InTurn) + 1 /\ IsFiniteSet(InTurn')
    BY FS_AddElement DEF Counted
<1>2. Cardinality(InTurn) \in Nat
    BY FS_CardinalityType DEF Counted
<1>3. permits' \in Nat /\ permits' + (Cardinality(InTurn) + 1) = Permits
    BY <1>2 DEF Counted
<1>. QED BY <1>1, <1>3 DEF Counted

LEMMA PermitBack ==
    ASSUME Counted, permits' = permits + 1,
           NEW t \in InTurn, InTurn' = InTurn \ {t}
    PROVE  Counted'
<1>1. Cardinality(InTurn') = Cardinality(InTurn) - 1 /\ IsFiniteSet(InTurn')
    BY FS_RemoveElement DEF Counted
<1>2. Cardinality(InTurn) \in Nat
    BY FS_CardinalityType DEF Counted
<1>3. permits' \in Nat /\ permits' + (Cardinality(InTurn) - 1) = Permits
    BY <1>2 DEF Counted
<1>. QED BY <1>1, <1>3 DEF Counted

\* A step that leaves the queue alone changes no waiting turn.
LEMMA LineKept ==
    ASSUME PermitInv, UNCHANGED waiting, NEW t \in Turns, NEW next \in Stages,
           turn[t] # "queued", turn' = [turn EXCEPT ![t] = next]
    PROVE  InLine'
<1>1. \A i \in DOMAIN waiting : waiting[i] \in Turns /\ turn'[waiting[i]] = turn[waiting[i]]
    BY DEF PermitInv, InLine
<1>. QED BY <1>1 DEF PermitInv, InLine

LEMMA PermitInit == AudioInit => PermitInv
<1>. SUFFICES ASSUME AudioInit PROVE PermitInv
    OBVIOUS
<1>1. InTurn = {} /\ permits = Permits
    BY DEF AudioInit, InTurn
<1>2. Counted
    BY <1>1, FS_EmptySet, AudioAssumption DEF Counted
<1>3. InLine
    BY DEF InLine, AudioInit
<1>. QED BY <1>2, <1>3 DEF AudioInit, PermitInv, Owned, Running, NoThread, Threads, Stages, Ended

\* The steps of a thread: the task and its permit are not their business, but
\* for the thread that fails under a task.
LEMMA ThreadOnly ==
    ASSUME PermitInv, NEW t \in Turns, Running(t), NEW new \in Threads,
           thread' = [thread EXCEPT ![t] = new], device' \in {"gpu", "cpu"},
           UNCHANGED <<turn, waiting, permits, file>>
    PROVE  PermitInv'
<1>1. InLine'
    BY DEF PermitInv, InLine
<1>2. Counted'
    BY PermitsKept DEF PermitInv, InTurn
<1>3. ASSUME NEW u \in Turns
      PROVE  Owned(u)'
    <2>1. turn[t] \in {"transcribing", "cancelled"}
        BY DEF PermitInv, Owned
    <2>2. CASE u = t
        BY <2>1, <2>2 DEF PermitInv, Owned
    <2>3. CASE u # t
        BY <2>3 DEF PermitInv, Owned, Running
    <2>. QED BY <2>2, <2>3
<1>4. thread' \in [Turns -> Threads]
    BY DEF PermitInv
<1>. QED BY <1>1, <1>2, <1>3, <1>4 DEF PermitInv

LEMMA PermitUpload == \A t \in Turns : PermitInv /\ Upload(t) => PermitInv'
<1>. SUFFICES ASSUME NEW t \in Turns, PermitInv, Upload(t) PROVE PermitInv'
    OBVIOUS
<1>1. waiting \in Seq(Turns) /\ \A i \in DOMAIN waiting : waiting[i] # t
    BY DEF PermitInv, InLine, Upload
<1>2. /\ waiting' \in Seq(Turns) /\ DOMAIN waiting' = 1..(Len(waiting) + 1)
      /\ \A i \in DOMAIN waiting : waiting'[i] = waiting[i]
      /\ waiting'[Len(waiting) + 1] = t
      /\ DOMAIN waiting = 1..Len(waiting) /\ Len(waiting) \in Nat
    BY <1>1 DEF Upload
<1>3. \A i \in DOMAIN waiting' : i \in DOMAIN waiting \/ i = Len(waiting) + 1
    BY <1>2
<1>4. InLine'
    <2>1. \A i \in DOMAIN waiting' : turn'[waiting'[i]] = "queued"
        BY <1>1, <1>2, <1>3 DEF PermitInv, InLine, Upload
    <2>2. \A i, j \in DOMAIN waiting' : waiting'[i] = waiting'[j] => i = j
        BY <1>1, <1>2, <1>3 DEF PermitInv, InLine
    <2>. QED BY <1>2, <2>1, <2>2 DEF InLine
<1>5. Counted'
    <2>1. InTurn' = InTurn
        BY DEF InTurn, Upload, PermitInv
    <2>. QED BY <2>1, PermitsKept DEF PermitInv, Upload
<1>6. \A u \in Turns : Owned(u)'
    BY DEF PermitInv, Owned, Upload, Running, Ended
<1>. QED BY <1>4, <1>5, <1>6 DEF PermitInv, Upload, Stages

LEMMA PermitStart == \A t \in Turns : PermitInv /\ StartThread(t) => PermitInv'
<1>. SUFFICES ASSUME NEW t \in Turns, PermitInv, StartThread(t) PROVE PermitInv'
    OBVIOUS
<1>1. /\ waiting \in Seq(Turns) /\ waiting # <<>> /\ Head(waiting) = t
      /\ waiting' = Tail(waiting)
    BY DEF PermitInv, InLine, StartThread
<1>2. /\ waiting' \in Seq(Turns) /\ DOMAIN waiting = 1..Len(waiting)
      /\ Len(waiting) \in Nat \ {0} /\ waiting[1] = t
      /\ DOMAIN waiting' = 1..(Len(waiting) - 1)
      /\ \A i \in DOMAIN waiting' : waiting'[i] = waiting[i + 1]
    BY <1>1
<1>3. \A i \in DOMAIN waiting' : i + 1 \in DOMAIN waiting /\ i + 1 # 1
    BY <1>2
<1>4. turn[t] = "queued"
    BY <1>2 DEF PermitInv, InLine
<1>5. InLine'
    <2>1. \A i \in DOMAIN waiting' : waiting'[i] # t
        BY <1>2, <1>3 DEF PermitInv, InLine
    <2>2. \A i \in DOMAIN waiting' : turn'[waiting'[i]] = "queued"
        BY <1>2, <1>3, <2>1 DEF PermitInv, InLine, StartThread
    <2>3. \A i, j \in DOMAIN waiting' : waiting'[i] = waiting'[j] => i = j
        BY <1>2, <1>3 DEF PermitInv, InLine
    <2>. QED BY <1>2, <2>2, <2>3 DEF InLine
<1>6. Counted'
    <2>1. InTurn' = InTurn \union {t} /\ t \notin InTurn
        BY <1>4 DEF InTurn, StartThread, PermitInv
    <2>. QED BY <2>1, PermitGiven DEF PermitInv, StartThread
<1>7. \A u \in Turns : Owned(u)'
    BY <1>4 DEF PermitInv, Owned, StartThread, Running, Ended
<1>8. thread' \in [Turns -> Threads]
    BY DEF PermitInv, StartThread, Threads
<1>. QED BY <1>5, <1>6, <1>7, <1>8 DEF PermitInv, StartThread, Stages

LEMMA PermitLeaves == \A t \in Turns : PermitInv /\ ClientLeaves(t) => PermitInv'
<1>. SUFFICES ASSUME NEW t \in Turns, PermitInv, ClientLeaves(t) PROVE PermitInv'
    OBVIOUS
<1>1. turn' = [turn EXCEPT ![t] = "cancelled"] /\ file' = [file EXCEPT ![t] = FALSE]
    BY DEF ClientLeaves, End
<1>2. InLine'
    <2>1. CASE turn[t] = "queued"
        <3>1. PICK i \in DOMAIN waiting : waiting[i] = t /\ waiting' = Without(waiting, i)
            BY <2>1 DEF ClientLeaves, LeavesQueue
        <3>. DEFINE From(j) == IF j < i THEN j ELSE j + 1
        <3>2. waiting \in Seq(Turns) /\ i \in 1..Len(waiting) /\ DOMAIN waiting = 1..Len(waiting)
            BY DEF PermitInv, InLine
        <3>3. /\ waiting' \in Seq(Turns) /\ DOMAIN waiting' = 1..(Len(waiting) - 1)
              /\ \A j \in DOMAIN waiting' : waiting'[j] = waiting[From(j)]
            BY <3>1, <3>2, WithoutPlace
        <3>4. \A j \in DOMAIN waiting' : From(j) \in DOMAIN waiting /\ From(j) # i
            BY <3>2, <3>3
        <3>5. \A j, k \in DOMAIN waiting' : From(j) = From(k) => j = k
            BY <3>2, <3>3
        <3>. HIDE DEF From
        <3>6. \A j \in DOMAIN waiting' : waiting'[j] # t /\ waiting'[j] \in Turns
            BY <3>1, <3>3, <3>4 DEF PermitInv, InLine
        <3>7. \A j \in DOMAIN waiting' : turn'[waiting'[j]] = "queued"
            BY <1>1, <3>3, <3>4, <3>6 DEF PermitInv, InLine
        <3>8. \A j, k \in DOMAIN waiting' : waiting'[j] = waiting'[k] => j = k
            BY <3>3, <3>4, <3>5 DEF PermitInv, InLine
        <3>. QED BY <3>3, <3>7, <3>8 DEF InLine
    <2>2. CASE turn[t] # "queued"
        <3>1. UNCHANGED waiting
            BY <2>2 DEF ClientLeaves, LeavesQueue
        <3>. QED BY <1>1, <2>2, <3>1, LineKept DEF Stages, Ended
    <2>. QED BY <2>1, <2>2
<1>3. Counted'
    <2>1. CASE turn[t] = "transcribing"
        <3>1. t \in InTurn /\ InTurn' = InTurn \ {t} /\ permits' = permits + 1
            BY <1>1, <2>1 DEF InTurn, PermitInv, ClientLeaves, PermitsAfterCancel
        <3>. QED BY <3>1, PermitBack DEF PermitInv
    <2>2. CASE turn[t] # "transcribing"
        <3>1. InTurn' = InTurn /\ UNCHANGED permits
            BY <1>1, <2>2 DEF InTurn, PermitInv, ClientLeaves, PermitsAfterCancel
        <3>. QED BY <3>1, PermitsKept DEF PermitInv
    <2>. QED BY <2>1, <2>2
<1>4. \A u \in Turns : Owned(u)'
    BY <1>1 DEF PermitInv, Owned, ClientLeaves, Running, Ended
<1>. QED BY <1>1, <1>2, <1>3, <1>4 DEF PermitInv, ClientLeaves, Stages, Ended

LEMMA PermitStep == PermitInv /\ [AudioNext]_audioVars => PermitInv'
<1>. SUFFICES ASSUME PermitInv, [AudioNext]_audioVars PROVE PermitInv'
    OBVIOUS
<1>1. ASSUME NEW t \in Turns, RejectUpload(t)
      PROVE  PermitInv'
    <2>1. InLine'
        BY <1>1, LineKept DEF RejectUpload, Stages, Ended
    <2>2. InTurn' = InTurn
        BY <1>1 DEF InTurn, RejectUpload, PermitInv
    <2>3. Counted'
        BY <1>1, <2>2, PermitsKept DEF PermitInv, RejectUpload
    <2>4. \A u \in Turns : Owned(u)'
        BY <1>1 DEF PermitInv, Owned, RejectUpload, Running, Ended
    <2>. QED BY <1>1, <2>1, <2>3, <2>4 DEF PermitInv, RejectUpload, Stages, Ended
<1>2. ASSUME NEW t \in Turns, Transcribed(t)
      PROVE  PermitInv'
    <2>1. InLine'
        BY <1>2, LineKept DEF Transcribed, Stages
    <2>2. t \in InTurn /\ InTurn' = InTurn \ {t} /\ permits' = permits + 1
        BY <1>2 DEF InTurn, Transcribed, PermitInv
    <2>3. Counted'
        BY <2>2, PermitBack DEF PermitInv
    <2>4. \A u \in Turns : Owned(u)'
        BY <1>2 DEF PermitInv, Owned, Transcribed, Running, Ended
    <2>. QED BY <1>2, <2>1, <2>3, <2>4 DEF PermitInv, Transcribed, Stages
<1>3. ASSUME NEW t \in Turns, Processed(t)
      PROVE  PermitInv'
    <2>1. PICK how \in {"done", "failed"} : End(t, how)
        BY <1>3 DEF Processed
    <2>2. InLine'
        BY <1>3, <2>1, LineKept DEF Processed, End, Stages, Ended
    <2>3. InTurn' = InTurn
        BY <1>3, <2>1 DEF InTurn, Processed, End, PermitInv
    <2>4. Counted'
        BY <1>3, <2>3, PermitsKept DEF PermitInv, Processed
    <2>5. \A u \in Turns : Owned(u)'
        BY <1>3, <2>1 DEF PermitInv, Owned, Processed, End, Running, Ended
    <2>. QED BY <1>3, <2>1, <2>2, <2>4, <2>5 DEF PermitInv, Processed, End, Stages, Ended
<1>4. ASSUME NEW t \in Turns, Segment(t) \/ ThreadReturns(t) \/ GpuFails(t)
      PROVE  PermitInv'
    <2>. DEFINE new == thread'[t]
    <2>1. Running(t) /\ thread[t] \in Threads
        BY <1>4 DEF PermitInv, Segment, ThreadReturns, GpuFails
    <2>2. new \in Threads /\ thread' = [thread EXCEPT ![t] = new]
        <3>1. CASE Segment(t)
            <4>1. thread[t].next + 1 \in Nat /\ thread \in [Turns -> Threads]
                BY <2>1 DEF PermitInv, Threads
            <4>2. thread' = [thread EXCEPT ![t] = [thread[t] EXCEPT !.next = thread[t].next + 1]]
                BY <3>1 DEF Segment
            <4>3. [thread[t] EXCEPT !.next = thread[t].next + 1] \in Threads
                BY <2>1, <4>1 DEF Threads
            <4>. QED BY <4>1, <4>2, <4>3
        <3>2. CASE ThreadReturns(t)
            BY <2>1, <3>2 DEF PermitInv, Threads, ThreadReturns
        <3>3. CASE GpuFails(t)
            BY <2>1, <3>3 DEF PermitInv, Threads, GpuFails, StartOver
        <3>. QED BY <1>4, <3>1, <3>2, <3>3
    <2>3. UNCHANGED <<turn, waiting, permits, file>> /\ device' \in {"gpu", "cpu"}
        BY <1>4 DEF PermitInv, Segment, ThreadReturns, GpuFails
    <2>. QED BY <2>1, <2>2, <2>3, ThreadOnly
<1>5. ASSUME NEW t \in Turns, ThreadFails(t)
      PROVE  PermitInv'
    <2>1. /\ thread' \in [Turns -> Threads]
          /\ thread' = [thread EXCEPT ![t].on = "none"]
          /\ thread'[t] \in Threads /\ thread' = [thread EXCEPT ![t] = thread'[t]]
        BY <1>5 DEF PermitInv, ThreadFails, Threads
    <2>2. CASE turn[t] = "transcribing"
        <3>1. End(t, "failed") /\ permits' = permits + 1 /\ UNCHANGED waiting
            BY <1>5, <2>2 DEF ThreadFails
        <3>2. InLine'
            BY <2>2, <3>1, LineKept DEF End, Stages, Ended
        <3>3. t \in InTurn /\ InTurn' = InTurn \ {t}
            BY <2>2, <3>1 DEF InTurn, End, PermitInv
        <3>4. Counted'
            BY <3>1, <3>3, PermitBack DEF PermitInv
        <3>5. \A u \in Turns : Owned(u)'
            BY <2>1, <2>2, <3>1 DEF PermitInv, Owned, End, Running, Ended
        <3>. QED BY <1>5, <2>1, <3>1, <3>2, <3>4, <3>5 DEF PermitInv, ThreadFails, End, Stages, Ended
    <2>3. CASE turn[t] # "transcribing"
        <3>1. UNCHANGED <<turn, waiting, permits, file, device>> /\ Running(t)
            BY <1>5, <2>3 DEF ThreadFails
        <3>. QED BY <2>1, <3>1, ThreadOnly DEF PermitInv
    <2>. QED BY <2>2, <2>3
<1>6. ASSUME UNCHANGED transcriptionVars
      PROVE  PermitInv'
    <2>1. InTurn' = InTurn
        BY <1>6 DEF transcriptionVars, InTurn
    <2>2. Counted'
        BY <1>6, <2>1, PermitsKept DEF transcriptionVars, PermitInv
    <2>. QED BY <1>6, <2>2 DEF transcriptionVars, PermitInv, InLine, Owned, Running
<1>. QED
    BY <1>1, <1>2, <1>3, <1>4, <1>5, <1>6, PermitUpload, PermitStart, PermitLeaves
    DEF AudioNext, TranscriptionNext, audioVars, SpeechBegins, SpeechEnds, AudioServed, CleanUp

\* The permits of the transcriptions never run out and are never given twice, a
\* turn's temporary file is there exactly as long as it may be read, and nobody
\* fetches half a spoken answer, with the client of any streamed turn leaving at
\* any time and its thread going on.
THEOREM PermitsAndFilesKept == AudioSpec => []PermitsAndFiles
<1>1. PermitInv /\ SpeechInv => PermitsAndFiles
    <2>. SUFFICES ASSUME PermitInv, SpeechInv PROVE PermitsAndFiles
        OBVIOUS
    <2>1. \A t \in Turns : voice[t].served \subseteq {"none", "whole"}
        BY DEF SpeechInv
    <2>2. permits + Cardinality(InTurn) = Permits
        BY DEF PermitInv, Counted
    <2>3. \A t \in Turns : Running(t) => t \in InTurn \union Orphans
        BY DEF PermitInv, Owned, InTurn, Orphans
    <2>4. Orphans \subseteq Streamed
        BY DEF PermitInv, Owned, Orphans
    <2>. QED BY <2>1, <2>2, <2>3, <2>4 DEF PermitsAndFiles, PermitInv, Owned
<1>. QED BY <1>1, PermitInit, PermitStep, SpeechInit, SpeechStep, PTL DEF AudioSpec

-----------------------------------------------------------------------------
(* What is transcribed *)

First(n) == [i \in 1..n |-> i]

LEMMA FirstSegments ==
    /\ \A n \in Nat : First(n) \in Seq(Nat) /\ Len(First(n)) = n
    /\ First(0) = <<>>
    /\ Whisper = First(Segments)
    /\ \A n \in 0..Segments : SubSeq(Whisper, 1, n) = First(n)
    /\ \A n \in Nat : Append(First(n), n + 1) = First(n + 1)
<1>1. \A n \in Nat : First(n) \in Seq(Nat) /\ Len(First(n)) = n
    BY DEF First
<1>2. First(0) = <<>>
    BY <1>1, EmptySeq
<1>3. Whisper = First(Segments)
    BY DEF Whisper, First
<1>4. ASSUME NEW n \in 0..Segments
      PROVE  SubSeq(Whisper, 1, n) = First(n)
    <2>1. \A i \in 1..n : i \in 1..Segments /\ Whisper[i] = i /\ First(n)[i] = i
        BY AudioAssumption DEF Whisper, First
    <2>2. /\ SubSeq(Whisper, 1, n) \in Seq(Nat) /\ Len(SubSeq(Whisper, 1, n)) = n
          /\ \A i \in 1..n : SubSeq(Whisper, 1, n)[i] = Whisper[i]
        BY <2>1, SubSeqProperties, AudioAssumption
    <2>. DEFINE some == SubSeq(Whisper, 1, n)
    <2>. HIDE DEF some
    <2>3. some \in Seq(Nat) /\ Len(some) = n /\ \A i \in 1..n : some[i] = First(n)[i]
        BY <2>1, <2>2 DEF some
    <2>4. some = First(n)
        BY <1>1, <2>3, SeqEqual
    <2>. QED BY <2>4 DEF some
<1>5. ASSUME NEW n \in Nat
      PROVE  Append(First(n), n + 1) = First(n + 1)
    <2>1. /\ First(n) \in Seq(Nat) /\ Len(First(n)) = n
          /\ First(n + 1) \in Seq(Nat) /\ Len(First(n + 1)) = n + 1
        BY <1>1
    <2>2. \A i \in 1..(n + 1) : First(n + 1)[i] = i /\ (i # n + 1 => First(n)[i] = i)
        BY DEF First
    <2>3. /\ Append(First(n), n + 1) \in Seq(Nat) /\ Len(Append(First(n), n + 1)) = n + 1
          /\ \A i \in 1..(n + 1) : Append(First(n), n + 1)[i] = i
        BY <2>1, <2>2, AppendProperties
    <2>. QED BY <2>1, <2>2, <2>3, SeqEqual
<1>. QED BY <1>1, <1>2, <1>3, <1>4, <1>5

\* Segments up to the next one; a thread of a streamed turn that was moved to the
\* CPU repeats some of them.
UpTo(n, again, spoken) ==
    \/ spoken = First(n)
    \/ again /\ \E k \in 0..Segments : spoken = First(k) \o First(n)

\* One more segment, in its place.
LEMMA NextSegment ==
    ASSUME NEW n \in Nat, NEW again, NEW spoken, UpTo(n, again, spoken)
    PROVE  UpTo(n + 1, again, Append(spoken, n + 1))
<1>1. CASE spoken = First(n)
    BY <1>1, FirstSegments DEF UpTo
<1>2. ASSUME again, NEW k \in 0..Segments, spoken = First(k) \o First(n)
      PROVE  UpTo(n + 1, again, Append(spoken, n + 1))
    <2>1. First(k) \in Seq(Nat) /\ First(n) \in Seq(Nat) /\ <<n + 1>> \in Seq(Nat)
        BY FirstSegments, AudioAssumption
    <2>2. spoken \in Seq(Nat)
        BY <1>2, <2>1, ConcatProperties
    <2>3. Append(spoken, n + 1) = (First(k) \o First(n)) \o <<n + 1>>
        BY <1>2, <2>2, AppendIsConcat
    <2>4. First(n) \o <<n + 1>> = First(n + 1)
        <3>1. Append(First(n), n + 1) = First(n) \o <<n + 1>>
            BY <2>1, AppendIsConcat
        <3>. QED BY <3>1, FirstSegments
    <2>5. Append(spoken, n + 1) = First(k) \o First(n + 1)
        <3>1. (First(k) \o First(n)) \o <<n + 1>> = First(k) \o (First(n) \o <<n + 1>>)
            BY <2>1, ConcatAssociative
        <3>. QED BY <2>3, <2>4, <3>1
    <2>. QED BY <1>2, <2>5 DEF UpTo
<1>. QED BY <1>1, <1>2 DEF UpTo

\* What a turn's stage, thread, segments and text have to do with one another.  A
\* thread on the GPU has not failed before; one that ended under its task has read
\* its file to the end.
Sound(t, stage, th, spoken, got) ==
    /\ th.next \in 1..(Segments + 1)
    /\ UpTo(th.next - 1, t \in Streamed /\ th.retried, spoken)
    /\ th.on = "gpu" => ~th.retried
    /\ stage \in {"new", "queued"} => spoken = <<>>
    /\ stage = "transcribing" /\ th.on = "none" => th.next = Segments + 1
    /\ stage \in {"processing", "done"} => UpTo(Segments, t \in Streamed /\ th.retried, got)

TranscriptInv ==
    /\ DOMAIN parts = Turns /\ DOMAIN text = Turns
    /\ \A t \in Turns : Sound(t, turn[t], thread[t], parts[t], text[t])

\* Only the turn whose step it is changes.
LEMMA OneTurn ==
    ASSUME TranscriptInv, NEW t \in Turns,
           DOMAIN parts' = Turns, DOMAIN text' = Turns,
           \A u \in Turns \ {t} : /\ turn'[u] = turn[u] /\ thread'[u] = thread[u]
                                  /\ parts'[u] = parts[u] /\ text'[u] = text[u],
           Sound(t, turn'[t], thread'[t], parts'[t], text'[t])
    PROVE  TranscriptInv'
<1>1. ASSUME NEW u \in Turns
      PROVE  Sound(u, turn'[u], thread'[u], parts'[u], text'[u])
    <2>1. CASE u = t
        BY <2>1
    <2>2. CASE u # t
        BY <2>2 DEF TranscriptInv
    <2>. QED BY <2>1, <2>2
<1>. QED BY <1>1 DEF TranscriptInv

LEMMA TranscriptInit == AudioInit => TranscriptInv
<1>1. UpTo(0, FALSE, <<>>)
    BY FirstSegments DEF UpTo
<1>2. ASSUME NEW t \in Turns
      PROVE  Sound(t, "new", NoThread, <<>>, <<>>)
    BY <1>1, FirstSegments, AudioAssumption DEF Sound, NoThread, UpTo
<1>. QED BY <1>2 DEF AudioInit, TranscriptInv

\* The steps of the task alone.
LEMMA TranscriptTask ==
    ASSUME PermitInv, TranscriptInv, NEW t \in Turns,
           Upload(t) \/ RejectUpload(t) \/ ClientLeaves(t) \/ Processed(t)
    PROVE  TranscriptInv'
<1>1. PICK how \in Stages : turn' = [turn EXCEPT ![t] = how] /\ UNCHANGED <<thread, parts, text>>
    BY DEF Upload, RejectUpload, ClientLeaves, Processed, End, Stages, Ended
<1>2. /\ how # "transcribing" /\ how # "processing" /\ how # "new"
      /\ how = "queued" => turn[t] = "new"
      /\ how = "done" => turn[t] = "processing"
    BY <1>1 DEF PermitInv, Upload, RejectUpload, ClientLeaves, Processed, End, Stages, Ended
<1>3. Sound(t, turn'[t], thread'[t], parts'[t], text'[t])
    BY <1>1, <1>2 DEF PermitInv, TranscriptInv, Sound
<1>. QED BY <1>1, <1>3, OneTurn DEF PermitInv, TranscriptInv

LEMMA TranscriptStart ==
    ASSUME PermitInv, TranscriptInv, NEW t \in Turns, StartThread(t)
    PROVE  TranscriptInv'
<1>1. turn[t] = "queued" /\ parts[t] = <<>>
    <2>1. waiting \in Seq(Turns) /\ waiting # <<>> /\ Head(waiting) = t
        BY DEF PermitInv, InLine, StartThread
    <2>2. 1 \in DOMAIN waiting /\ waiting[1] = t
        BY <2>1
    <2>. QED BY <2>2 DEF PermitInv, InLine, TranscriptInv, Sound
<1>2. Sound(t, turn'[t], thread'[t], parts'[t], text'[t])
    BY <1>1, FirstSegments, AudioAssumption DEF PermitInv, TranscriptInv, Sound, StartThread, UpTo
<1>. QED BY <1>2, OneTurn DEF PermitInv, TranscriptInv, StartThread

LEMMA TranscriptRead ==
    ASSUME PermitInv, TranscriptInv, NEW t \in Turns, Transcribed(t)
    PROVE  TranscriptInv'
<1>1. thread[t].next - 1 = Segments
    BY AudioAssumption DEF TranscriptInv, Sound, Transcribed
<1>2. Sound(t, turn'[t], thread'[t], parts'[t], text'[t])
    BY <1>1 DEF PermitInv, TranscriptInv, Sound, Transcribed
<1>. QED BY <1>2, OneTurn DEF PermitInv, TranscriptInv, Transcribed

\* The steps of a thread, whose turn transcribes or has been cancelled.
LEMMA TranscriptThread ==
    ASSUME PermitInv, TranscriptInv, NEW t \in Turns,
           Segment(t) \/ ThreadReturns(t) \/ GpuFails(t) \/ ThreadFails(t)
    PROVE  TranscriptInv'
<1>1. /\ turn[t] \in {"transcribing", "cancelled"} /\ Running(t)
      /\ thread[t] \in Threads /\ thread[t].next \in 1..(Segments + 1)
    BY DEF PermitInv, Owned, Segment, ThreadReturns, GpuFails, ThreadFails, TranscriptInv, Sound
<1>2. CASE Segment(t)
    <2>1. parts'[t] = Append(parts[t], thread[t].next)
        BY <1>2 DEF Segment, TranscriptInv
    <2>2. /\ thread'[t].next = thread[t].next + 1 /\ thread'[t].on = thread[t].on
          /\ thread'[t].retried = thread[t].retried /\ thread[t].next <= Segments
        BY <1>1, <1>2 DEF Segment, PermitInv, Threads
    <2>3. UpTo(thread[t].next - 1, t \in Streamed /\ thread[t].retried, parts[t])
        BY DEF TranscriptInv, Sound
    <2>4. UpTo(thread[t].next, t \in Streamed /\ thread[t].retried, parts'[t])
        <3>. DEFINE n == thread[t].next - 1
        <3>1. n \in Nat /\ n + 1 = thread[t].next
            BY <1>1, AudioAssumption
        <3>. HIDE DEF n
        <3>2. UpTo(n, t \in Streamed /\ thread[t].retried, parts[t])
            BY <2>3 DEF n
        <3>3. UpTo(n + 1, t \in Streamed /\ thread[t].retried, Append(parts[t], n + 1))
            BY <3>1, <3>2, NextSegment
        <3>. QED BY <2>1, <3>1, <3>3
    <2>5. Sound(t, turn'[t], thread'[t], parts'[t], text'[t])
        <3>1. turn' = turn /\ thread'[t].next - 1 = thread[t].next
            BY <1>1, <1>2, <2>2, AudioAssumption DEF Segment
        <3>2. thread'[t].next \in 1..(Segments + 1) /\ thread'[t].on # "none"
            BY <1>1, <2>2, AudioAssumption DEF Running
        <3>. QED BY <1>1, <2>2, <2>4, <3>1, <3>2 DEF TranscriptInv, Sound
    <2>. QED BY <1>2, <2>5, OneTurn DEF PermitInv, TranscriptInv, Segment
<1>3. CASE ThreadReturns(t)
    <2>1. /\ thread'[t].next = thread[t].next /\ thread'[t].on = "none"
          /\ thread'[t].retried = thread[t].retried
        BY <1>1, <1>3 DEF ThreadReturns, PermitInv, Threads
    <2>2. thread[t].next = Segments + 1
        BY <1>1, <1>3, AudioAssumption DEF ThreadReturns
    <2>3. Sound(t, turn'[t], thread'[t], parts'[t], text'[t])
        BY <1>1, <1>3, <2>1, <2>2 DEF TranscriptInv, Sound, ThreadReturns
    <2>. QED BY <1>3, <2>3, OneTurn DEF PermitInv, TranscriptInv, ThreadReturns
<1>4. CASE GpuFails(t)
    <2>1. thread'[t] = StartOver(t) /\ ~thread[t].retried
        BY <1>4 DEF GpuFails, PermitInv, TranscriptInv, Sound
    <2>2. parts'[t] = IF t \in Streamed THEN parts[t] ELSE <<>>
        BY <1>4 DEF GpuFails, TranscriptInv
    <2>3. UpTo(0, t \in Streamed, parts'[t])
        <3>1. CASE t \in Streamed
            <4>. DEFINE n == thread[t].next - 1
            <4>1. n \in 0..Segments
                BY <1>1, AudioAssumption
            <4>2. parts[t] = First(n)
                BY <2>1 DEF TranscriptInv, Sound, UpTo
            <4>3. First(n) \o First(0) = First(n)
                <5>. HIDE DEF n
                <5>1. n \in Nat /\ First(n) \in Seq(Nat) /\ First(0) = <<>>
                    BY <4>1, FirstSegments, AudioAssumption
                <5>2. First(n) \o <<>> = First(n)
                    BY <5>1, ConcatEmptySeq
                <5>. QED BY <5>1, <5>2
            <4>. QED BY <2>2, <3>1, <4>1, <4>2, <4>3 DEF UpTo
        <3>2. CASE t \notin Streamed
            BY <2>2, <3>2, FirstSegments DEF UpTo
        <3>. QED BY <3>1, <3>2
    <2>4. Sound(t, turn'[t], thread'[t], parts'[t], text'[t])
        BY <1>1, <1>4, <2>1, <2>3, AudioAssumption DEF Sound, GpuFails, StartOver
    <2>. QED BY <1>4, <2>4, OneTurn DEF PermitInv, TranscriptInv, GpuFails
<1>5. CASE ThreadFails(t)
    <2>1. /\ thread'[t].next = thread[t].next /\ thread'[t].on = "none"
          /\ thread'[t].retried = thread[t].retried
        BY <1>1, <1>5 DEF ThreadFails, PermitInv, Threads
    <2>2. turn'[t] \in {"failed", "cancelled"}
        BY <1>1, <1>5 DEF ThreadFails, End, PermitInv
    <2>3. Sound(t, turn'[t], thread'[t], parts'[t], text'[t])
        BY <1>5, <2>1, <2>2 DEF TranscriptInv, Sound, ThreadFails
    <2>4. \A u \in Turns \ {t} : turn'[u] = turn[u]
        BY <1>5 DEF ThreadFails, End, PermitInv
    <2>. QED BY <1>5, <2>3, <2>4, OneTurn DEF PermitInv, TranscriptInv, ThreadFails
<1>. QED BY <1>2, <1>3, <1>4, <1>5

LEMMA TranscriptStep == PermitInv /\ TranscriptInv /\ [AudioNext]_audioVars => TranscriptInv'
<1>1. ASSUME TranscriptInv, UNCHANGED transcriptionVars
      PROVE  TranscriptInv'
    BY <1>1 DEF TranscriptInv, transcriptionVars
<1>. QED
    BY <1>1, TranscriptTask, TranscriptStart, TranscriptRead, TranscriptThread
    DEF AudioNext, TranscriptionNext, audioVars, SpeechBegins, SpeechEnds, AudioServed, CleanUp

\* However often threads fail and move to the CPU while others run, a turn is
\* processed with the whole recording in its order, of which only a streamed turn
\* that was moved has a first part twice.
THEOREM RecordingHeardWhole == AudioSpec => []TranscriptWhole
<1>1. TranscriptInv => TranscriptWhole
    <2>. SUFFICES ASSUME TranscriptInv, NEW t \in Turns, turn[t] \in {"processing", "done"},
                         text[t] # Whisper
                  PROVE  /\ t \in Streamed /\ thread[t].retried
                         /\ \E n \in 1..Segments : text[t] = SubSeq(Whisper, 1, n) \o Whisper
        BY DEF TranscriptWhole
    <2>1. UpTo(Segments, t \in Streamed /\ thread[t].retried, text[t])
        BY DEF TranscriptInv, Sound
    <2>2. PICK n \in 0..Segments : text[t] = First(n) \o Whisper
        BY <2>1, FirstSegments DEF UpTo
    <2>3. n # 0
        BY <2>2, FirstSegments, ConcatEmptySeq, AudioAssumption
    <2>4. n \in 1..Segments /\ text[t] = SubSeq(Whisper, 1, n) \o Whisper
        <3>1. SubSeq(Whisper, 1, n) = First(n)
            BY FirstSegments
        <3>2. n \in 1..Segments
            BY <2>3, AudioAssumption
        <3>. QED BY <2>2, <3>1, <3>2, Zenon
    <2>. QED BY <2>1, <2>4, FirstSegments DEF UpTo
<1>. QED
    BY <1>1, PermitInit, PermitStep, TranscriptInit, TranscriptStep, PTL DEF AudioSpec
=============================================================================
