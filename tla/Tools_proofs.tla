---------------------------- MODULE Tools_proofs ----------------------------
(***************************************************************************)
(* Safety of the agent's tools, three components without shared state.     *)
(*                                                                         *)
(* ToolCalls, for any set of calls, any concurrency limit and any failure  *)
(* threshold: the queue holds exactly the waiting calls, each once         *)
(* (SemInv), and a call has at most one request per attempt that the CRM   *)
(* did not refuse, none of it while it sees to its session (CallInv).      *)
(*                                                                         *)
(* CrmLists, for any list, any pages and any changes between two of them:  *)
(* every record is read or still to be read but for the one that each      *)
(* removal may pull before the offset, and none is read twice but for the  *)
(* one that each arrival may push behind it (SeenRight).                   *)
(*                                                                         *)
(* RagSearch, for any index, limits and spellings: what was in the index   *)
(* when the search began still is, and the best scores and what was found  *)
(* stand for each other (SearchSoFar).                                     *)
(***************************************************************************)
EXTENDS ToolCalls, CrmLists, RagSearch, Sorting_proofs

-----------------------------------------------------------------------------
(* Calls: the invariant *)

QueueInv ==
    /\ \A i \in 1..Len(queue) : pc[queue[i]] = "queued"
    /\ \A i, j \in 1..Len(queue) : queue[i] = queue[j] => i = j
    /\ \A c \in Waiting : \E i \in 1..Len(queue) : queue[i] = c

SemInv ==
    /\ QueueInv
    /\ IsFiniteSet(Holders)
    /\ permits + Cardinality(Holders) = MaxConcurrency
    /\ permits > 0 => queue = <<>>

CallOK(c) ==
    /\ pc[c] \in {"idle", "queued"} => attempt[c] = 0
    /\ pc[c] = "backoff" => attempt[c] < Attempts(c)
    /\ attempt[c] <= Attempts(c)
    /\ onWire[c] + applied[c] <= attempt[c]
    /\ pc[c] \in {"session", "renewing"} => onWire[c] + applied[c] < attempt[c]
    /\ outcome[c] = "circuit_open" => pc[c] = "done" /\ attempt[c] = 0

CallInv == \A c \in Calls : CallOK(c)

\* Where a call can stand, and where it holds a permit.
CallStates == {"idle", "queued", "session", "sending", "renewing", "resending",
               "backoff", "done"}
HolderStates == CallStates \ {"idle", "queued", "done"}

IInv == TypeOK /\ TrialHasOwner /\ TrippedByFailures /\ SemInv /\ CallInv

-----------------------------------------------------------------------------
(* What removing a waiter does to a queue. *)

\* Removing the entry at position i shifts the entries behind it by one: the
\* queue after CancelWaiter, and (with i = 1) after a permit is handed over.
LEMMA RemoveAtEntries ==
    ASSUME NEW S, NEW s \in Seq(S), NEW i \in 1..Len(s)
    PROVE  /\ RemoveAt(s, i) \in Seq(S)
           /\ Len(RemoveAt(s, i)) = Len(s) - 1
           /\ \A k \in 1..(i - 1) : RemoveAt(s, i)[k] = s[k]
           /\ \A k \in i..(Len(s) - 1) : RemoveAt(s, i)[k] = s[k + 1]
<1> DEFINE front == SubSeq(s, 1, i - 1)
           back == SubSeq(s, i + 1, Len(s))
<1>1. /\ front \in Seq(S) /\ Len(front) = i - 1
      /\ \A k \in 1..(i - 1) : front[k] = s[k]
  BY SubSeqProperties
<1>2. /\ back \in Seq(S) /\ Len(back) = Len(s) - i
      /\ \A k \in 1..(Len(s) - i) : back[k] = s[k + i]
  BY SubSeqProperties
<1>3. RemoveAt(s, i) = front \o back
  BY DEF RemoveAt
<1> HIDE DEF front, back
<1>4. /\ front \o back \in Seq(S)
      /\ Len(front \o back) = Len(front) + Len(back)
      /\ \A k \in 1..(Len(front) + Len(back)) : (front \o back)[k] =
                IF k <= Len(front) THEN front[k] ELSE back[k - Len(front)]
  BY <1>1, <1>2, ConcatProperties
<1>5. Len(s) \in Nat
  OBVIOUS
<1>6. ASSUME NEW k \in i..(Len(s) - 1)
      PROVE  (front \o back)[k] = s[k + 1]
  <2>1. k - (i - 1) \in 1..(Len(s) - i) /\ k - (i - 1) + i = k + 1
    BY <1>5
  <2>2. (front \o back)[k] = back[k - (i - 1)]
    BY <1>1, <1>2, <1>4, <1>5
  <2>3. QED
    BY <1>2, <2>1, <2>2
<1>7. ASSUME NEW k \in 1..(i - 1)
      PROVE  (front \o back)[k] = s[k]
  BY <1>1, <1>2, <1>4, <1>5
<1>8. QED
  BY <1>1, <1>2, <1>3, <1>4, <1>5, <1>6, <1>7

-----------------------------------------------------------------------------
(* The semaphore's three steps, each seen from the calls it moves. *)

\* A call that asks for a permit gets one or becomes the last waiter.
LEMMA AcquireStep ==
    ASSUME TypeOK, SemInv, NEW c \in Calls, pc[c] = "idle", Acquire(c)
    PROVE  SemInv' /\ Active' = Active \union {c}
<1>1. CASE permits > 0
  <2>1. /\ pc' = [pc EXCEPT ![c] = "session"]
        /\ permits' = permits - 1 /\ queue' = queue /\ queue = <<>>
    BY <1>1 DEF Acquire, SemInv
  <2>2. Holders' = Holders \union {c} /\ c \notin Holders /\ Waiting' = Waiting
    BY <2>1 DEF Holders, InTransport, Waiting, TypeOK
  <2>3. /\ IsFiniteSet(Holders')
        /\ permits' + Cardinality(Holders') = MaxConcurrency
    <3>1. /\ IsFiniteSet(Holders \union {c})
          /\ Cardinality(Holders \union {c}) = Cardinality(Holders) + 1
      BY <2>2, FS_AddElement DEF SemInv
    <3>2. Cardinality(Holders) \in Nat
      BY FS_CardinalityType DEF SemInv
    <3>3. QED
      BY <2>1, <2>2, <3>1, <3>2, GuardAssumption DEF SemInv, TypeOK
  <2>4. QueueInv'
    BY <2>1, <2>2 DEF QueueInv, SemInv
  <2>5. QED
    BY <2>1, <2>2, <2>3, <2>4 DEF SemInv, Active
<1>2. CASE ~(permits > 0)
  <2>1. /\ pc' = [pc EXCEPT ![c] = "queued"]
        /\ permits' = permits /\ queue' = Append(queue, c)
    BY <1>2 DEF Acquire
  <2>2. Holders' = Holders /\ Waiting' = Waiting \union {c}
    BY <2>1 DEF Holders, InTransport, Waiting, TypeOK
  <2>3. /\ Len(queue') = Len(queue) + 1
        /\ \A i \in 1..Len(queue) : queue'[i] = queue[i] /\ queue'[i] # c
        /\ queue'[Len(queue) + 1] = c
    BY <2>1 DEF TypeOK, SemInv, QueueInv
  <2>4. QueueInv'
    <3>1. \A i \in 1..Len(queue') : pc'[queue'[i]] = "queued"
      BY <2>1, <2>3 DEF SemInv, QueueInv, TypeOK
    <3>2. ASSUME NEW i \in 1..Len(queue'), NEW j \in 1..Len(queue'),
                 queue'[i] = queue'[j]
          PROVE  i = j
      <4>1. Len(queue) \in Nat
        BY DEF TypeOK
      <4>2. CASE i \in 1..Len(queue) /\ j \in 1..Len(queue)
        BY <2>3, <3>2, <4>2 DEF SemInv, QueueInv
      <4>3. QED
        BY <2>3, <3>2, <4>1, <4>2
    <3>3. ASSUME NEW d \in Waiting'
          PROVE  \E i \in 1..Len(queue') : queue'[i] = d
      BY <2>2, <2>3 DEF SemInv, QueueInv, TypeOK
    <3>4. QED
      BY <3>1, <3>2, <3>3 DEF QueueInv
  <2>5. QED
    BY <1>2, <2>1, <2>2, <2>4 DEF SemInv, Active
<1>3. QED
  BY <1>1, <1>2

\* A holder that leaves frees its permit or hands it to the first waiter.
LEMMA ReleaseStep ==
    ASSUME TypeOK, SemInv, NEW c \in Holders, Release(c)
    PROVE  SemInv' /\ Active' = Active \ {c} /\ permits' \in 0..MaxConcurrency
<1>0. /\ c \in Calls /\ pc[c] \in HolderStates
      /\ Cardinality(Holders) \in Nat
      /\ IsFiniteSet(Holders \ {c})
      /\ Cardinality(Holders \ {c}) = Cardinality(Holders) - 1
  BY FS_RemoveElement, FS_CardinalityType DEF SemInv, Holders, InTransport, HolderStates, CallStates
<1>00. Cardinality(Holders \ {c}) \in Nat
  BY <1>0, FS_CardinalityType
<1>000. pc[c] # "queued" /\ c \notin Waiting
  BY <1>0 DEF HolderStates, CallStates, Waiting
<1>1. CASE queue = <<>>
  <2>1. /\ pc' = [pc EXCEPT ![c] = "done"]
        /\ permits' = permits + 1 /\ queue' = queue
    BY <1>1 DEF Release
  <2>2. Holders' = Holders \ {c} /\ Waiting' = Waiting
    BY <1>0, <2>1 DEF Holders, InTransport, HolderStates, CallStates, Waiting, TypeOK
  <2>3. QueueInv'
    BY <1>1, <2>1, <2>2 DEF QueueInv, SemInv
  <2>4. permits' + Cardinality(Holders') = MaxConcurrency
    BY <1>0, <2>1, <2>2, GuardAssumption DEF SemInv, TypeOK
  <2>5. permits' \in 0..MaxConcurrency
    BY <1>00, <2>1, <2>2, <2>4, GuardAssumption DEF TypeOK
  <2>6. Active' = Active \ {c}
    BY <1>0, <2>2 DEF Active, Waiting, HolderStates, CallStates
  <2>7. QED
    BY <1>0, <1>1, <2>1, <2>2, <2>3, <2>4, <2>5, <2>6 DEF SemInv
<1>2. CASE queue # <<>>
  <2> DEFINE h == Head(queue)
  <2>1. /\ pc' = [pc EXCEPT ![c] = "done", ![h] = "session"]
        /\ permits' = permits /\ queue' = Tail(queue)
    BY <1>2 DEF Release
  <2>2. h = queue[1] /\ h \in Calls /\ Len(queue) > 0
    BY <1>2 DEF TypeOK
  <2>3. pc[h] = "queued" /\ h # c
    BY <1>0, <2>2 DEF SemInv, QueueInv, TypeOK, HolderStates, CallStates
  <2>4. /\ Len(queue') = Len(queue) - 1
        /\ \A i \in 1..Len(queue') : queue'[i] = queue[i + 1]
    BY <1>2, <2>1, HeadTailProperties DEF TypeOK
  <2>5. /\ Holders' = (Holders \ {c}) \union {h}
        /\ Waiting' = Waiting \ {h}
    BY <1>0, <2>1, <2>2, <2>3 DEF Holders, InTransport, HolderStates, CallStates, Waiting, TypeOK
  <2>6. QueueInv'
    <3>0. \A i \in 1..Len(queue') : i + 1 \in 1..Len(queue) /\ i + 1 # 1
      BY <2>2, <2>4 DEF TypeOK
    <3>1. \A i \in 1..Len(queue') : queue'[i] # h /\ pc[queue'[i]] = "queued"
      BY <2>2, <2>4, <3>0 DEF SemInv, QueueInv
    <3>2. \A i \in 1..Len(queue') : pc'[queue'[i]] = "queued"
      BY <1>0, <1>000, <2>1, <2>4, <3>1 DEF TypeOK
    <3>3. ASSUME NEW i \in 1..Len(queue'), NEW j \in 1..Len(queue'),
                 queue'[i] = queue'[j]
          PROVE  i = j
      <4>1. i + 1 = j + 1
        BY <2>4, <3>0, <3>3 DEF SemInv, QueueInv
      <4>2. QED
        BY <4>1
    <3>4. ASSUME NEW d \in Waiting'
          PROVE  \E i \in 1..Len(queue') : queue'[i] = d
      <4>1. PICK i \in 1..Len(queue) : queue[i] = d
        BY <2>5, <3>4 DEF SemInv, QueueInv
      <4>2. i # 1
        BY <2>2, <2>5, <3>4, <4>1
      <4>3. i - 1 \in 1..Len(queue') /\ (i - 1) + 1 = i
        BY <2>4, <4>1, <4>2
      <4>4. queue'[i - 1] = d
        BY <2>4, <4>1, <4>3
      <4>5. QED
        BY <4>3, <4>4
    <3>5. QED
      BY <3>2, <3>3, <3>4 DEF QueueInv
  <2>7. /\ IsFiniteSet(Holders')
        /\ Cardinality(Holders') = Cardinality(Holders)
    <3>1. h \notin Holders \ {c}
      BY <2>3 DEF Holders, InTransport
    <3>2. /\ IsFiniteSet((Holders \ {c}) \union {h})
          /\ Cardinality((Holders \ {c}) \union {h})
                = Cardinality(Holders \ {c}) + 1
      BY <1>0, <3>1, FS_AddElement
    <3>3. QED
      BY <1>0, <2>5, <3>2
  <2>8. permits = 0
    BY <1>2 DEF SemInv, TypeOK
  <2>9. Active' = Active \ {c}
    <3>1. h \in Waiting
      BY <2>2, <2>3 DEF Waiting
    <3>2. QED
      BY <1>000, <2>3, <2>5, <3>1 DEF Active
  <2>10. QED
    BY <2>1, <2>6, <2>7, <2>8, <2>9, GuardAssumption DEF SemInv, TypeOK
<1>3. QED
  BY <1>1, <1>2

\* A cancelled waiter leaves the queue and frees nothing.
LEMMA CancelWaiterStep ==
    ASSUME TypeOK, SemInv, NEW c \in Calls, CancelWaiter(c)
    PROVE  SemInv' /\ Active' = Active \ {c} /\ queue' \in Seq(Calls)
<1>1. PICK i \in 1..Len(queue) : queue[i] = c /\ queue' = RemoveAt(queue, i)
  BY DEF CancelWaiter
<1>2. /\ pc[c] = "queued" /\ pc' = [pc EXCEPT ![c] = "done"]
      /\ permits' = permits
  BY DEF CancelWaiter
<1>3. Holders' = Holders /\ Waiting' = Waiting \ {c}
  BY <1>2 DEF Holders, InTransport, Waiting, TypeOK
<1>4. /\ queue' \in Seq(Calls) /\ Len(queue') = Len(queue) - 1
      /\ \A k \in 1..(i - 1) : queue'[k] = queue[k]
      /\ \A k \in i..(Len(queue) - 1) : queue'[k] = queue[k + 1]
  <2>1. queue \in Seq(Calls)
    BY DEF TypeOK
  <2>2. QED
    BY <1>1, <2>1, RemoveAtEntries
<1>40. Len(queue) \in Nat /\ Len(queue') = Len(queue) - 1
  BY <1>4 DEF TypeOK
<1>5. QueueInv'
  <2> DEFINE old(k) == IF k < i THEN k ELSE k + 1
  <2>0. \A k \in 1..Len(queue') :
           /\ old(k) \in 1..Len(queue) /\ old(k) # i
           /\ queue'[k] = queue[old(k)]
    <3>1. ASSUME NEW k \in 1..Len(queue'), k < i
          PROVE  k \in 1..Len(queue) /\ k # i /\ queue'[k] = queue[k]
      <4>1. k \in 1..Len(queue) /\ k \in 1..(i - 1)
        BY <1>40, <3>1
      <4>2. QED
        BY <1>4, <3>1, <4>1
    <3>2. ASSUME NEW k \in 1..Len(queue'), ~(k < i)
          PROVE  /\ k + 1 \in 1..Len(queue) /\ k + 1 # i
                 /\ queue'[k] = queue[k + 1]
      BY <1>4, <3>2 DEF TypeOK
    <3>3. QED
      BY <3>1, <3>2
  <2>01. \A j, k \in 1..Len(queue') : old(j) = old(k) => j = k
    OBVIOUS
  <2> HIDE DEF old
  <2>1. ASSUME NEW k \in 1..Len(queue')
        PROVE  pc'[queue'[k]] = "queued"
    <3>1. pc[queue[old(k)]] = "queued" /\ queue[old(k)] # c
      BY <1>1, <2>0 DEF SemInv, QueueInv
    <3>2. QED
      BY <1>2, <2>0, <3>1 DEF TypeOK
  <2>2. \A j, k \in 1..Len(queue') : queue'[j] = queue'[k] => j = k
    BY <2>0, <2>01 DEF SemInv, QueueInv
  <2>3. ASSUME NEW d \in Waiting'
        PROVE  \E k \in 1..Len(queue') : queue'[k] = d
    <3>1. PICK j \in 1..Len(queue) : queue[j] = d /\ j # i
      BY <1>1, <1>3, <2>3 DEF SemInv, QueueInv
    <3>2. CASE j < i
      <4>1. j \in 1..Len(queue') /\ j \in 1..(i - 1)
        BY <1>40, <3>2
      <4>2. queue'[j] = d
        BY <1>4, <3>1, <4>1
      <4>3. QED
        BY <4>1, <4>2
    <3>3. CASE j > i
      <4>1. /\ j - 1 \in 1..Len(queue') /\ j - 1 \in i..(Len(queue) - 1)
            /\ (j - 1) + 1 = j
        BY <1>4, <3>3 DEF TypeOK
      <4>2. queue'[j - 1] = d
        BY <1>4, <3>1, <4>1
      <4>3. QED
        BY <4>1, <4>2
    <3>4. QED
      BY <3>1, <3>2, <3>3
  <2>4. QED
    BY <2>1, <2>2, <2>3 DEF QueueInv
<1>6. permits' > 0 => queue' = <<>>
  BY <1>1, <1>2 DEF SemInv
<1>7. Active' = Active \ {c}
  BY <1>2, <1>3 DEF Active, Holders, InTransport
<1>8. QED
  BY <1>2, <1>3, <1>4, <1>5, <1>6, <1>7 DEF SemInv

-----------------------------------------------------------------------------
(* Calls: the inductive step.  Six actions end a holder's call and differ only *)
(* in the verdict they give the breaker and in the result they return.         *)

LEMMA ExitStep ==
    ASSUME IInv, NEW c \in Holders, Release(c),
           NEW result \in Outcomes \ {"circuit_open"}, Returns(c, result),
           RecordSuccess \/ RecordFailure \/ ReleaseTrial,
           UNCHANGED crmVars, refetch' \in BOOLEAN
    PROVE  IInv'
<1>1. /\ TypeOK /\ SemInv /\ CallInv /\ TrialHasOwner /\ TrippedByFailures
      /\ c \in Calls /\ pc[c] \in HolderStates
  BY DEF IInv, Holders, InTransport, HolderStates, CallStates
<1>2. SemInv' /\ Active' = Active \ {c} /\ permits' \in 0..MaxConcurrency
  BY <1>1, ReleaseStep
<1>3. queue # <<>> => /\ Head(queue) \in Calls /\ Head(queue) # c
                      /\ pc[Head(queue)] = "queued"
                      /\ attempt[Head(queue)] = 0
                      /\ Tail(queue) \in Seq(Calls)
  <2>1. SUFFICES ASSUME queue # <<>>
                 PROVE  /\ Head(queue) \in Calls /\ Head(queue) # c
                        /\ pc[Head(queue)] = "queued"
                        /\ attempt[Head(queue)] = 0
                        /\ Tail(queue) \in Seq(Calls)
    OBVIOUS
  <2>2. 1 \in 1..Len(queue) /\ Head(queue) = queue[1]
    BY <1>1, <2>1 DEF TypeOK
  <2>3. Head(queue) \in Calls /\ Tail(queue) \in Seq(Calls)
    BY <1>1, <2>1 DEF TypeOK
  <2>4. pc[Head(queue)] = "queued"
    BY <1>1, <2>2 DEF SemInv, QueueInv
  <2>5. QED
    BY <1>1, <2>3, <2>4 DEF CallInv, CallOK, HolderStates, CallStates
<1>4. TypeOK'
  <2>1. /\ failures' \in Nat /\ circuit' \in {"closed", "open", "half_open"}
        /\ trial' \in BOOLEAN
    <3>1. CASE RecordSuccess
      BY <3>1 DEF RecordSuccess
    <3>2. CASE RecordFailure
      <4>1. failures' \in Nat
        BY <1>1, <3>2 DEF TypeOK, RecordFailure
      <4>2. circuit' \in {"open", "closed"}
        BY <3>2 DEF RecordFailure
      <4>3. QED
        BY <3>2, <4>1, <4>2 DEF RecordFailure
    <3>3. CASE ReleaseTrial
      BY <1>1, <3>3 DEF TypeOK, ReleaseTrial
    <3>4. QED
      BY <3>1, <3>2, <3>3
  <2>2. queue' \in Seq(Calls)
    BY <1>1, <1>3 DEF TypeOK, Release
  <2>3. pc' \in [Calls -> CallStates]
    BY <1>1, <1>3 DEF TypeOK, Release, CallStates
  <2>4. attempt' \in [Calls -> 0..2] /\ UNCHANGED <<onWire, applied>>
    <3>1. CASE queue = <<>>
      BY <1>1, <3>1 DEF TypeOK, Release, crmVars
    <3>2. CASE queue # <<>>
      <4>1. /\ attempt' = [attempt EXCEPT ![Head(queue)] = @ + 1]
            /\ UNCHANGED <<onWire, applied>>
        BY <3>2 DEF Release, Begin, crmVars
      <4>2. attempt[Head(queue)] + 1 \in 0..2
        BY <1>3, <3>2
      <4>3. QED
        BY <1>1, <1>3, <3>2, <4>1, <4>2 DEF TypeOK
    <3>3. QED
      BY <3>1, <3>2
  <2>5. outcome' \in [Calls -> Outcomes] /\ probes' \subseteq Calls
    BY <1>1 DEF TypeOK, Returns
  <2>6. QED
    BY <1>1, <1>2, <2>1, <2>2, <2>3, <2>4, <2>5 DEF TypeOK, CallStates
<1>5. TrialHasOwner'
  BY <1>1, <1>2 DEF TrialHasOwner, Returns, RecordSuccess, RecordFailure,
                    ReleaseTrial
<1>6. TrippedByFailures'
  BY <1>1, GuardAssumption
     DEF TypeOK, TrippedByFailures, RecordSuccess, RecordFailure, ReleaseTrial
<1>7. CallInv'
  <2>1. \A d \in Calls : outcome'[d] = "circuit_open"
                            => outcome[d] = "circuit_open" /\ d # c
    BY <1>1 DEF TypeOK, Returns
  <2>2. CASE queue = <<>>
    BY <1>1, <2>1, <2>2 DEF CallInv, CallOK, Release, TypeOK, Attempts, crmVars
  <2>3. CASE queue # <<>>
    <3> DEFINE h == Head(queue)
    <3>1. /\ pc' = [pc EXCEPT ![c] = "done", ![h] = "session"]
          /\ attempt' = [attempt EXCEPT ![h] = @ + 1]
          /\ UNCHANGED <<onWire, applied>>
      BY <2>3 DEF Release, Begin, crmVars
    <3>2. /\ h \in Calls /\ h # c /\ pc[h] = "queued" /\ attempt[h] = 0
      BY <1>3, <2>3
    <3> HIDE DEF h
    <3>3. ASSUME NEW d \in Calls, d # h
          PROVE  /\ pc'[d] \in {"idle", "queued"} => attempt'[d] = 0
                 /\ pc'[d] = "backoff" => attempt'[d] < Attempts(d)
                 /\ attempt'[d] <= Attempts(d)
                 /\ onWire'[d] + applied'[d] <= attempt'[d]
                 /\ pc'[d] \in {"session", "renewing"}
                       => onWire'[d] + applied'[d] < attempt'[d]
                 /\ outcome'[d] = "circuit_open"
                       => pc'[d] = "done" /\ attempt'[d] = 0
      BY <1>1, <2>1, <3>1, <3>2, <3>3 DEF CallInv, CallOK, TypeOK
    <3>4. /\ pc'[h] = "session" /\ attempt'[h] = 1
          /\ onWire'[h] + applied'[h] <= attempt'[h]
          /\ onWire'[h] + applied'[h] < attempt'[h]
          /\ 1 <= Attempts(h)
          /\ outcome'[h] # "circuit_open"
      BY <1>1, <2>1, <3>1, <3>2 DEF CallInv, CallOK, TypeOK, Attempts
    <3>5. QED
      BY <3>3, <3>4 DEF CallInv, CallOK, Attempts
  <2>4. QED
    BY <2>2, <2>3
<1>8. QED
  BY <1>2, <1>4, <1>5, <1>6, <1>7 DEF IInv

\* A call let in by the breaker.
LEMMA AdmitStep ==
    ASSUME IInv, NEW c \in Calls, Admit(c)
    PROVE  IInv'
<1>1. /\ TypeOK /\ SemInv /\ CallInv /\ TrialHasOwner /\ TrippedByFailures
      /\ pc[c] = "idle" /\ attempt[c] = 0 /\ Acquire(c)
      /\ outcome' = outcome /\ refetch' = refetch
      /\ onWire' = onWire /\ applied' = applied
      /\ failures' = failures /\ circuit' = circuit
      /\ outcome[c] # "circuit_open"
  BY DEF IInv, Admit, CallInv, CallOK, crmVars
<1>2. SemInv' /\ Active' = Active \union {c}
  BY <1>1, AcquireStep
<1>3. TypeOK'
  <2>1. trial' \in BOOLEAN /\ probes' \subseteq Calls
    BY <1>1 DEF TypeOK, Admit
  <2>2. /\ permits' \in 0..MaxConcurrency /\ queue' \in Seq(Calls)
        /\ pc' \in [Calls -> CallStates]
    <3>1. CASE permits > 0
      <4>1. permits' = permits - 1 /\ queue' = queue
            /\ pc' = [pc EXCEPT ![c] = "session"]
        BY <1>1, <3>1 DEF Acquire
      <4>2. permits' \in 0..MaxConcurrency
        BY <1>1, <3>1, <4>1, GuardAssumption DEF TypeOK
      <4>3. pc' \in [Calls -> CallStates]
        BY <1>1, <4>1 DEF TypeOK, CallStates
      <4>4. QED
        BY <1>1, <4>1, <4>2, <4>3 DEF TypeOK
    <3>2. CASE ~(permits > 0)
      <4>1. queue' = Append(queue, c) /\ pc' = [pc EXCEPT ![c] = "queued"]
        BY <1>1, <3>2 DEF Acquire
      <4>2. queue' \in Seq(Calls)
        BY <1>1, <4>1, AppendProperties DEF TypeOK
      <4>3. QED
        BY <1>1, <3>2, <4>1, <4>2 DEF TypeOK, Acquire, CallStates
    <3>3. QED
      BY <3>1, <3>2
  <2>3. attempt' \in [Calls -> 0..2]
    <3>1. CASE permits > 0
      <4>1. attempt' = [attempt EXCEPT ![c] = @ + 1]
        BY <1>1, <3>1 DEF Acquire, Begin
      <4>2. attempt[c] + 1 \in 0..2
        BY <1>1
      <4>3. QED
        BY <1>1, <4>1, <4>2 DEF TypeOK
    <3>2. CASE ~(permits > 0)
      BY <1>1, <3>2 DEF TypeOK, Acquire
    <3>3. QED
      BY <3>1, <3>2
  <2>4. QED
    BY <1>1, <2>1, <2>2, <2>3 DEF TypeOK, CallStates
<1>4. TrialHasOwner'
  <2>1. CASE circuit = "half_open"
    BY <1>1, <1>2, <2>1 DEF TrialHasOwner, Admit
  <2>2. CASE circuit # "half_open"
    <3>1. probes' = probes /\ trial' = (trial \/ FALSE)
      BY <2>2 DEF Admit
    <3>2. QED
      BY <1>1, <1>2, <3>1 DEF TrialHasOwner
  <2>3. QED
    BY <2>1, <2>2
<1>5. TrippedByFailures'
  BY <1>1 DEF TrippedByFailures
<1>6. CallInv'
  <2>1. CASE permits > 0
    <3>1. /\ pc' = [pc EXCEPT ![c] = "session"]
          /\ attempt' = [attempt EXCEPT ![c] = @ + 1]
      BY <1>1, <2>1 DEF Acquire, Begin
    <3>2. ASSUME NEW d \in Calls, d # c
          PROVE  CallOK(d)'
      BY <1>1, <3>1, <3>2 DEF CallInv, CallOK, TypeOK
    <3>3. /\ pc'[c] = "session" /\ attempt'[c] = 1
          /\ onWire[c] + applied[c] <= 0
      BY <1>1, <3>1 DEF CallInv, CallOK, TypeOK
    <3>4. onWire[c] \in Nat /\ applied[c] \in Nat
      BY <1>1 DEF TypeOK
    <3>5. CallOK(c)'
      BY <1>1, <3>3, <3>4 DEF CallOK, Attempts
    <3>6. QED
      BY <3>2, <3>5 DEF CallInv
  <2>2. CASE ~(permits > 0)
    BY <1>1, <2>2 DEF CallInv, CallOK, Acquire, TypeOK, Attempts
  <2>3. QED
    BY <2>1, <2>2
<1>7. QED
  BY <1>2, <1>3, <1>4, <1>5, <1>6 DEF IInv

\* A step that leaves the calls in progress and the semaphore alone.
LEMMA QuietStep ==
    ASSUME SemInv, TrialHasOwner, UNCHANGED <<semVars, pc>>, probes' = probes,
           trial' = trial
    PROVE  SemInv' /\ TrialHasOwner'
<1>1. Holders' = Holders /\ Waiting' = Waiting
  BY DEF Holders, InTransport, Waiting
<1>2. QED
  BY <1>1 DEF SemInv, QueueInv, TrialHasOwner, Active, semVars

\* A holder goes on inside its call.
LEMMA HolderMoves ==
    ASSUME TypeOK, SemInv, NEW c \in Holders, NEW s \in HolderStates,
           pc' = [pc EXCEPT ![c] = s], UNCHANGED semVars
    PROVE  SemInv' /\ Active' = Active
<1>1. Holders' = Holders /\ Waiting' = Waiting /\ pc[c] # "queued"
  BY DEF Holders, InTransport, HolderStates, CallStates, Waiting, TypeOK
<1>2. QueueInv'
  BY <1>1 DEF SemInv, QueueInv, semVars, TypeOK
<1>3. QED
  BY <1>1, <1>2 DEF SemInv, Active, semVars

THEOREM IInvStep == IInv /\ [Next]_vars => IInv'
<1> SUFFICES ASSUME IInv, [Next]_vars
             PROVE  IInv'
  OBVIOUS
<1>1. /\ TypeOK /\ SemInv /\ CallInv /\ TrialHasOwner /\ TrippedByFailures
  BY DEF IInv
<1>2. CASE CoolDownEnds
  <2>1. TrippedByFailures'
    BY <1>1, <1>2 DEF CoolDownEnds, TrippedByFailures
  <2>2. TypeOK' /\ CallInv'
    BY <1>1, <1>2 DEF CoolDownEnds, TypeOK, CallInv, CallOK, semVars, crmVars
  <2>3. SemInv' /\ TrialHasOwner'
    BY <1>1, <1>2, QuietStep DEF CoolDownEnds
  <2>4. QED
    BY <2>1, <2>2, <2>3 DEF IInv
<1>3. CASE ManifestRefetched
  <2>1. TrippedByFailures'
    BY <1>1, <1>3 DEF ManifestRefetched, TrippedByFailures, breakerVars
  <2>2. TypeOK' /\ CallInv'
    BY <1>1, <1>3
       DEF ManifestRefetched, TypeOK, CallInv, CallOK, semVars, crmVars, breakerVars
  <2>3. SemInv' /\ TrialHasOwner'
    BY <1>1, <1>3, QuietStep DEF ManifestRefetched, breakerVars
  <2>4. QED
    BY <2>1, <2>2, <2>3 DEF IInv
<1>4. ASSUME NEW c \in Calls, FailFast(c)
      PROVE  IInv'
  <2>1. Holders' = Holders /\ Waiting' = Waiting /\ c \notin Active
    BY <1>1, <1>4 DEF FailFast, Holders, InTransport, Waiting, Active, TypeOK
  <2>2. SemInv'
    <3>1. QueueInv'
      BY <1>1, <1>4, <2>1 DEF SemInv, QueueInv, FailFast, semVars, TypeOK
    <3>2. QED
      BY <1>1, <1>4, <2>1, <3>1 DEF SemInv, FailFast, semVars
  <2>3. TrialHasOwner'
    BY <1>1, <1>4, <2>1
       DEF TrialHasOwner, Active, FailFast, breakerVars, Returns
  <2>4. TrippedByFailures'
    BY <1>1, <1>4 DEF FailFast, TrippedByFailures, breakerVars
  <2>5. TypeOK'
    BY <1>1, <1>4
       DEF FailFast, Returns, TypeOK, Outcomes, breakerVars, semVars, crmVars
  <2>6. CallInv'
    BY <1>1, <1>4 DEF FailFast, Returns, TypeOK, CallInv, CallOK, crmVars
  <2>7. QED
    BY <2>2, <2>3, <2>4, <2>5, <2>6 DEF IInv
<1>5. ASSUME NEW c \in Calls, Admit(c)
      PROVE  IInv'
  BY <1>5, AdmitStep
<1>6. ASSUME NEW c \in Calls, Answered(c)
      PROVE  IInv'
  <2>1. PICK result \in {"answered", "error"} : Returns(c, result)
    BY <1>6 DEF Answered
  <2>2. c \in Holders /\ result \in Outcomes \ {"circuit_open"}
    BY <1>6 DEF Answered, Holders, InTransport, Outcomes
  <2>3. QED
    BY <1>1, <1>6, <2>1, <2>2, ExitStep DEF Answered, TypeOK
<1>7. ASSUME NEW c \in Calls, Retry(c)
      PROVE  IInv'
  <2>1. c \in Holders /\ pc' = [pc EXCEPT ![c] = "backoff"] /\ UNCHANGED semVars
    BY <1>7 DEF Retry, Holders
  <2>2. SemInv' /\ Active' = Active
    BY <1>1, <2>1, HolderMoves DEF HolderStates, CallStates
  <2>3. TrialHasOwner' /\ TrippedByFailures'
    BY <1>1, <1>7, <2>2 DEF TrialHasOwner, TrippedByFailures, Retry, breakerVars
  <2>4. TypeOK'
    BY <1>1, <1>7 DEF Retry, TypeOK, breakerVars, semVars, crmVars
  <2>5. CallInv'
    <3>1. ASSUME NEW d \in Calls, d # c
          PROVE  CallOK(d)'
      BY <1>1, <1>7, <3>1 DEF CallInv, CallOK, TypeOK, Retry, InTransport, crmVars
    <3>2. CallOK(c)
      BY <1>1 DEF CallInv, CallOK
    <3>3. onWire[c] \in Nat /\ applied[c] \in Nat /\ attempt[c] \in 0..2
      BY <1>1 DEF TypeOK
    <3>4. /\ onWire'[c] = onWire[c] /\ applied'[c] = applied[c]
          /\ attempt[c] < Attempts(c) /\ attempt'[c] = attempt[c]
          /\ pc[c] # "done" /\ pc'[c] = "backoff" /\ outcome'[c] = outcome[c]
      BY <1>1, <1>7 DEF TypeOK, Retry, InTransport, crmVars
    <3>5. CallOK(c)'
      BY <1>1, <1>7, <3>2, <3>3, <3>4 DEF CallOK, Attempts
    <3>6. QED
      BY <3>1, <3>5 DEF CallInv, CallOK
  <2>6. QED
    BY <2>2, <2>3, <2>4, <2>5 DEF IInv
<1>8. ASSUME NEW c \in Calls, RetryBegins(c)
      PROVE  IInv'
  <2>1. /\ c \in Holders /\ pc[c] = "backoff"
        /\ pc' = [pc EXCEPT ![c] = "session"] /\ UNCHANGED semVars
    BY <1>8 DEF RetryBegins, Holders
  <2>2. SemInv' /\ Active' = Active
    BY <1>1, <2>1, HolderMoves DEF HolderStates, CallStates
  <2>3. TrialHasOwner' /\ TrippedByFailures'
    BY <1>1, <1>8, <2>2
       DEF TrialHasOwner, TrippedByFailures, RetryBegins, breakerVars
  <2>4. TypeOK'
    <3>1. attempt[c] < Attempts(c) /\ Attempts(c) \in {1, 2}
      BY <1>1, <2>1 DEF CallInv, CallOK, Attempts
    <3>0. attempt[c] \in 0..2
      BY <1>1 DEF TypeOK
    <3>2. attempt[c] + 1 \in 0..2
      BY <3>0, <3>1
    <3>3. QED
      BY <1>1, <1>8, <3>2
         DEF RetryBegins, Begin, TypeOK, breakerVars, semVars, crmVars
  <2>5. CallInv'
    <3>1. ASSUME NEW d \in Calls, d # c
          PROVE  CallOK(d)'
      BY <1>1, <1>8, <3>1 DEF CallInv, CallOK, TypeOK, RetryBegins, Begin, crmVars
    <3>2. CallOK(c)
      BY <1>1 DEF CallInv, CallOK
    <3>3. onWire[c] \in Nat /\ applied[c] \in Nat /\ attempt[c] \in 0..2
      BY <1>1 DEF TypeOK
    <3>4. /\ onWire'[c] = onWire[c] /\ applied'[c] = applied[c]
          /\ pc[c] = "backoff" /\ attempt'[c] = attempt[c] + 1
          /\ pc'[c] = "session" /\ outcome'[c] = outcome[c]
      BY <1>1, <1>8 DEF TypeOK, RetryBegins, Begin, crmVars
    <3>5. CallOK(c)'
      BY <1>1, <1>8, <3>2, <3>3, <3>4 DEF CallOK, Attempts
    <3>6. QED
      BY <3>1, <3>5 DEF CallInv, CallOK
  <2>6. QED
    BY <2>2, <2>3, <2>4, <2>5 DEF IInv
<1>9. ASSUME NEW c \in Calls, Send(c)
      PROVE  IInv'
  <2> DEFINE s == IF pc[c] = "session" THEN "sending" ELSE "resending"
  <2>1. /\ c \in Holders /\ pc[c] \in {"session", "renewing"} /\ s \in HolderStates
        /\ pc' = [pc EXCEPT ![c] = s] /\ UNCHANGED semVars
        /\ s \in {"sending", "resending"}
    BY <1>9 DEF Send, Holders, InTransport, HolderStates, CallStates
  <2> HIDE DEF s
  <2>2. SemInv' /\ Active' = Active
    BY <1>1, <2>1, HolderMoves
  <2>3. TrialHasOwner' /\ TrippedByFailures'
    BY <1>1, <1>9, <2>2 DEF TrialHasOwner, TrippedByFailures, Send, breakerVars
  <2>4. TypeOK'
    BY <1>1, <1>9, <2>1 DEF Send, TypeOK, breakerVars, semVars
  <2>5. CallInv'
    <3>1. ASSUME NEW d \in Calls, d # c
          PROVE  CallOK(d)'
      BY <1>1, <1>9, <3>1 DEF CallInv, CallOK, TypeOK, Send
    <3>2. CallOK(c)
      BY <1>1 DEF CallInv, CallOK
    <3>3. onWire[c] \in Nat /\ applied[c] \in Nat /\ attempt[c] \in 0..2
      BY <1>1 DEF TypeOK
    <3>4. /\ onWire'[c] = onWire[c] + 1 /\ applied'[c] = applied[c]
          /\ pc[c] \in {"session", "renewing"} /\ attempt'[c] = attempt[c]
          /\ pc'[c] \in {"sending", "resending"} /\ outcome'[c] = outcome[c]
      BY <1>1, <1>9 DEF TypeOK, Send
    <3>5. CallOK(c)'
      BY <1>1, <1>9, <3>2, <3>3, <3>4 DEF CallOK, Attempts
    <3>6. QED
      BY <3>1, <3>5 DEF CallInv, CallOK
  <2>6. QED
    BY <2>2, <2>3, <2>4, <2>5 DEF IInv
<1>10. ASSUME NEW c \in Calls, SessionRefused(c)
       PROVE  IInv'
  <2>1. /\ c \in Holders /\ pc[c] = "sending" /\ onWire[c] > 0
        /\ pc' = [pc EXCEPT ![c] = "renewing"] /\ UNCHANGED semVars
        /\ onWire' = [onWire EXCEPT ![c] = @ - 1]
    BY <1>10 DEF SessionRefused, Holders, InTransport
  <2>2. SemInv' /\ Active' = Active
    BY <1>1, <2>1, HolderMoves DEF HolderStates, CallStates
  <2>3. TrialHasOwner' /\ TrippedByFailures'
    BY <1>1, <1>10, <2>2
       DEF TrialHasOwner, TrippedByFailures, SessionRefused, breakerVars
  <2>4. TypeOK'
    <3>1. onWire[c] - 1 \in Nat
      BY <1>1, <2>1 DEF TypeOK
    <3>2. QED
      BY <1>1, <1>10, <2>1, <3>1 DEF SessionRefused, TypeOK, breakerVars, semVars
  <2>5. CallInv'
    <3>1. ASSUME NEW d \in Calls, d # c
          PROVE  CallOK(d)'
      BY <1>1, <1>10, <3>1 DEF CallInv, CallOK, TypeOK, SessionRefused
    <3>2. CallOK(c)
      BY <1>1 DEF CallInv, CallOK
    <3>3. onWire[c] \in Nat /\ applied[c] \in Nat /\ attempt[c] \in 0..2
      BY <1>1 DEF TypeOK
    <3>4. /\ onWire'[c] = onWire[c] - 1 /\ applied'[c] = applied[c]
          /\ onWire[c] > 0 /\ pc'[c] = "renewing" /\ attempt'[c] = attempt[c]
          /\ outcome'[c] = outcome[c] /\ pc[c] = "sending"
      BY <1>1, <1>10 DEF TypeOK, SessionRefused
    <3>5. CallOK(c)'
      BY <1>1, <1>10, <3>2, <3>3, <3>4 DEF CallOK, Attempts
    <3>6. QED
      BY <3>1, <3>5 DEF CallInv, CallOK
  <2>6. QED
    BY <2>2, <2>3, <2>4, <2>5 DEF IInv
<1>11. ASSUME NEW c \in Calls, Unavailable(c) \/ Rejected(c) \/ ClientError(c)
       PROVE  IInv'
  <2>1. c \in Holders /\ "error" \in Outcomes \ {"circuit_open"}
    BY <1>11 DEF Unavailable, Rejected, ClientError, Holders, Outcomes
  <2>2. /\ Release(c) /\ Returns(c, "error") /\ UNCHANGED crmVars
        /\ RecordSuccess \/ RecordFailure \/ ReleaseTrial
        /\ refetch' \in BOOLEAN
    BY <1>1, <1>11 DEF Unavailable, Rejected, ClientError, TypeOK
  <2>3. QED
    BY <2>1, <2>2, ExitStep
<1>13. ASSUME NEW c \in Calls, CancelHolder(c)
       PROVE  IInv'
  <2>1. c \in Holders /\ "none" \in Outcomes \ {"circuit_open"}
    BY <1>13 DEF CancelHolder, Outcomes
  <2>2. QED
    BY <1>1, <1>13, <2>1, ExitStep DEF CancelHolder, TypeOK
<1>14. ASSUME NEW c \in Calls, CancelWaiter(c)
       PROVE  IInv'
  <2>1. SemInv' /\ Active' = Active \ {c} /\ queue' \in Seq(Calls)
    BY <1>1, <1>14, CancelWaiterStep
  <2>2. TrialHasOwner'
    BY <1>1, <1>14, <2>1 DEF TrialHasOwner, CancelWaiter, ReleaseTrial, Returns
  <2>3. TrippedByFailures'
    BY <1>1, <1>14 DEF TrippedByFailures, CancelWaiter, ReleaseTrial
  <2>4. TypeOK'
    BY <1>1, <1>14, <2>1
       DEF TypeOK, CancelWaiter, ReleaseTrial, Returns, Outcomes, crmVars
  <2>5. CallInv'
    BY <1>1, <1>14 DEF CallInv, CallOK, CancelWaiter, Returns, TypeOK, crmVars
  <2>6. QED
    BY <2>1, <2>2, <2>3, <2>4, <2>5 DEF IInv
<1>15. ASSUME NEW c \in Calls, CrmExecutes(c)
       PROVE  IInv'
  <2>1. TrippedByFailures'
    BY <1>1, <1>15 DEF CrmExecutes, TrippedByFailures, breakerVars
  <2>2. TypeOK'
    BY <1>1, <1>15 DEF CrmExecutes, TypeOK, breakerVars, semVars
  <2>3. CallInv'
    <3>1. ASSUME NEW d \in Calls, d # c
          PROVE  CallOK(d)'
      BY <1>1, <1>15, <3>1 DEF CallInv, CallOK, TypeOK, CrmExecutes
    <3>2. CallOK(c)
      BY <1>1 DEF CallInv, CallOK
    <3>3. onWire[c] \in Nat /\ applied[c] \in Nat /\ attempt[c] \in 0..2
      BY <1>1 DEF TypeOK
    <3>4. /\ onWire'[c] = onWire[c] - 1 /\ applied'[c] = applied[c] + 1
          /\ onWire[c] > 0 /\ pc'[c] = pc[c] /\ attempt'[c] = attempt[c]
          /\ outcome'[c] = outcome[c]
      BY <1>1, <1>15 DEF TypeOK, CrmExecutes
    <3>5. CallOK(c)'
      BY <1>1, <1>15, <3>2, <3>3, <3>4 DEF CallOK, Attempts
    <3>6. QED
      BY <3>1, <3>5 DEF CallInv, CallOK
  <2>4. SemInv' /\ TrialHasOwner'
    BY <1>1, <1>15, QuietStep DEF CrmExecutes, breakerVars
  <2>5. QED
    BY <2>1, <2>2, <2>3, <2>4 DEF IInv
<1>16. CASE UNCHANGED vars
  <2>1. TypeOK' /\ CallInv' /\ TrippedByFailures'
    BY <1>1, <1>16 DEF vars, TypeOK, CallInv, CallOK, TrippedByFailures
  <2>2. SemInv' /\ TrialHasOwner'
    BY <1>1, <1>16, QuietStep DEF vars, semVars
  <2>3. QED
    BY <2>1, <2>2 DEF IInv
<1>17. QED
  BY <1>2, <1>3, <1>4, <1>5, <1>6, <1>7, <1>8, <1>9, <1>10, <1>11,
     <1>13, <1>14, <1>15, <1>16 DEF Next

-----------------------------------------------------------------------------
(* Calls: the theorems *)

LEMMA InitIInv == Init => IInv
<1> SUFFICES ASSUME Init
             PROVE  IInv
  OBVIOUS
<1>1. TypeOK
  <2>1. permits \in 0..MaxConcurrency /\ failures \in Nat /\ queue \in Seq(Calls)
    BY GuardAssumption DEF Init
  <2>2. /\ attempt \in [Calls -> 0..2] /\ outcome \in [Calls -> Outcomes]
        /\ onWire \in [Calls -> Nat] /\ applied \in [Calls -> Nat]
    BY DEF Init, Outcomes
  <2>3. pc \in [Calls -> CallStates]
    BY DEF Init, CallStates
  <2>4. QED
    BY <2>1, <2>2, <2>3 DEF Init, TypeOK, CallStates
<1>2. Holders = {} /\ Waiting = {}
  BY DEF Init, Holders, InTransport, Waiting
<1>3. SemInv
  BY <1>2, FS_EmptySet, GuardAssumption DEF Init, SemInv, QueueInv
<1>4. TrialHasOwner /\ TrippedByFailures
  BY GuardAssumption DEF Init, TrialHasOwner, TrippedByFailures
<1>5. CallInv
  BY DEF Init, CallInv, CallOK, Attempts
<1>6. QED
  BY <1>1, <1>3, <1>4, <1>5 DEF IInv

LEMMA SpecIInv == Spec => []IInv
<1>1. QED
  BY InitIInv, IInvStep, PTL DEF Spec

\* The variables keep their types: in particular no call makes more than
\* two attempts and the semaphore never holds more permits than it was made with.
THEOREM TypeCorrect == Spec => []TypeOK
<1>1. IInv => TypeOK
  BY DEF IInv
<1>2. QED
  BY <1>1, SpecIInv, PTL

\* _trial_in_flight never outlives the calls let in as a trial, so no sequence
\* of answers, failures and cancellations leaves the tenant locked out.
THEOREM TrialFlagReleased == Spec => []TrialHasOwner
<1>1. IInv => TrialHasOwner
  BY DEF IInv
<1>2. QED
  BY <1>1, SpecIInv, PTL

\* The breaker is tripped exactly by failure_threshold failures without a
\* success in between.
THEOREM BreakerCounts == Spec => []TrippedByFailures
<1>1. IInv => TrippedByFailures
  BY DEF IInv
<1>2. QED
  BY <1>1, SpecIInv, PTL

\* No way a call can end loses a permit of the tenant's semaphore or a waiter.
THEOREM PermitsNeverLost == Spec => []PermitsConserved
<1>1. ASSUME IInv
      PROVE  PermitsConserved
  <2>1. ASSUME permits > 0, NEW c \in Waiting
        PROVE  FALSE
    <3>1. queue = <<>> /\ \E i \in 1..Len(queue) : queue[i] = c
      BY <1>1, <2>1 DEF IInv, SemInv, QueueInv
    <3>2. QED
      BY <3>1
  <2>2. QED
    BY <1>1, <2>1 DEF IInv, SemInv, PermitsConserved
<1>2. QED
  BY <1>1, SpecIInv, PTL

\* A write tool's request is executed at most once and never under way a second
\* time unless the CRM refused the first for its session; a call the breaker
\* refused or that still waits has sent nothing.
THEOREM WritesNeverRetried == Spec => []WriteAtMostOnce
<1>1. ASSUME IInv
      PROVE  WriteAtMostOnce
  <2>1. SUFFICES ASSUME NEW c \in Calls
                 PROVE  /\ c \notin ReadOnly => onWire[c] + applied[c] <= 1
                        /\ \/ outcome[c] = "circuit_open"
                           \/ pc[c] \in {"idle", "queued"}
                           => onWire[c] + applied[c] = 0
    BY DEF WriteAtMostOnce
  <2>2. onWire[c] \in Nat /\ applied[c] \in Nat /\ attempt[c] \in 0..2
    BY <1>1 DEF IInv, TypeOK
  <2>3. /\ onWire[c] + applied[c] <= attempt[c] /\ attempt[c] <= Attempts(c)
        /\ outcome[c] = "circuit_open" \/ pc[c] \in {"idle", "queued"}
              => attempt[c] = 0
    BY <1>1 DEF IInv, CallInv, CallOK
  <2>4. QED
    BY <2>2, <2>3 DEF Attempts
<1>2. QED
  BY <1>1, SpecIInv, PTL

\* While the breaker refuses calls, the calls in progress only drain.
THEOREM RefusingDrains == Spec => DrainsWhileRefusing
<1>1. ASSUME IInv, Refuses, [Next]_vars
      PROVE  Active' \subseteq Active
  <2>1. TypeOK /\ SemInv
    BY <1>1 DEF IInv
  <2>2. ASSUME NEW c \in Holders, Release(c)
        PROVE  Active' \subseteq Active
    BY <2>1, <2>2, ReleaseStep
  <2>3. ASSUME NEW c \in Calls, CancelWaiter(c)
        PROVE  Active' \subseteq Active
    BY <2>1, <2>3, CancelWaiterStep
  <2>4. ASSUME NEW c \in Calls, FailFast(c)
        PROVE  Active' \subseteq Active
    BY <2>1, <2>4 DEF FailFast, Active, Holders, InTransport, Waiting, TypeOK
  <2>5. ASSUME UNCHANGED pc
        PROVE  Active' \subseteq Active
    BY <2>5 DEF Active, Holders, InTransport, Waiting
  <2>6. CASE CoolDownEnds \/ ManifestRefetched \/ UNCHANGED vars
    BY <2>5, <2>6 DEF CoolDownEnds, ManifestRefetched, vars
  <2>7. ASSUME NEW c \in Calls,
               Answered(c) \/ Unavailable(c) \/ Rejected(c) \/ ClientError(c)
                  \/ CancelHolder(c)
        PROVE  Active' \subseteq Active
    <3>1. c \in Holders /\ Release(c)
      BY <2>7 DEF Answered, Unavailable, Rejected, ClientError, CancelHolder,
                  Holders, InTransport
    <3>2. QED
      BY <2>2, <3>1
  <2>8. ASSUME NEW c \in Calls,
               Send(c) \/ SessionRefused(c) \/ Retry(c) \/ RetryBegins(c)
        PROVE  Active' \subseteq Active
    <3>1. PICK s \in HolderStates : pc' = [pc EXCEPT ![c] = s]
      BY <2>8 DEF Send, SessionRefused, Retry, RetryBegins, HolderStates, CallStates
    <3>2. c \in Holders /\ UNCHANGED semVars
      BY <2>8 DEF Send, SessionRefused, Retry, RetryBegins, Holders, InTransport
    <3>3. QED
      BY <2>1, <3>1, <3>2, HolderMoves
  <2>9. ASSUME NEW c \in Calls, CrmExecutes(c)
        PROVE  Active' \subseteq Active
    BY <2>5, <2>9 DEF CrmExecutes
  <2>10. ASSUME NEW c \in Calls
         PROVE  ~Admit(c)
    BY <1>1 DEF Admit
  <2>11. QED
    BY <1>1, <2>3, <2>4, <2>6, <2>7, <2>8, <2>9, <2>10 DEF Next
<1>2. IInv /\ [Next]_vars => [Refuses => Active' \subseteq Active]_vars
  BY <1>1
<1>3. QED
  BY <1>2, SpecIInv, PTL DEF Spec, DrainsWhileRefusing

-----------------------------------------------------------------------------
(* Lists: the part of a list before an offset and the part behind it *)

Passed(s, o) == {s[i] : i \in {j \in DOMAIN s : j <= o}}
Coming(s, o) == {s[i] : i \in {j \in DOMAIN s : j > o}}

\* A record stands before the offset or behind it, and not on both sides.
LEMMA Sides ==
    ASSUME NEW T, NEW s \in Seq(T), NEW o \in Nat
    PROVE  /\ Passed(s, o) \union Coming(s, o) = ToSet(s)
           /\ IsInjective(s) => Passed(s, o) \cap Coming(s, o) = {}
           /\ Passed(s, 0) = {}
           /\ ToSet(s) \in SUBSET T
<1>1. DOMAIN s = 1..Len(s) /\ Len(s) \in Nat /\ \A i \in DOMAIN s : s[i] \in T
    BY LenProperties, ElementOfSeq
<1>2. Passed(s, o) \union Coming(s, o) = ToSet(s)
    BY <1>1 DEF Passed, Coming, ToSet
<1>3. ASSUME IsInjective(s)
      PROVE  Passed(s, o) \cap Coming(s, o) = {}
    <2>1. SUFFICES ASSUME NEW x \in Passed(s, o) \cap Coming(s, o)
                   PROVE  FALSE
        OBVIOUS
    <2>2. PICK i \in DOMAIN s : i <= o /\ s[i] = x
        BY <2>1 DEF Passed
    <2>3. PICK j \in DOMAIN s : j > o /\ s[j] = x
        BY <2>1 DEF Coming
    <2>4. i = j
        BY <1>3, <2>2, <2>3 DEF IsInjective
    <2>. QED BY <1>1, <2>2, <2>3, <2>4
<1>4. Passed(s, 0) = {}
    BY <1>1 DEF Passed
<1>. QED BY <1>1, <1>2, <1>3, <1>4 DEF ToSet

\* A record put at the front of the list pushes one record behind the offset.
LEMMA PutFirst ==
    ASSUME NEW T, NEW s \in Seq(T), NEW r \in T, NEW o \in Nat
    PROVE  /\ <<r>> \o s \in Seq(T)
           /\ ToSet(<<r>> \o s) = ToSet(s) \union {r}
           /\ Passed(<<r>> \o s, o) \subseteq Passed(s, o) \union {r}
           /\ \E x \in T : Coming(<<r>> \o s, o) \subseteq Coming(s, o) \union {x}
           /\ IsInjective(s) /\ r \notin ToSet(s) => IsInjective(<<r>> \o s)
<1> DEFINE t == <<r>> \o s
<1>1. DOMAIN s = 1..Len(s) /\ Len(s) \in Nat /\ \A i \in DOMAIN s : s[i] \in T
    BY LenProperties, ElementOfSeq
<1>2. /\ t \in Seq(T) /\ Len(t) = 1 + Len(s)
      /\ \A i \in 1..(1 + Len(s)) : t[i] = IF i <= 1 THEN r ELSE s[i - 1]
    <2>1. <<r>> \in Seq(T) /\ Len(<<r>>) = 1 /\ <<r>>[1] = r
        OBVIOUS
    <2>. QED BY <1>1, <2>1, ConcatProperties
<1>3. DOMAIN t = 1..(1 + Len(s))
    BY <1>2, LenProperties
<1>. HIDE DEF t
<1>4. t[1] = r /\ \A i \in 1..Len(s) : t[i + 1] = s[i]
    BY <1>1, <1>2
<1>5. \A k \in DOMAIN t : k = 1 \/ (k - 1 \in DOMAIN s /\ t[k] = s[k - 1])
    BY <1>1, <1>2, <1>3
<1>6. ToSet(t) = ToSet(s) \union {r}
    <2>1. ToSet(t) \subseteq ToSet(s) \union {r}
        BY <1>4, <1>5 DEF ToSet
    <2>2. r \in ToSet(t)
        BY <1>1, <1>3, <1>4 DEF ToSet
    <2>3. ASSUME NEW i \in DOMAIN s
          PROVE  s[i] \in ToSet(t)
        <3>1. i + 1 \in DOMAIN t /\ t[i + 1] = s[i]
            BY <1>1, <1>3, <1>4
        <3>. QED BY <3>1 DEF ToSet
    <2>. QED BY <2>1, <2>2, <2>3 DEF ToSet
<1>7. Passed(t, o) \subseteq Passed(s, o) \union {r}
    <2>1. ASSUME NEW k \in DOMAIN t, k <= o, k # 1
          PROVE  k - 1 \in DOMAIN s /\ k - 1 <= o /\ t[k] = s[k - 1]
        BY <1>3, <1>5, <2>1
    <2>. QED BY <1>4, <2>1 DEF Passed
<1>8. \E x \in T : Coming(t, o) \subseteq Coming(s, o) \union {x}
    <2> DEFINE x == IF o + 1 \in DOMAIN t THEN t[o + 1] ELSE r
    <2>1. x \in T
        BY <1>1, <1>2, <1>3, ElementOfSeq
    <2>2. ASSUME NEW k \in DOMAIN t, k > o, k # o + 1
          PROVE  t[k] \in Coming(s, o)
        <3>1. k - 1 \in DOMAIN s /\ k - 1 > o /\ t[k] = s[k - 1]
            BY <1>3, <1>5, <2>2
        <3>. QED BY <3>1 DEF Coming
    <2>3. Coming(t, o) \subseteq Coming(s, o) \union {x}
        BY <2>2 DEF Coming
    <2>. QED BY <2>1, <2>3
<1>9. ASSUME IsInjective(s), r \notin ToSet(s)
      PROVE  IsInjective(t)
    <2>1. \A i \in DOMAIN s : s[i] # r
        BY <1>9 DEF ToSet
    <2>2. ASSUME NEW j \in DOMAIN t, NEW k \in DOMAIN t, t[j] = t[k]
          PROVE  j = k
        <3>1. CASE j = 1
            BY <1>4, <1>5, <2>1, <2>2, <3>1
        <3>2. CASE k = 1
            BY <1>4, <1>5, <2>1, <2>2, <3>2
        <3>3. CASE j # 1 /\ k # 1
            <4>1. j - 1 = k - 1
                BY <1>5, <1>9, <2>2, <3>3 DEF IsInjective
            <4>. QED BY <1>3, <4>1
        <3>. QED BY <3>1, <3>2, <3>3
    <2>. QED BY <2>2 DEF IsInjective
<1>. QED BY <1>2, <1>6, <1>7, <1>8, <1>9 DEF t

\* Where the rows of a list with one removed stand.
LEMMA RemoveAtProperties ==
    ASSUME NEW T, NEW s \in Seq(T), NEW i \in DOMAIN s
    PROVE  /\ RemoveAt(s, i) \in Seq(T)
           /\ Len(RemoveAt(s, i)) = Len(s) - 1
           /\ \A k \in 1..(Len(s) - 1) :
                  RemoveAt(s, i)[k] = IF k < i THEN s[k] ELSE s[k + 1]
<1>1. DOMAIN s = 1..Len(s) /\ Len(s) \in Nat /\ \A j \in DOMAIN s : s[j] \in T
    BY LenProperties, ElementOfSeq
<1> DEFINE a == SubSeq(s, 1, i - 1)
           b == SubSeq(s, i + 1, Len(s))
<1>2. i \in 1..Len(s)
    BY <1>1
<1>3. /\ a \in Seq(T) /\ Len(a) = i - 1
      /\ \A k \in 1..(i - 1) : a[k] = s[k]
    <2>1. 1 \in Int /\ i - 1 \in Int /\ \A j \in 1..(i - 1) : s[j] \in T
        BY <1>1, <1>2
    <2>2. /\ a \in Seq(T)
          /\ Len(a) = IF 1 <= i - 1 THEN (i - 1) - 1 + 1 ELSE 0
          /\ \A k \in 1..((i - 1) - 1 + 1) : a[k] = s[1 + k - 1]
        BY <2>1, SubSeqProperties
    <2>. HIDE DEF a
    <2>. QED BY <1>2, <2>2
<1>4. /\ b \in Seq(T) /\ Len(b) = Len(s) - i
      /\ \A k \in 1..(Len(s) - i) : b[k] = s[i + k]
    <2>1. i + 1 \in Int /\ Len(s) \in Int /\ \A j \in (i + 1)..Len(s) : s[j] \in T
        BY <1>1, <1>2
    <2>2. /\ b \in Seq(T)
          /\ Len(b) = IF i + 1 <= Len(s) THEN Len(s) - (i + 1) + 1 ELSE 0
          /\ \A k \in 1..(Len(s) - (i + 1) + 1) : b[k] = s[(i + 1) + k - 1]
        BY <2>1, SubSeqProperties
    <2>. HIDE DEF b
    <2>3. Len(b) = Len(s) - i
        BY <1>1, <1>2, <2>2
    <2>4. ASSUME NEW k \in 1..(Len(s) - i)
          PROVE  b[k] = s[i + k]
        <3>1. k \in 1..(Len(s) - (i + 1) + 1) /\ (i + 1) + k - 1 = i + k
            BY <1>1, <1>2
        <3>. QED BY <2>2, <3>1
    <2>. QED BY <2>2, <2>3, <2>4
<1>5. /\ a \o b \in Seq(T) /\ Len(a \o b) = Len(a) + Len(b)
      /\ \A k \in 1..(Len(a) + Len(b)) : (a \o b)[k] = IF k <= Len(a) THEN a[k] ELSE b[k - Len(a)]
    <2>. HIDE DEF a, b
    <2>. QED BY <1>3, <1>4, ConcatProperties
<1>6. RemoveAt(s, i) = a \o b
    BY DEF RemoveAt
<1>. HIDE DEF a, b
<1>7. Len(a \o b) = Len(s) - 1
    BY <1>1, <1>2, <1>3, <1>4, <1>5
<1>8. ASSUME NEW k \in 1..(Len(s) - 1)
      PROVE  (a \o b)[k] = IF k < i THEN s[k] ELSE s[k + 1]
    <2>1. k \in 1..(Len(a) + Len(b))
        BY <1>1, <1>2, <1>3, <1>4, <1>8
    <2>2. CASE k < i
        BY <1>2, <1>3, <1>5, <2>1, <2>2
    <2>3. CASE ~(k < i)
        <3>1. k - (i - 1) \in 1..(Len(s) - i) /\ i + (k - (i - 1)) = k + 1
            BY <1>1, <1>2, <2>3
        <3>2. (a \o b)[k] = b[k - (i - 1)]
            BY <1>2, <1>3, <1>5, <2>1, <2>3
        <3>. QED BY <1>4, <2>3, <3>1, <3>2
    <2>. QED BY <2>2, <2>3
<1>. QED BY <1>5, <1>6, <1>7, <1>8

\* Removing a record brings one record before the offset, from behind it.
LEMMA Removed ==
    ASSUME NEW T, NEW s \in Seq(T), NEW i \in DOMAIN s, NEW o \in Nat, IsInjective(s)
    PROVE  /\ ToSet(RemoveAt(s, i)) = ToSet(s) \ {s[i]}
           /\ Coming(RemoveAt(s, i), o) \subseteq Coming(s, o)
           /\ \E x \in T : Passed(RemoveAt(s, i), o) \subseteq Passed(s, o) \union {x}
           /\ IsInjective(RemoveAt(s, i))
<1> DEFINE t == RemoveAt(s, i)
<1>1. DOMAIN s = 1..Len(s) /\ Len(s) \in Nat /\ \A j \in DOMAIN s : s[j] \in T
    BY LenProperties, ElementOfSeq
<1>2. /\ t \in Seq(T) /\ Len(t) = Len(s) - 1
      /\ \A k \in 1..(Len(s) - 1) : t[k] = IF k < i THEN s[k] ELSE s[k + 1]
    BY RemoveAtProperties
<1>3. DOMAIN t = 1..(Len(s) - 1)
    BY <1>2, LenProperties
<1>. HIDE DEF t
<1>4. \A k \in DOMAIN t : k < i => k \in DOMAIN s /\ t[k] = s[k]
    BY <1>1, <1>2, <1>3
<1>5. \A k \in DOMAIN t : ~(k < i) => k + 1 \in DOMAIN s /\ k + 1 > i /\ t[k] = s[k + 1]
    BY <1>1, <1>2, <1>3
<1>6. ToSet(t) = ToSet(s) \ {s[i]}
    <2>1. ASSUME NEW k \in DOMAIN t
          PROVE  t[k] \in ToSet(s) \ {s[i]}
        <3>1. CASE k < i
            BY <1>1, <1>4, <3>1 DEF ToSet, IsInjective
        <3>2. CASE ~(k < i)
            BY <1>1, <1>5, <3>2 DEF ToSet, IsInjective
        <3>. QED BY <3>1, <3>2
    <2>2. ASSUME NEW j \in DOMAIN s, j # i
          PROVE  s[j] \in ToSet(t)
        <3>1. CASE j < i
            <4>1. j \in DOMAIN t /\ t[j] = s[j]
                BY <1>1, <1>2, <1>3, <3>1
            <4>. QED BY <4>1 DEF ToSet
        <3>2. CASE j > i
            <4>1. j - 1 \in DOMAIN t /\ ~(j - 1 < i) /\ (j - 1) + 1 = j
                BY <1>1, <1>3, <3>2
            <4>2. t[j - 1] = s[j]
                BY <1>5, <4>1
            <4>. QED BY <4>1, <4>2 DEF ToSet
        <3>. QED BY <1>1, <2>2, <3>1, <3>2
    <2>. QED BY <2>1, <2>2 DEF ToSet
<1>7. ASSUME NEW k \in DOMAIN t, k > o
      PROVE  t[k] \in Coming(s, o)
    <2>1. CASE k < i
        BY <1>4, <1>7, <2>1 DEF Coming
    <2>2. CASE ~(k < i)
        <3>1. k + 1 \in DOMAIN s /\ k + 1 > o /\ t[k] = s[k + 1]
            BY <1>3, <1>5, <1>7, <2>2
        <3>. QED BY <3>1 DEF Coming
    <2>. QED BY <2>1, <2>2
<1>8. \E x \in T : Passed(t, o) \subseteq Passed(s, o) \union {x}
    <2> DEFINE x == IF o + 1 \in DOMAIN s THEN s[o + 1] ELSE s[i]
    <2>1. x \in T
        BY <1>1
    <2>2. ASSUME NEW k \in DOMAIN t, k <= o
          PROVE  t[k] \in Passed(s, o) \union {x}
        <3>1. CASE k < i
            BY <1>4, <2>2, <3>1 DEF Passed
        <3>2. CASE ~(k < i) /\ k < o
            <4>1. k + 1 \in DOMAIN s /\ k + 1 <= o /\ t[k] = s[k + 1]
                BY <1>3, <1>5, <3>2
            <4>. QED BY <4>1 DEF Passed
        <3>3. CASE ~(k < i) /\ k = o
            BY <1>5, <3>3
        <3>. QED BY <1>3, <2>2, <3>1, <3>2, <3>3
    <2>. QED BY <2>1, <2>2 DEF Passed
<1>9. ASSUME NEW j \in DOMAIN t, NEW k \in DOMAIN t, t[j] = t[k]
      PROVE  j = k
    <2>1. CASE j < i /\ k < i
        BY <1>4, <1>9, <2>1 DEF IsInjective
    <2>2. CASE ~(j < i) /\ ~(k < i)
        <3>1. j + 1 = k + 1
            BY <1>5, <1>9, <2>2 DEF IsInjective
        <3>. QED BY <1>3, <3>1
    <2>3. CASE j < i /\ ~(k < i)
        <3>1. j = k + 1
            BY <1>4, <1>5, <1>9, <2>3 DEF IsInjective
        <3>. QED BY <1>1, <1>3, <2>3, <3>1
    <2>4. CASE ~(j < i) /\ k < i
        <3>1. k = j + 1
            BY <1>4, <1>5, <1>9, <2>4 DEF IsInjective
        <3>. QED BY <1>1, <1>3, <2>4, <3>1
    <2>. QED BY <2>1, <2>2, <2>3, <2>4
<1>. QED BY <1>6, <1>7, <1>8, <1>9 DEF Coming, IsInjective, t
\* A record moved to the front stands before the offset; at most one goes behind.
LEMMA MovedFirst ==
    ASSUME NEW T, NEW s \in Seq(T), NEW i \in DOMAIN s, NEW o \in Nat, IsInjective(s)
    PROVE  LET t == <<s[i]>> \o RemoveAt(s, i)
           IN  /\ t \in Seq(T)
               /\ ToSet(t) = ToSet(s)
               /\ IsInjective(t)
               /\ Passed(t, o) \subseteq Passed(s, o) \union {s[i]}
               /\ \E x \in T : Coming(t, o) \subseteq Coming(s, o) \union {x}
<1> DEFINE u == RemoveAt(s, i)
           t == <<s[i]>> \o u
<1>1. DOMAIN s = 1..Len(s) /\ Len(s) \in Nat /\ \A j \in DOMAIN s : s[j] \in T
    BY LenProperties, ElementOfSeq
<1>2. /\ u \in Seq(T) /\ Len(u) = Len(s) - 1
      /\ \A k \in 1..(Len(s) - 1) : u[k] = IF k < i THEN s[k] ELSE s[k + 1]
    BY RemoveAtProperties
<1>3. ToSet(u) = ToSet(s) \ {s[i]} /\ IsInjective(u)
    <2>1. o \in Nat
        OBVIOUS
    <2>. QED BY <2>1, Removed
<1>. HIDE DEF u
<1>4. s[i] \in T /\ s[i] \notin ToSet(u) /\ s[i] \in ToSet(s)
    BY <1>1, <1>3 DEF ToSet
<1>5. t \in Seq(T) /\ ToSet(t) = ToSet(s) /\ IsInjective(t)
    <2>1. t \in Seq(T) /\ ToSet(t) = ToSet(u) \union {s[i]} /\ IsInjective(t)
        BY <1>2, <1>3, <1>4, PutFirst
    <2>. QED BY <1>3, <1>4, <2>1
<1>6. /\ Len(t) = 1 + Len(u)
      /\ \A k \in 1..(1 + Len(u)) : t[k] = IF k <= 1 THEN s[i] ELSE u[k - 1]
    <2>1. <<s[i]>> \in Seq(T) /\ Len(<<s[i]>>) = 1 /\ <<s[i]>>[1] = s[i]
        BY <1>4
    <2>2. Len(u) \in Nat
        BY <1>2, LenProperties
    <2>. QED BY <1>2, <2>1, <2>2, ConcatProperties
<1>7. DOMAIN t = 1..Len(s)
    <2>1. Len(t) = Len(s)
        <3>. HIDE DEF t
        <3>. QED BY <1>1, <1>2, <1>6
    <2>. QED BY <1>5, <2>1, LenProperties
<1>. HIDE DEF t
<1>8. 1 \in DOMAIN t => t[1] = s[i]
    BY <1>1, <1>2, <1>6, <1>7
<1>9. ASSUME NEW k \in DOMAIN t, k # 1
      PROVE  /\ k <= i => k - 1 \in DOMAIN s /\ t[k] = s[k - 1]
             /\ k > i => k \in DOMAIN s /\ t[k] = s[k]
    <2>1. k - 1 \in 1..(Len(s) - 1) /\ t[k] = u[k - 1]
        BY <1>1, <1>2, <1>6, <1>7, <1>9
    <2>2. CASE k <= i
        <3>1. k - 1 < i /\ k - 1 \in DOMAIN s
            BY <1>1, <1>7, <2>1, <2>2
        <3>2. t[k] = s[k - 1]
            BY <1>2, <2>1, <3>1
        <3>. QED BY <1>1, <1>7, <2>2, <3>1, <3>2
    <2>3. CASE k > i
        <3>1. (k - 1) + 1 = k /\ ~(k - 1 < i)
            BY <1>1, <1>7, <2>3
        <3>. QED BY <1>1, <1>2, <1>7, <2>1, <2>3, <3>1
    <2>. QED BY <1>1, <1>7, <2>2, <2>3
<1>10. ASSUME NEW k \in DOMAIN t, k <= o
       PROVE  t[k] \in Passed(s, o) \union {s[i]}
    <2>1. CASE k = 1
        BY <1>8, <2>1
    <2>2. CASE k # 1 /\ k <= i
        <3>1. k - 1 \in DOMAIN s /\ k - 1 <= o /\ t[k] = s[k - 1]
            BY <1>7, <1>9, <1>10, <2>2
        <3>. QED BY <3>1 DEF Passed
    <2>3. CASE k # 1 /\ k > i
        BY <1>9, <1>10, <2>3 DEF Passed
    <2>. QED BY <1>1, <1>7, <2>1, <2>2, <2>3
<1>11. \E x \in T : Coming(t, o) \subseteq Coming(s, o) \union {x}
    <2> DEFINE x == IF o \in DOMAIN s THEN s[o] ELSE s[i]
    <2>1. x \in T
        BY <1>1
    <2>2. ASSUME NEW k \in DOMAIN t, k > o
          PROVE  t[k] \in Coming(s, o) \union {x}
        <3>1. CASE k = 1
            <4>1. o = 0
                BY <2>2, <3>1
            <4>2. i > o
                BY <1>1, <4>1
            <4>. QED BY <1>8, <3>1, <4>2 DEF Coming
        <3>2. CASE k # 1 /\ k <= i /\ k - 1 = o
            BY <1>9, <3>2
        <3>3. CASE k # 1 /\ k <= i /\ k - 1 # o
            <4>1. k - 1 \in DOMAIN s /\ k - 1 > o /\ t[k] = s[k - 1]
                BY <1>7, <1>9, <2>2, <3>3
            <4>. QED BY <4>1 DEF Coming
        <3>4. CASE k # 1 /\ k > i
            BY <1>9, <2>2, <3>4 DEF Coming
        <3>. QED BY <1>1, <1>7, <3>1, <3>2, <3>3, <3>4
    <2>. QED BY <2>1, <2>2 DEF Coming
<1>12. Passed(t, o) \subseteq Passed(s, o) \union {s[i]}
    BY <1>10 DEF Passed
<1>. QED BY <1>5, <1>11, <1>12 DEF t, u
\* A page is what comes next, as much as was asked for or all there is.
LEMMA PageProperties ==
    ASSUME NEW T, NEW s \in Seq(T), NEW o \in Nat, NEW n \in Nat, IsInjective(s)
    PROVE  LET p == SubSeq(s, o + 1, IF o + n < Len(s) THEN o + n ELSE Len(s))
           IN  /\ p \in Seq(T) /\ Len(p) <= n
               /\ IsInjective(p)
               /\ ToSet(p) \subseteq Coming(s, o)
               /\ Len(p) < n => Coming(s, o) = ToSet(p)
               /\ Passed(s, o + Len(p)) \subseteq Passed(s, o) \union ToSet(p)
               /\ Coming(s, o + Len(p)) \subseteq Coming(s, o) \ ToSet(p)
<1>1. DOMAIN s = 1..Len(s) /\ Len(s) \in Nat /\ \A j \in DOMAIN s : s[j] \in T
    BY LenProperties, ElementOfSeq
<1> DEFINE e == IF o + n < Len(s) THEN o + n ELSE Len(s)
           p == SubSeq(s, o + 1, e)
<1>2. e \in Nat /\ e <= Len(s) /\ e <= o + n /\ (e = Len(s) \/ e = o + n)
    <2>1. Len(s) \in Nat
        BY <1>1
    <2>2. CASE o + n < Len(s)
        BY <2>1, <2>2
    <2>3. CASE ~(o + n < Len(s))
        BY <2>1, <2>3
    <2>. QED BY <2>2, <2>3
<1>. HIDE DEF e
<1>3. /\ p \in Seq(T)
      /\ Len(p) = IF o < e THEN e - o ELSE 0
      /\ \A k \in 1..(e - o) : p[k] = s[o + k]
    <2>0. Len(s) \in Nat
        BY <1>1
    <2>1. o + 1 \in Int /\ e \in Int /\ \A j \in (o + 1)..e : s[j] \in T
        <3>1. ASSUME NEW j \in (o + 1)..e
              PROVE  s[j] \in T
            <4>1. j \in Nat /\ 1 <= j /\ j <= Len(s)
                BY <1>2, <2>0, <3>1
            <4>2. j \in DOMAIN s
                BY <1>1, <4>1
            <4>. QED BY <1>1, <4>2
        <3>. QED BY <1>2, <2>0, <3>1
    <2>2. /\ p \in Seq(T)
          /\ Len(p) = IF o + 1 <= e THEN e - (o + 1) + 1 ELSE 0
          /\ \A k \in 1..(e - (o + 1) + 1) : p[k] = s[(o + 1) + k - 1]
        BY <2>1, SubSeqProperties
    <2>. HIDE DEF p
    <2>3. Len(p) = IF o < e THEN e - o ELSE 0
        BY <1>2, <2>2
    <2>4. ASSUME NEW k \in 1..(e - o)
          PROVE  p[k] = s[o + k]
        <3>1. k \in 1..(e - (o + 1) + 1) /\ (o + 1) + k - 1 = o + k
            BY <1>2
        <3>. QED BY <2>2, <3>1
    <2>. QED BY <2>2, <2>3, <2>4
<1>. HIDE DEF p
<1>4. DOMAIN p = 1..Len(p) /\ Len(p) \in Nat
    BY <1>3, LenProperties
<1>5. ASSUME NEW k \in DOMAIN p
      PROVE  o + k \in DOMAIN s /\ o + k > o /\ p[k] = s[o + k] /\ o + k <= o + Len(p)
    <2>1. k \in 1..(e - o) /\ k <= Len(p) /\ Len(p) = e - o
        BY <1>2, <1>3, <1>4, <1>5
    <2>0. Len(s) \in Nat
        BY <1>1
    <2>2. o + k \in 1..Len(s)
        BY <1>2, <2>0, <2>1
    <2>3. p[k] = s[o + k]
        BY <1>3, <2>1
    <2>. QED BY <1>1, <1>4, <2>1, <2>2, <2>3
<1>6. ASSUME NEW j \in DOMAIN s, j > o, j <= o + Len(p)
      PROVE  j - o \in DOMAIN p /\ p[j - o] = s[j]
    <2>1. j - o \in DOMAIN p /\ o + (j - o) = j
        BY <1>1, <1>4, <1>6
    <2>. QED BY <1>5, <2>1
<1>7. IsInjective(p)
    <2>1. ASSUME NEW j \in DOMAIN p, NEW k \in DOMAIN p, p[j] = p[k]
          PROVE  j = k
        <3>1. o + j = o + k
            BY <1>5, <2>1 DEF IsInjective
        <3>. QED BY <1>4, <3>1
    <2>. QED BY <2>1 DEF IsInjective
<1>8. ToSet(p) \subseteq Coming(s, o)
    BY <1>5 DEF ToSet, Coming
<1>9. ASSUME Len(p) < n
      PROVE  Coming(s, o) \subseteq ToSet(p)
    <2>1. e = Len(s)
        BY <1>2, <1>3, <1>9
    <2>2. ASSUME NEW j \in DOMAIN s, j > o
          PROVE  s[j] \in ToSet(p)
        <3>1. j <= o + Len(p)
            <4>1. j \in Nat /\ j <= e
                BY <1>1, <2>1, <2>2
            <4>2. Len(p) = e - o
                BY <1>2, <1>3, <2>2, <4>1
            <4>. QED BY <1>2, <4>1, <4>2
        <3>. QED BY <1>6, <2>2, <3>1 DEF ToSet
    <2>. QED BY <2>2 DEF Coming
<1>10. Passed(s, o + Len(p)) \subseteq Passed(s, o) \union ToSet(p)
    <2>1. ASSUME NEW j \in DOMAIN s, j <= o + Len(p), ~(j <= o)
          PROVE  s[j] \in ToSet(p)
        <3>1. j > o
            BY <1>1, <2>1
        <3>. QED BY <1>6, <2>1, <3>1 DEF ToSet
    <2>. QED BY <2>1 DEF Passed
<1>11. ASSUME NEW j \in DOMAIN s, j > o + Len(p)
       PROVE  s[j] \in Coming(s, o) \ ToSet(p)
    <2>1. j > o
        BY <1>1, <1>4, <1>11
    <2>2. s[j] \notin ToSet(p)
        <3>1. SUFFICES ASSUME NEW k \in DOMAIN p, p[k] = s[j] PROVE FALSE
            BY DEF ToSet
        <3>2. o + k = j
            BY <1>5, <3>1 DEF IsInjective
        <3>. QED BY <1>1, <1>4, <1>5, <1>11, <3>2
    <2>. QED BY <2>1, <2>2 DEF Coming
<1>12. Coming(s, o + Len(p)) \subseteq Coming(s, o) \ ToSet(p)
    BY <1>11 DEF Coming
<1>13. Len(p) <= n
    BY <1>2, <1>3
<1>. QED BY <1>3, <1>7, <1>8, <1>9, <1>10, <1>12, <1>13 DEF p, e

-----------------------------------------------------------------------------
(* Lists: the invariant *)

\* Rows read twice, or to be read again, are no more than moved down.
Doubles(s, o, got, down) ==
    Len(got) + Cardinality(ToSet(got) \cap Coming(s, o)) <= Cardinality(ToSet(got)) + down

\* Records behind which the read has passed without having them are no more than
\* moved up.
Misses(s, o, got, stayed, up) ==
    Cardinality((stayed \cap Passed(s, o)) \ ToSet(got)) <= up

ListTypeOK ==
    /\ list \in [1..Sources -> Seq(Records)]
    /\ read \in [pc : {"idle", "listing", "overview", "done", "failed"},
                 source : 1..Sources, offset : Nat, got : Seq(Records), tries : Nat]
    /\ seen \in [stayed : SUBSET Records, ever : SUBSET Records, down : Nat, up : Nat]

\* A record is in the list of one module, once.
OneList ==
    /\ \A m \in 1..Sources : IsInjective(list[m])
    /\ \A m, n \in 1..Sources : m # n => ToSet(list[m]) \cap ToSet(list[n]) = {}

SeenRight ==
    /\ read.pc = "idle" => read = NotReading
    /\ seen.stayed \subseteq ToSet(list[read.source])
    /\ ToSet(list[read.source]) \subseteq seen.ever

ReadSoFar ==
    read.pc = "listing" =>
        /\ Len(read.got) = read.offset
        /\ Len(read.got) < MaxRead
        /\ Doubles(list[read.source], read.offset, read.got, seen.down)
        /\ Misses(list[read.source], read.offset, read.got, seen.stayed, seen.up)

LastSource == read.pc = "overview" => read.source = Sources

ReadDone ==
    read.pc = "done" =>
        /\ Len(read.got) <= Cardinality(ToSet(read.got)) + seen.down
        /\ \/ Len(read.got) >= MaxRead
           \/ seen.ever \cap Strange # {}
           \/ Cardinality(seen.stayed \ ToSet(read.got)) <= seen.up

ListInv == ListTypeOK /\ OneList /\ SeenRight /\ ReadSoFar /\ LastSource /\ ReadDone
-----------------------------------------------------------------------------
(* Counting doubles and misses *)

\* One element more adds at most one.
LEMMA OneMore ==
    ASSUME NEW A, NEW B, NEW x, IsFiniteSet(B), A \subseteq B \union {x}
    PROVE  /\ IsFiniteSet(A) /\ Cardinality(A) \in Nat /\ Cardinality(B) \in Nat
           /\ Cardinality(A) <= Cardinality(B) + 1
<1>1. /\ IsFiniteSet(B \union {x})
      /\ Cardinality(B \union {x}) = IF x \in B THEN Cardinality(B) ELSE Cardinality(B) + 1
    BY FS_AddElement
<1>2. IsFiniteSet(A) /\ Cardinality(A) <= Cardinality(B \union {x})
    BY <1>1, FS_Subset
<1>3. Cardinality(A) \in Nat /\ Cardinality(B) \in Nat
    BY <1>2, FS_CardinalityType
<1>. QED BY <1>1, <1>2, <1>3

\* No more elements, no greater number.
LEMMA NoMore ==
    ASSUME NEW A, NEW B, IsFiniteSet(B), A \subseteq B
    PROVE  /\ IsFiniteSet(A) /\ Cardinality(A) \in Nat /\ Cardinality(B) \in Nat
           /\ Cardinality(A) <= Cardinality(B)
BY FS_Subset, FS_CardinalityType

\* Rows read from what comes next: each one that was had before was counted as
\* one to be read again.
LEMMA DoublesRead ==
    ASSUME NEW G, IsFiniteSet(G), NEW Q, IsFiniteSet(Q), NEW C, Q \subseteq C,
           NEW D, D \subseteq C \ Q, NEW n \in Nat, NEW d \in Nat,
           n + Cardinality(G \cap C) <= Cardinality(G) + d
    PROVE  n + Cardinality(Q) + Cardinality((G \union Q) \cap D)
             <= Cardinality(G \union Q) + d
<1> DEFINE H == G \cap C
           J == G \cap Q
           K == (G \union Q) \cap D
<1>1. IsFiniteSet(H) /\ IsFiniteSet(J)
    BY FS_Intersection
<1>2. Cardinality(G \union Q) = Cardinality(G) + Cardinality(Q) - Cardinality(J)
    BY FS_Union
<1>3. IsFiniteSet(H \ Q) /\ Cardinality(H \ Q) = Cardinality(H) - Cardinality(J)
    <2>1. H \cap Q = J
        OBVIOUS
    <2>. HIDE DEF H, J
    <2>. QED BY <1>1, <2>1, FS_Difference
<1>4. IsFiniteSet(K) /\ Cardinality(K) <= Cardinality(H \ Q)
    <2>1. K \subseteq H \ Q
        OBVIOUS
    <2>. HIDE DEF H, K
    <2>. QED BY <1>3, <2>1, NoMore
<1>5. /\ Cardinality(G) \in Nat /\ Cardinality(Q) \in Nat /\ Cardinality(H) \in Nat
      /\ Cardinality(J) \in Nat /\ Cardinality(K) \in Nat
    BY <1>1, <1>4, FS_CardinalityType
<1>. QED
    <2>. HIDE DEF H, J, K
    <2>1. n + Cardinality(Q) + Cardinality(K) <= Cardinality(G \union Q) + d
        <3>1. n + Cardinality(H) <= Cardinality(G) + d
            BY DEF H
        <3>. QED BY <1>2, <1>3, <1>4, <1>5, <3>1
    <2>. QED BY <2>1 DEF K

\* What of a page is taken for records.
LEMMA ReadableProperties ==
    ASSUME NEW rows \in Seq(Records)
    PROVE  /\ Readable(rows) \in Seq(Records)
           /\ Len(Readable(rows)) <= Len(rows)
           /\ ToSet(Readable(rows)) = ToSet(rows) \cap (Records \ Strange)
           /\ IsInjective(rows) => IsInjective(Readable(rows))
           /\ Len(Readable(rows)) = Len(rows) <=> ToSet(rows) \subseteq Records \ Strange
<1> DEFINE S == Records \ Strange
<1>1. Readable(rows) = Only(rows, S)
    BY DEF Readable
<1>. HIDE DEF S
<1>2. /\ Only(rows, S) \in Seq(Records \cap S)
      /\ Len(Only(rows, S)) <= Len(rows)
      /\ ToSet(Only(rows, S)) = ToSet(rows) \cap S
      /\ IsInjective(rows) => IsInjective(Only(rows, S))
      /\ Len(Only(rows, S)) = Len(rows) <=> ToSet(rows) \subseteq S
    BY OnlyProperties
<1>3. Only(rows, S) \in Seq(Records)
    BY <1>2, SeqMonotonic
<1>. QED BY <1>1, <1>2, <1>3 DEF S

\* What a page of n rows asked for adds to what was got of the list before.
PageTaken(s, o, n, got, stayed, down, up, page, more) ==
    /\ more \in Seq(Records) /\ Len(page) \in Nat
    /\ Len(Readable(page)) \in Nat /\ Len(more) = Len(got) + Len(Readable(page))
    /\ Len(more) <= Cardinality(ToSet(more)) + down
    /\ Len(Readable(page)) >= n =>
           /\ Len(page) = n /\ Len(more) = o + Len(page)
           /\ Doubles(s, o + Len(page), more, down)
           /\ Misses(s, o + Len(page), more, stayed, up)
    /\ Len(Readable(page)) < n =>
           \/ ToSet(s) \cap Strange # {}
           \/ Cardinality(stayed \ ToSet(more)) <= up

\* A page of the list and what of it is taken for records.
LEMMA ReadMore ==
    ASSUME NEW s \in Seq(Records), IsInjective(s), NEW o \in Nat, NEW n \in Nat,
           NEW got \in Seq(Records), Len(got) = o,
           NEW stayed \in SUBSET ToSet(s), NEW down \in Nat, NEW up \in Nat,
           Doubles(s, o, got, down), Misses(s, o, got, stayed, up),
           NEW page, page = SubSeq(s, o + 1, IF o + n < Len(s) THEN o + n ELSE Len(s)),
           NEW more, more = got \o Readable(page)
    PROVE  PageTaken(s, o, n, got, stayed, down, up, page, more)
<1> DEFINE P == ToSet(page)
           recs == Readable(page)
           Q == ToSet(recs)
           G == ToSet(got)
           C == Coming(s, o)
<1>1. /\ page \in Seq(Records) /\ Len(page) <= n
      /\ IsInjective(page)
      /\ P \subseteq C
      /\ Len(page) < n => C = P
      /\ Passed(s, o + Len(page)) \subseteq Passed(s, o) \union P
      /\ Coming(s, o + Len(page)) \subseteq C \ P
    BY PageProperties
<1>2. /\ recs \in Seq(Records)
      /\ Len(recs) <= Len(page)
      /\ Q = P \cap (Records \ Strange)
      /\ IsInjective(recs)
      /\ Len(recs) = Len(page) <=> P \subseteq Records \ Strange
    <2>1. page \in Seq(Records) /\ IsInjective(page)
        BY <1>1
    <2>. HIDE DEF P
    <2>. QED BY <2>1, ReadableProperties DEF P
<1>3. recs \in Seq(Records)
    BY <1>2
<1>4. Len(page) \in Nat /\ Len(recs) \in Nat /\ Len(got) \in Nat
    BY <1>1, <1>3, LenProperties
<1>5. more \in Seq(Records) /\ Len(more) = Len(got) + Len(recs) /\ ToSet(more) = G \union Q
    BY <1>3, ConcatElements
<1>6. IsFiniteSet(Q) /\ Cardinality(Q) = Len(recs)
    BY <1>2, <1>3, DifferentRows
<1>7. IsFiniteSet(G)
    BY DifferentRows
<1>8. P \in SUBSET Records
    BY <1>1, Sides
<1>9. Passed(s, o) \union C = ToSet(s)
    BY Sides
<1>10. Q \subseteq C
    BY <1>1, <1>2
<1>11. o + Cardinality(G \cap C) <= Cardinality(G) + down
    BY DEF Doubles
<1>12. IsFiniteSet((stayed \cap Passed(s, o)) \ G) /\ Cardinality((stayed \cap Passed(s, o)) \ G) <= up
    <2>1. (stayed \cap Passed(s, o)) \ G \subseteq ToSet(s)
        OBVIOUS
    <2>2. IsFiniteSet(ToSet(s))
        BY DifferentRows
    <2>. QED BY <2>1, <2>2, NoMore DEF Misses
<1>. HIDE DEF P, recs, Q, G, C
<1>13. Len(more) <= Cardinality(ToSet(more)) + down
    <2>1. {} \subseteq C \ Q
        OBVIOUS
    <2>2. o + Cardinality(Q) + Cardinality((G \union Q) \cap {}) <= Cardinality(G \union Q) + down
        BY <1>6, <1>7, <1>10, <1>11, <2>1, DoublesRead
    <2>3. (G \union Q) \cap {} = {}
        OBVIOUS
    <2>4. Cardinality((G \union Q) \cap {}) = 0
        BY <2>3, FS_EmptySet
    <2>5. Len(more) = o + Cardinality(Q) /\ Len(more) \in Nat
        BY <1>4, <1>5, <1>6
    <2>6. Cardinality(G \union Q) \in Nat
        BY <1>6, <1>7, FS_Union, FS_CardinalityType
    <2>7. Len(more) + 0 <= Cardinality(G \union Q) + down
        BY <2>2, <2>4, <2>5
    <2>8. Len(more) <= Cardinality(G \union Q) + down
        BY <2>5, <2>6, <2>7
    <2>. QED BY <1>5, <2>8
<1>14. ASSUME Len(recs) >= n
       PROVE  /\ Len(page) = n /\ Len(more) = o + Len(page)
              /\ Doubles(s, o + Len(page), more, down)
              /\ Misses(s, o + Len(page), more, stayed, up)
    <2>1. Len(page) = n /\ Len(recs) = Len(page)
        BY <1>1, <1>2, <1>4, <1>14
    <2>2. Q = P
        BY <1>2, <2>1
    <2>3. Len(more) = o + Len(page)
        BY <1>5, <2>1
    <2> DEFINE D == Coming(s, o + Len(page))
    <2>4. Len(more) + Cardinality(ToSet(more) \cap D) <= Cardinality(ToSet(more)) + down
        <3>1. D \subseteq C \ Q
            BY <1>1, <2>2
        <3>. HIDE DEF D
        <3>2. o + Cardinality(Q) + Cardinality((G \union Q) \cap D) <= Cardinality(G \union Q) + down
            BY <1>6, <1>7, <1>10, <1>11, <3>1, DoublesRead
        <3>3. Len(more) = o + Cardinality(Q)
            BY <1>5, <1>6
        <3>. QED BY <1>5, <3>2, <3>3
    <2>5. Misses(s, o + Len(page), more, stayed, up)
        <3>1. (stayed \cap Passed(s, o + Len(page))) \ ToSet(more)
                \subseteq (stayed \cap Passed(s, o)) \ G
            BY <1>1, <1>5, <2>2
        <3>2. /\ Cardinality((stayed \cap Passed(s, o + Len(page))) \ ToSet(more))
                   <= Cardinality((stayed \cap Passed(s, o)) \ G)
              /\ Cardinality((stayed \cap Passed(s, o + Len(page))) \ ToSet(more)) \in Nat
              /\ Cardinality((stayed \cap Passed(s, o)) \ G) \in Nat
            BY <1>12, <3>1, NoMore
        <3>. QED BY <1>12, <3>2 DEF Misses
    <2>. QED BY <2>1, <2>3, <2>4, <2>5 DEF Doubles
<1>15. ASSUME Len(recs) < n, ToSet(s) \cap Strange = {}
       PROVE  Cardinality(stayed \ ToSet(more)) <= up
    <2>1. P \subseteq ToSet(s)
        BY <1>1, <1>9
    <2>2. P \subseteq Records \ Strange
        BY <1>8, <1>15, <2>1
    <2>3. Q = P /\ Len(page) < n
        BY <1>2, <1>15, <2>2
    <2>4. C = P
        BY <1>1, <2>3
    <2>5. stayed \ ToSet(more) \subseteq (stayed \cap Passed(s, o)) \ G
        BY <1>5, <1>9, <2>3, <2>4
    <2>6. /\ Cardinality(stayed \ ToSet(more)) <= Cardinality((stayed \cap Passed(s, o)) \ G)
          /\ Cardinality(stayed \ ToSet(more)) \in Nat
          /\ Cardinality((stayed \cap Passed(s, o)) \ G) \in Nat
        BY <1>12, <2>5, NoMore
    <2>. QED BY <1>12, <2>6
<1>. QED BY <1>4, <1>5, <1>13, <1>14, <1>15 DEF recs, PageTaken
-----------------------------------------------------------------------------
(* Lists: the invariant is inductive *)

\* A module whose first page is not read yet has nothing to be counted wrong.
LEMMA ReadBegins ==
    ASSUME NEW s \in Seq(Records), IsInjective(s)
    PROVE  /\ Doubles(s, 0, <<>>, 0) /\ Misses(s, 0, <<>>, ToSet(s), 0)
           /\ Len(<<>>) = 0 /\ <<>> \in Seq(Records) /\ 0 < MaxRead
           /\ ToSet(s) \in SUBSET Records
<1>1. ToSet(<<>>) = {}
    BY DEF ToSet
<1>2. Passed(s, 0) = {} /\ ToSet(s) \in SUBSET Records
    <2>1. 0 \in Nat
        OBVIOUS
    <2>. QED BY <2>1, Sides
<1>3. Len(<<>>) = 0 /\ <<>> \in Seq(Records)
    OBVIOUS
<1>4. Cardinality({}) = 0
    BY FS_EmptySet
<1>5. {} \cap Coming(s, 0) = {} /\ (ToSet(s) \cap {}) \ {} = {}
    OBVIOUS
<1>6. Doubles(s, 0, <<>>, 0)
    <2>1. Cardinality(ToSet(<<>>)) = 0 /\ Cardinality(ToSet(<<>>) \cap Coming(s, 0)) = 0
        BY <1>1, <1>4, <1>5
    <2>. QED BY <1>3, <2>1 DEF Doubles
<1>7. Misses(s, 0, <<>>, ToSet(s), 0)
    <2>1. Cardinality((ToSet(s) \cap Passed(s, 0)) \ ToSet(<<>>)) = 0
        BY <1>1, <1>2, <1>4, <1>5
    <2>. QED BY <2>1 DEF Misses
<1>. QED BY <1>2, <1>3, <1>6, <1>7, ListAssumption

LEMMA ListInitInv == ListInit => ListInv
<1>. SUFFICES ASSUME ListInit PROVE ListInv
    OBVIOUS
<1>1. list \in [1..Sources -> Seq(Records)] /\ \A m \in 1..Sources : IsInjective(list[m])
    <2>1. ASSUME NEW m \in 1..Sources
          PROVE  list[m] \in Seq(Records) /\ IsInjective(list[m])
        <3>1. list[m] \in SeqOf(Records, MaxListed) /\ IsInjective(list[m])
            BY DEF ListInit
        <3>2. PICK k \in 0..MaxListed : list[m] \in [1..k -> Records]
            BY <3>1 DEF SeqOf
        <3>3. k \in Nat
            BY <3>2, ListAssumption
        <3>. QED BY <3>1, <3>2, <3>3, SeqDef
    <2>2. list = [m \in 1..Sources |-> list[m]]
        BY DEF ListInit
    <2>. QED BY <2>1, <2>2
<1>2. 1 \in 1..Sources
    BY ListAssumption
<1>3. ToSet(list[1]) \in SUBSET Records
    BY <1>1, <1>2, ReadBegins
<1>4. read = NotReading /\ seen = Watch(1)
    BY DEF ListInit
<1>5. ListTypeOK
    BY <1>1, <1>2, <1>3, <1>4 DEF ListTypeOK, NotReading, Watch
<1>6. OneList
    BY <1>1 DEF OneList, ListInit
<1>7. SeenRight /\ ReadSoFar /\ LastSource /\ ReadDone
    BY <1>4 DEF SeenRight, ReadSoFar, LastSource, ReadDone, NotReading, Watch
<1>. QED BY <1>5, <1>6, <1>7 DEF ListInv

\* The first page of a module is asked for.
LEMMA ModuleBegins ==
    ASSUME ListInv, NEW m \in 1..Sources, UNCHANGED list,
           read' = [pc |-> "listing", source |-> m, offset |-> 0, got |-> <<>>, tries |-> 1],
           seen' = Watch(m)
    PROVE  ListInv'
<1>1. list[m] \in Seq(Records) /\ IsInjective(list[m])
    BY DEF ListInv, ListTypeOK, OneList
<1>2. /\ Doubles(list[m], 0, <<>>, 0) /\ Misses(list[m], 0, <<>>, ToSet(list[m]), 0)
      /\ Len(<<>>) = 0 /\ <<>> \in Seq(Records) /\ 0 < MaxRead
      /\ ToSet(list[m]) \in SUBSET Records
    BY <1>1, ReadBegins
<1>3. ListTypeOK'
    BY <1>2 DEF ListInv, ListTypeOK, Watch
<1>4. OneList'
    BY DEF ListInv, OneList
<1>5. SeenRight'
    BY DEF SeenRight, Watch
<1>6. ReadSoFar'
    BY <1>2 DEF ReadSoFar, Watch
<1>7. LastSource' /\ ReadDone'
    BY DEF LastSource, ReadDone
<1>. QED BY <1>3, <1>4, <1>5, <1>6, <1>7 DEF ListInv

LEMMA AggregateBeginsStep ==
    ASSUME ListInv, AggregateBegins
    PROVE  ListInv'
<1>1. 1 \in 1..Sources
    BY ListAssumption
<1>2. read' = [pc |-> "listing", source |-> 1, offset |-> 0, got |-> <<>>, tries |-> 1]
    BY DEF AggregateBegins, NotReading
<1>. QED BY <1>1, <1>2, ModuleBegins DEF AggregateBegins

LEMMA PageArrivesStep ==
    ASSUME ListInv, PageArrives
    PROVE  ListInv'
<1> DEFINE s == list[read.source]
           o == read.offset
           n == Size
           page == Page(read.source)
           recs == Readable(page)
           more == read.got \o recs
<1>1. read.pc = "listing" /\ UNCHANGED list
    BY DEF PageArrives
<1>2. /\ read \in [pc : {"idle", "listing", "overview", "done", "failed"},
                   source : 1..Sources, offset : Nat, got : Seq(Records), tries : Nat]
      /\ seen \in [stayed : SUBSET Records, ever : SUBSET Records, down : Nat, up : Nat]
      /\ list \in [1..Sources -> Seq(Records)]
    BY DEF ListInv, ListTypeOK
<1>3. s \in Seq(Records) /\ IsInjective(s) /\ o \in Nat
    BY <1>2 DEF ListInv, OneList
<1>4. /\ Len(read.got) = o /\ Len(read.got) < MaxRead
      /\ Doubles(s, o, read.got, seen.down) /\ Misses(s, o, read.got, seen.stayed, seen.up)
      /\ seen.stayed \in SUBSET ToSet(s) /\ ToSet(s) \subseteq seen.ever
    BY <1>1 DEF ListInv, ReadSoFar, SeenRight
<1>5. n \in Nat /\ n >= 1
    <2>1. MaxRead \in Nat /\ PageSize \in Nat /\ PageSize >= 1
        BY ListAssumption
    <2>. QED BY <1>3, <1>4, <2>1 DEF Size
<1>6. page = SubSeq(s, o + 1, IF o + n < Len(s) THEN o + n ELSE Len(s))
    BY DEF Page
<1>7. /\ read.got \in Seq(Records) /\ seen.down \in Nat /\ seen.up \in Nat
    BY <1>2
<1>8. /\ more \in Seq(Records) /\ Len(page) \in Nat
      /\ Len(recs) \in Nat /\ Len(more) = Len(read.got) + Len(recs)
      /\ Len(more) <= Cardinality(ToSet(more)) + seen.down
      /\ Len(recs) >= n =>
             /\ Len(page) = n /\ Len(more) = o + Len(page)
             /\ Doubles(s, o + Len(page), more, seen.down)
             /\ Misses(s, o + Len(page), more, seen.stayed, seen.up)
      /\ Len(recs) < n =>
             \/ ToSet(s) \cap Strange # {}
             \/ Cardinality(seen.stayed \ ToSet(more)) <= seen.up
    <2> DEFINE g == read.got
               w == seen.stayed
               d == seen.down
               u == seen.up
    <2>1. /\ s \in Seq(Records) /\ IsInjective(s) /\ o \in Nat /\ n \in Nat
          /\ g \in Seq(Records) /\ Len(g) = o /\ w \in SUBSET ToSet(s)
          /\ d \in Nat /\ u \in Nat /\ Doubles(s, o, g, d) /\ Misses(s, o, g, w, u)
        BY <1>3, <1>4, <1>5, <1>7
    <2>2. more = g \o Readable(page)
        OBVIOUS
    <2>. HIDE DEF s, o, n, page, more, g, w, d, u
    <2>3. PageTaken(s, o, n, g, w, d, u, page, more)
        BY <1>6, <2>1, <2>2, ReadMore
    <2>. QED BY <2>3 DEF g, w, d, u, PageTaken
<1>9. CASE LastPage(page) /\ ModuleRead(more)
    <2>1. CASE read' = [read EXCEPT !.pc = "done", !.got = more] /\ seen' = seen
        <3>. HIDE DEF more
        <3>2. /\ read'.pc = "done" /\ read'.source = read.source /\ read'.got = more
              /\ read' \in [pc : {"idle", "listing", "overview", "done", "failed"},
                            source : 1..Sources, offset : Nat, got : Seq(Records), tries : Nat]
            BY <1>2, <1>8, <2>1
        <3>3. \/ Len(more) >= MaxRead
              \/ seen.ever \cap Strange # {}
              \/ Cardinality(seen.stayed \ ToSet(more)) <= seen.up
            <4>1. Len(recs) < n \/ Len(more) >= MaxRead
                BY <1>9 DEF LastPage, more
            <4>. QED BY <1>4, <1>8, <4>1
        <3>4. ListTypeOK'
            BY <1>1, <1>2, <2>1, <3>2 DEF ListInv, ListTypeOK
        <3>5. OneList'
            BY <1>1 DEF ListInv, OneList
        <3>6. SeenRight'
            BY <1>1, <2>1, <3>2 DEF ListInv, SeenRight
        <3>7. ReadSoFar' /\ LastSource'
            BY <3>2 DEF ReadSoFar, LastSource
        <3>8. ReadDone'
            BY <1>8, <2>1, <3>2, <3>3 DEF ReadDone
        <3>. QED BY <3>4, <3>5, <3>6, <3>7, <3>8 DEF ListInv
    <2>2. CASE /\ read.source < Sources /\ seen' = Watch(read.source + 1)
               /\ read' = [NotReading EXCEPT !.pc = "listing", !.source = read.source + 1]
        <3>2. read.source + 1 \in 1..Sources
            BY <1>2, <2>2, ListAssumption
        <3>3. read' = [pc |-> "listing", source |-> read.source + 1, offset |-> 0,
                       got |-> <<>>, tries |-> 1]
            BY <2>2 DEF NotReading
        <3>. QED BY <1>1, <2>2, <3>2, <3>3, ModuleBegins
    <2>3. CASE /\ read.source = Sources /\ seen' = seen
               /\ read' = [read EXCEPT !.pc = "overview", !.got = more]
        <3>. HIDE DEF more
        <3>2. /\ read'.pc = "overview" /\ read'.source = read.source
              /\ read' \in [pc : {"idle", "listing", "overview", "done", "failed"},
                            source : 1..Sources, offset : Nat, got : Seq(Records), tries : Nat]
            BY <1>2, <1>8, <2>3
        <3>4. ListTypeOK'
            BY <1>1, <1>2, <2>3, <3>2 DEF ListInv, ListTypeOK
        <3>5. OneList'
            BY <1>1 DEF ListInv, OneList
        <3>6. SeenRight' /\ ReadSoFar' /\ LastSource' /\ ReadDone'
            BY <1>1, <2>3, <3>2
               DEF ListInv, SeenRight, ReadSoFar, LastSource, ReadDone
        <3>. QED BY <3>4, <3>5, <3>6 DEF ListInv
    <2>. HIDE DEF more
    <2>4. \/ /\ read.source < Sources /\ seen' = Watch(read.source + 1)
             /\ read' = [NotReading EXCEPT !.pc = "listing", !.source = read.source + 1]
          \/ read' = [read EXCEPT !.pc = "done", !.got = more] /\ seen' = seen
          \/ /\ read.source = Sources /\ seen' = seen
             /\ read' = [read EXCEPT !.pc = "overview", !.got = more]
        BY <1>9 DEF ModuleRead
    <2>. QED BY <2>1, <2>2, <2>3, <2>4
<1>10. CASE /\ ~LastPage(page)
            /\ read' = [read EXCEPT !.got = @ \o recs, !.tries = 1, !.offset = @ + Len(page)]
            /\ seen' = seen
    <2>1. Len(recs) >= n /\ Len(more) < MaxRead
        <3>1. ~(Len(recs) < n) /\ ~(Len(more) >= MaxRead)
            BY <1>10 DEF LastPage
        <3>. HIDE DEF more, recs, n
        <3>. QED BY <1>3, <1>4, <1>5, <1>8, <3>1, ListAssumption
    <2> DEFINE off == o + Len(page)
    <2>2. read' = [read EXCEPT !.got = more, !.tries = 1, !.offset = off]
        BY <1>10
    <2>3. off \in Nat
        <3>. HIDE DEF page
        <3>. QED BY <1>3, <1>8
    <2>. HIDE DEF more, off
    <2>4. /\ read'.pc = "listing" /\ read'.source = read.source
          /\ read'.got = more /\ read'.offset = off
          /\ read' \in [pc : {"idle", "listing", "overview", "done", "failed"},
                        source : 1..Sources, offset : Nat, got : Seq(Records), tries : Nat]
        BY <1>1, <1>2, <1>8, <2>2, <2>3
    <2>5. /\ Len(more) = off
          /\ Doubles(s, off, more, seen.down)
          /\ Misses(s, off, more, seen.stayed, seen.up)
        BY <1>8, <2>1 DEF off
    <2>6. ListTypeOK'
        BY <1>1, <1>2, <1>10, <2>4 DEF ListInv, ListTypeOK
    <2>7. OneList'
        BY <1>1 DEF ListInv, OneList
    <2>8. SeenRight' /\ LastSource' /\ ReadDone'
        BY <1>1, <1>10, <2>4 DEF ListInv, SeenRight, LastSource, ReadDone
    <2>9. ReadSoFar'
        BY <1>1, <1>10, <2>1, <2>4, <2>5 DEF ReadSoFar
    <2>. QED BY <2>6, <2>7, <2>8, <2>9 DEF ListInv
<1>. QED BY <1>9, <1>10 DEF PageArrives, RowsOf

LEMMA PageFailsStep ==
    ASSUME ListInv, PageFails
    PROVE  ListInv'
<1>1. /\ read \in [pc : {"idle", "listing", "overview", "done", "failed"},
                   source : 1..Sources, offset : Nat, got : Seq(Records), tries : Nat]
    BY DEF ListInv, ListTypeOK
<1>2. /\ read'.pc \in {"listing", "failed"}
      /\ read'.source = read.source /\ read'.got = read.got /\ read'.offset = read.offset
      /\ read' \in [pc : {"idle", "listing", "overview", "done", "failed"},
                    source : 1..Sources, offset : Nat, got : Seq(Records), tries : Nat]
    BY <1>1 DEF PageFails
<1>3. read.pc = "listing" /\ UNCHANGED <<list, seen>>
    BY DEF PageFails
<1>4. ListTypeOK'
    BY <1>2, <1>3 DEF ListInv, ListTypeOK
<1>5. OneList'
    BY <1>3 DEF ListInv, OneList
<1>6. SeenRight' /\ LastSource' /\ ReadDone'
    BY <1>2, <1>3 DEF ListInv, SeenRight, LastSource, ReadDone
<1>7. ReadSoFar'
    BY <1>2, <1>3 DEF ListInv, ReadSoFar
<1>. QED BY <1>4, <1>5, <1>6, <1>7 DEF ListInv

\* What the account's detail lists is one module's list, the last one's if it
\* has any.
LEMMA OverviewLists ==
    ASSUME ListInv
    PROVE  /\ CompanyOverview \in Seq(Records)
           /\ IsInjective(CompanyOverview)
           /\ ToSet(list[Sources]) \subseteq ToSet(CompanyOverview)
<1> DEFINE full == {m \in 1..Sources : list[m] # <<>>}
<1>1. Sources \in 1..Sources /\ Sources \in Nat
    BY ListAssumption
<1>2. \A m \in 1..Sources : list[m] \in Seq(Records) /\ IsInjective(list[m])
    BY DEF ListInv, ListTypeOK, OneList
<1>3. CASE full = {}
    <2>1. list[Sources] = <<>> /\ CompanyOverview = <<>>
        BY <1>1, <1>3 DEF CompanyOverview
    <2>. QED BY <1>1, <1>2, <2>1
<1>4. CASE full # {}
    <2> DEFINE last == CHOOSE m \in full : \A k \in full : k <= m
    <2>1. full \in SUBSET Nat /\ \A m \in full : m <= Sources
        BY <1>1
    <2>2. \E m \in full : \A k \in full : k <= m
        <3>. HIDE DEF full
        <3>. QED BY <1>1, <1>4, <2>1, LargestExists
    <2>3. last \in full /\ \A k \in full : k <= last
        <3>. HIDE DEF full
        <3>. QED BY <2>2
    <2>4. CompanyOverview = list[last]
        BY <1>4 DEF CompanyOverview
    <2>5. last \in 1..Sources
        BY <2>3
    <2>6. ToSet(list[Sources]) \subseteq ToSet(list[last])
        <3>1. CASE list[Sources] = <<>>
            BY <3>1 DEF ToSet
        <3>2. CASE list[Sources] # <<>>
            <4>1. Sources <= last
                BY <1>1, <2>3, <3>2
            <4>2. last = Sources
                <5>. HIDE DEF last
                <5>. QED BY <1>1, <2>5, <4>1
            <4>. QED BY <4>2
        <3>. QED BY <3>1, <3>2
    <2>. QED BY <1>2, <2>4, <2>5, <2>6
<1>. QED BY <1>3, <1>4

LEMMA OverviewStep ==
    ASSUME ListInv, Overview
    PROVE  ListInv'
<1> DEFINE rows == CompanyOverview
<1>1. read.pc = "overview" /\ UNCHANGED <<list, seen>>
    BY DEF Overview
<1>2. /\ read \in [pc : {"idle", "listing", "overview", "done", "failed"},
                   source : 1..Sources, offset : Nat, got : Seq(Records), tries : Nat]
      /\ seen \in [stayed : SUBSET Records, ever : SUBSET Records, down : Nat, up : Nat]
    BY DEF ListInv, ListTypeOK
<1>3. /\ rows \in Seq(Records) /\ IsInjective(rows)
      /\ ToSet(list[Sources]) \subseteq ToSet(rows)
    BY OverviewLists
<1>4. read' = [read EXCEPT !.pc = "done", !.got = rows]
    BY DEF Overview
<1>5. seen.stayed \subseteq ToSet(list[Sources]) /\ read.source = Sources
    BY <1>1 DEF ListInv, SeenRight, LastSource
<1>. HIDE DEF rows
<1>6. /\ read'.pc = "done" /\ read'.source = read.source /\ read'.got = rows
      /\ read' \in [pc : {"idle", "listing", "overview", "done", "failed"},
                    source : 1..Sources, offset : Nat, got : Seq(Records), tries : Nat]
    BY <1>2, <1>3, <1>4
<1>7. Len(rows) <= Cardinality(ToSet(rows)) + seen.down
    <2>1. Len(rows) \in Nat /\ Cardinality(ToSet(rows)) = Len(rows)
        BY <1>3, DifferentRows, LenProperties
    <2>. QED BY <1>2, <2>1
<1>8. Cardinality(seen.stayed \ ToSet(rows)) <= seen.up
    <2>1. seen.stayed \ ToSet(rows) = {}
        BY <1>3, <1>5
    <2>2. Cardinality(seen.stayed \ ToSet(rows)) = 0
        BY <2>1, FS_EmptySet
    <2>. QED BY <1>2, <2>2
<1>9. ListTypeOK'
    BY <1>1, <1>6 DEF ListInv, ListTypeOK
<1>10. OneList'
    BY <1>1 DEF ListInv, OneList
<1>11. SeenRight' /\ ReadSoFar' /\ LastSource'
    BY <1>1, <1>6 DEF ListInv, SeenRight, ReadSoFar, LastSource
<1>12. ReadDone'
    BY <1>1, <1>6, <1>7, <1>8 DEF ReadDone
<1>. QED BY <1>9, <1>10, <1>11, <1>12 DEF ListInv

\* A change of the list that is read: what of the invariant it has to keep.
LEMMA ListChanges ==
    ASSUME ListInv, read.pc = "listing", UNCHANGED read,
           NEW t \in Seq(Records), list' = [list EXCEPT ![read.source] = t],
           IsInjective(t),
           \A m \in 1..Sources : m # read.source => ToSet(t) \cap ToSet(list[m]) = {},
           seen' \in [stayed : SUBSET Records, ever : SUBSET Records, down : Nat, up : Nat],
           seen'.stayed \subseteq ToSet(t), ToSet(t) \subseteq seen'.ever,
           Doubles(t, read.offset, read.got, seen'.down),
           Misses(t, read.offset, read.got, seen'.stayed, seen'.up)
    PROVE  ListInv'
<1>1. /\ read.source \in 1..Sources /\ list \in [1..Sources -> Seq(Records)]
    BY DEF ListInv, ListTypeOK
<1>2. list'[read.source] = t /\ \A m \in 1..Sources : m # read.source => list'[m] = list[m]
    BY <1>1
<1>3. ListTypeOK'
    BY <1>1 DEF ListInv, ListTypeOK
<1>4. OneList'
    <2>1. \A m \in 1..Sources : IsInjective(list'[m])
        BY <1>2 DEF ListInv, OneList
    <2>2. ASSUME NEW m \in 1..Sources, NEW k \in 1..Sources, m # k
          PROVE  ToSet(list'[m]) \cap ToSet(list'[k]) = {}
        <3>1. CASE m = read.source
            BY <1>2, <2>2, <3>1
        <3>2. CASE k = read.source
            BY <1>2, <2>2, <3>2
        <3>3. CASE m # read.source /\ k # read.source
            BY <1>2, <2>2, <3>3 DEF ListInv, OneList
        <3>. QED BY <3>1, <3>2, <3>3
    <2>. QED BY <2>1, <2>2 DEF OneList
<1>5. SeenRight'
    BY <1>2 DEF SeenRight
<1>6. ReadSoFar'
    BY <1>2 DEF ListInv, ReadSoFar
<1>7. LastSource' /\ ReadDone'
    BY DEF LastSource, ReadDone
<1>. QED BY <1>3, <1>4, <1>5, <1>6, <1>7 DEF ListInv

\* What a change needs of the state it happens in.
LEMMA WhileListing ==
    ASSUME ListInv, read.pc = "listing"
    PROVE  /\ read.source \in 1..Sources /\ read.offset \in Nat
           /\ list[read.source] \in Seq(Records) /\ IsInjective(list[read.source])
           /\ read.got \in Seq(Records) /\ Len(read.got) \in Nat
           /\ IsFiniteSet(ToSet(read.got)) /\ Cardinality(ToSet(read.got)) \in Nat
           /\ seen \in [stayed : SUBSET Records, ever : SUBSET Records, down : Nat, up : Nat]
           /\ seen.stayed \subseteq ToSet(list[read.source])
           /\ ToSet(list[read.source]) \subseteq seen.ever
           /\ Doubles(list[read.source], read.offset, read.got, seen.down)
           /\ Misses(list[read.source], read.offset, read.got, seen.stayed, seen.up)
           /\ \A m \in 1..Sources : m # read.source =>
                  ToSet(list[read.source]) \cap ToSet(list[m]) = {}
<1>1. /\ read.source \in 1..Sources /\ read.offset \in Nat /\ read.got \in Seq(Records)
      /\ list[read.source] \in Seq(Records)
      /\ seen \in [stayed : SUBSET Records, ever : SUBSET Records, down : Nat, up : Nat]
    BY DEF ListInv, ListTypeOK
<1>2. /\ IsFiniteSet(ToSet(read.got)) /\ Cardinality(ToSet(read.got)) \in Nat
      /\ Len(read.got) \in Nat
    BY <1>1, DifferentRows, LenProperties
<1>3. /\ IsInjective(list[read.source])
      /\ \A m \in 1..Sources : m # read.source =>
             ToSet(list[read.source]) \cap ToSet(list[m]) = {}
    BY <1>1 DEF ListInv, OneList
<1>4. /\ seen.stayed \subseteq ToSet(list[read.source])
      /\ ToSet(list[read.source]) \subseteq seen.ever
    BY DEF ListInv, SeenRight
<1>5. /\ Doubles(list[read.source], read.offset, read.got, seen.down)
      /\ Misses(list[read.source], read.offset, read.got, seen.stayed, seen.up)
    BY DEF ListInv, ReadSoFar
<1>. QED BY <1>1, <1>2, <1>3, <1>4, <1>5

\* One record more behind the offset makes at most one double more, one more
\* before it at most one miss more.
LEMMA DoublesChange ==
    ASSUME NEW s, NEW t, NEW o, NEW got, NEW x, NEW d \in Nat, Doubles(s, o, got, d),
           IsFiniteSet(ToSet(got)), Len(got) \in Nat,
           Coming(t, o) \subseteq Coming(s, o) \union {x}
    PROVE  Doubles(t, o, got, d + 1)
<1> DEFINE A == ToSet(got) \cap Coming(t, o)
           B == ToSet(got) \cap Coming(s, o)
<1>1. IsFiniteSet(B)
    BY FS_Intersection
<1>2. A \subseteq B \union {x}
    OBVIOUS
<1>3. Cardinality(A) \in Nat /\ Cardinality(B) \in Nat /\ Cardinality(A) <= Cardinality(B) + 1
    <2>. HIDE DEF A, B
    <2>. QED BY <1>1, <1>2, OneMore
<1>4. Cardinality(ToSet(got)) \in Nat
    BY FS_CardinalityType
<1>5. Len(got) + Cardinality(B) <= Cardinality(ToSet(got)) + d
    BY DEF Doubles
<1>6. Len(got) + Cardinality(A) <= Cardinality(ToSet(got)) + (d + 1)
    <2>. HIDE DEF A, B
    <2>. QED BY <1>3, <1>4, <1>5
<1>. QED BY <1>6 DEF Doubles

LEMMA MissesChange ==
    ASSUME NEW s \in Seq(Records), NEW t, NEW o, NEW got, NEW x, NEW u \in Nat, NEW v,
           NEW w \in SUBSET v, v \subseteq ToSet(s), Misses(s, o, got, v, u),
           Passed(t, o) \subseteq Passed(s, o) \union {x}
    PROVE  /\ Misses(t, o, got, w, u + 1)
           /\ x \notin w => Misses(t, o, got, w, u)
<1> DEFINE A == (w \cap Passed(t, o)) \ ToSet(got)
           B == (v \cap Passed(s, o)) \ ToSet(got)
<1>1. IsFiniteSet(B)
    <2>1. B \subseteq ToSet(s)
        OBVIOUS
    <2>2. IsFiniteSet(ToSet(s))
        BY DifferentRows
    <2>. HIDE DEF B
    <2>. QED BY <2>1, <2>2, NoMore
<1>2. A \subseteq B \union {x} /\ (x \notin w => A \subseteq B)
    OBVIOUS
<1>3. Cardinality(A) \in Nat /\ Cardinality(B) \in Nat /\ Cardinality(A) <= Cardinality(B) + 1
    <2>. HIDE DEF A, B
    <2>. QED BY <1>1, <1>2, OneMore
<1>4. x \notin w => Cardinality(A) <= Cardinality(B)
    <2>. HIDE DEF A, B
    <2>. QED BY <1>1, <1>2, NoMore
<1>5. Cardinality(B) <= u
    BY DEF Misses
<1>6. Cardinality(A) <= u + 1 /\ (x \notin w => Cardinality(A) <= u)
    <2>. HIDE DEF A, B
    <2>. QED BY <1>3, <1>4, <1>5
<1>. QED BY <1>6 DEF Misses

LEMMA RecordCreatedStep ==
    ASSUME ListInv, RecordCreated
    PROVE  ListInv'
<1> DEFINE s == list[read.source]
<1>1. read.pc = "listing" /\ UNCHANGED read
    BY DEF RecordCreated, Changing
<1>2. PICK r \in Records :
          /\ \A m \in 1..Sources : r \notin ToSet(list[m])
          /\ list' = [list EXCEPT ![read.source] = <<r>> \o @]
          /\ seen' = [seen EXCEPT !.down = @ + 1, !.ever = @ \union {r}]
    BY DEF RecordCreated
<1> DEFINE t == <<r>> \o s
<1>3. list' = [list EXCEPT ![read.source] = t]
    BY <1>1, <1>2, WhileListing
<1>4. r \notin ToSet(s)
    BY <1>1, <1>2, WhileListing
<1>5. s \in Seq(Records) /\ IsInjective(s) /\ read.offset \in Nat
    BY <1>1, WhileListing
<1>. HIDE DEF s
<1>6. /\ t \in Seq(Records) /\ ToSet(t) = ToSet(s) \union {r} /\ IsInjective(t)
      /\ Passed(t, read.offset) \subseteq Passed(s, read.offset) \union {r}
      /\ \E x \in Records : Coming(t, read.offset) \subseteq Coming(s, read.offset) \union {x}
    BY <1>4, <1>5, PutFirst
<1>. HIDE DEF t
<1>7. /\ seen'.stayed = seen.stayed /\ seen'.ever = seen.ever \union {r}
      /\ seen'.down = seen.down + 1 /\ seen'.up = seen.up
      /\ seen' \in [stayed : SUBSET Records, ever : SUBSET Records, down : Nat, up : Nat]
    <2>1. seen \in [stayed : SUBSET Records, ever : SUBSET Records, down : Nat, up : Nat]
        BY <1>1, WhileListing
    <2>2. seen' = [stayed |-> seen.stayed, ever |-> seen.ever \union {r},
                   down |-> seen.down + 1, up |-> seen.up]
        BY <1>2, <2>1
    <2>3. /\ seen.stayed \in SUBSET Records /\ seen.ever \union {r} \in SUBSET Records
          /\ seen.down + 1 \in Nat /\ seen.up \in Nat
        BY <2>1
    <2>. QED BY <2>2, <2>3
<1>8. /\ Doubles(s, read.offset, read.got, seen.down)
      /\ Misses(s, read.offset, read.got, seen.stayed, seen.up)
      /\ seen.stayed \subseteq ToSet(s) /\ ToSet(s) \subseteq seen.ever
      /\ IsFiniteSet(ToSet(read.got)) /\ Len(read.got) \in Nat
      /\ seen.down \in Nat /\ seen.up \in Nat
    BY <1>1, WhileListing DEF s
<1>9. Doubles(t, read.offset, read.got, seen'.down)
    <2>1. PICK x \in Records : Coming(t, read.offset) \subseteq Coming(s, read.offset) \union {x}
        BY <1>6
    <2>2. Doubles(t, read.offset, read.got, seen.down + 1)
        BY <1>8, <2>1, DoublesChange
    <2>. QED BY <1>7, <2>2
<1>10. Misses(t, read.offset, read.got, seen'.stayed, seen'.up)
    <2>1. r \notin seen.stayed
        BY <1>4, <1>8
    <2>2. seen.stayed \in SUBSET seen.stayed
        OBVIOUS
    <2>. QED BY <1>5, <1>6, <1>7, <1>8, <2>1, <2>2, MissesChange
<1>11. \A m \in 1..Sources : m # read.source => ToSet(t) \cap ToSet(list[m]) = {}
    BY <1>1, <1>2, <1>6, WhileListing DEF s
<1>12. seen'.stayed \subseteq ToSet(t) /\ ToSet(t) \subseteq seen'.ever
    BY <1>6, <1>7, <1>8
<1>. QED BY <1>1, <1>3, <1>6, <1>7, <1>9, <1>10, <1>11, <1>12, ListChanges

LEMMA RecordDeletedStep ==
    ASSUME ListInv, RecordDeleted
    PROVE  ListInv'
<1> DEFINE s == list[read.source]
<1>1. read.pc = "listing" /\ UNCHANGED read
    BY DEF RecordDeleted, Changing
<1>2. PICK i \in DOMAIN s :
          /\ list' = [list EXCEPT ![read.source] = RemoveAt(@, i)]
          /\ seen' = [seen EXCEPT !.up = @ + 1, !.stayed = @ \ {s[i]}]
    BY DEF RecordDeleted
<1> DEFINE t == RemoveAt(s, i)
<1>3. list' = [list EXCEPT ![read.source] = t]
    BY <1>1, <1>2, WhileListing
<1>4. s \in Seq(Records) /\ IsInjective(s) /\ read.offset \in Nat
    BY <1>1, WhileListing
<1>. HIDE DEF s
<1>5. /\ ToSet(t) = ToSet(s) \ {s[i]} /\ IsInjective(t)
      /\ Coming(t, read.offset) \subseteq Coming(s, read.offset)
      /\ \E x \in Records : Passed(t, read.offset) \subseteq Passed(s, read.offset) \union {x}
    BY <1>4, Removed
<1>6. t \in Seq(Records)
    BY <1>4, RemoveAtProperties
<1>. HIDE DEF t
<1>7. /\ seen'.stayed = seen.stayed \ {s[i]} /\ seen'.ever = seen.ever
      /\ seen'.down = seen.down /\ seen'.up = seen.up + 1
      /\ seen' \in [stayed : SUBSET Records, ever : SUBSET Records, down : Nat, up : Nat]
    <2>1. seen \in [stayed : SUBSET Records, ever : SUBSET Records, down : Nat, up : Nat]
        BY <1>1, WhileListing
    <2>2. seen' = [stayed |-> seen.stayed \ {s[i]}, ever |-> seen.ever,
                   down |-> seen.down, up |-> seen.up + 1]
        BY <1>2, <2>1
    <2>3. /\ seen.stayed \ {s[i]} \in SUBSET Records /\ seen.ever \in SUBSET Records
          /\ seen.down \in Nat /\ seen.up + 1 \in Nat
        BY <2>1
    <2>. QED BY <2>2, <2>3
<1>8. /\ Doubles(s, read.offset, read.got, seen.down)
      /\ Misses(s, read.offset, read.got, seen.stayed, seen.up)
      /\ seen.stayed \subseteq ToSet(s) /\ ToSet(s) \subseteq seen.ever
      /\ IsFiniteSet(ToSet(read.got)) /\ Cardinality(ToSet(read.got)) \in Nat
      /\ Len(read.got) \in Nat /\ seen.down \in Nat /\ seen.up \in Nat
    BY <1>1, WhileListing DEF s
<1>9. Doubles(t, read.offset, read.got, seen'.down)
    <2>1. ToSet(read.got) \cap Coming(t, read.offset)
            \subseteq ToSet(read.got) \cap Coming(s, read.offset)
        BY <1>5
    <2>2. IsFiniteSet(ToSet(read.got) \cap Coming(s, read.offset))
        BY <1>8, FS_Intersection
    <2>3. /\ Cardinality(ToSet(read.got) \cap Coming(t, read.offset)) \in Nat
          /\ Cardinality(ToSet(read.got) \cap Coming(s, read.offset)) \in Nat
          /\ Cardinality(ToSet(read.got) \cap Coming(t, read.offset))
               <= Cardinality(ToSet(read.got) \cap Coming(s, read.offset))
        BY <2>1, <2>2, NoMore
    <2>. QED BY <1>7, <1>8, <2>3 DEF Doubles
<1>10. Misses(t, read.offset, read.got, seen'.stayed, seen'.up)
    <2>1. PICK x \in Records : Passed(t, read.offset) \subseteq Passed(s, read.offset) \union {x}
        BY <1>5
    <2> DEFINE w == seen.stayed \ {s[i]}
    <2>2. w \in SUBSET seen.stayed
        OBVIOUS
    <2>. HIDE DEF w
    <2>3. Misses(t, read.offset, read.got, w, seen.up + 1)
        BY <1>4, <1>8, <2>1, <2>2, MissesChange
    <2>. QED BY <1>7, <2>3 DEF w
<1>11. \A m \in 1..Sources : m # read.source => ToSet(t) \cap ToSet(list[m]) = {}
    BY <1>1, <1>5, WhileListing DEF s
<1>12. seen'.stayed \subseteq ToSet(t) /\ ToSet(t) \subseteq seen'.ever
    BY <1>5, <1>7, <1>8
<1>. QED BY <1>1, <1>3, <1>5, <1>6, <1>7, <1>9, <1>10, <1>11, <1>12, ListChanges

LEMMA RecordEditedStep ==
    ASSUME ListInv, RecordEdited
    PROVE  ListInv'
<1> DEFINE s == list[read.source]
<1>1. read.pc = "listing" /\ UNCHANGED read
    BY DEF RecordEdited, Changing
<1>2. PICK i \in DOMAIN s :
          /\ list' = [list EXCEPT ![read.source] = <<@[i]>> \o RemoveAt(@, i)]
          /\ seen' = [seen EXCEPT !.down = @ + 1, !.up = @ + 1]
    BY DEF RecordEdited
<1> DEFINE t == <<s[i]>> \o RemoveAt(s, i)
<1>3. list' = [list EXCEPT ![read.source] = t]
    BY <1>1, <1>2, WhileListing
<1>4. s \in Seq(Records) /\ IsInjective(s) /\ read.offset \in Nat
    BY <1>1, WhileListing
<1>. HIDE DEF s
<1>5. /\ t \in Seq(Records) /\ ToSet(t) = ToSet(s) /\ IsInjective(t)
      /\ Passed(t, read.offset) \subseteq Passed(s, read.offset) \union {s[i]}
      /\ \E x \in Records : Coming(t, read.offset) \subseteq Coming(s, read.offset) \union {x}
    BY <1>4, MovedFirst
<1>. HIDE DEF t
<1>6. /\ seen'.stayed = seen.stayed /\ seen'.ever = seen.ever
      /\ seen'.down = seen.down + 1 /\ seen'.up = seen.up + 1
      /\ seen' \in [stayed : SUBSET Records, ever : SUBSET Records, down : Nat, up : Nat]
    <2>1. seen \in [stayed : SUBSET Records, ever : SUBSET Records, down : Nat, up : Nat]
        BY <1>1, WhileListing
    <2>2. seen' = [stayed |-> seen.stayed, ever |-> seen.ever,
                   down |-> seen.down + 1, up |-> seen.up + 1]
        BY <1>2, <2>1
    <2>3. /\ seen.stayed \in SUBSET Records /\ seen.ever \in SUBSET Records
          /\ seen.down + 1 \in Nat /\ seen.up + 1 \in Nat
        BY <2>1
    <2>. QED BY <2>2, <2>3
<1>7. /\ Doubles(s, read.offset, read.got, seen.down)
      /\ Misses(s, read.offset, read.got, seen.stayed, seen.up)
      /\ seen.stayed \subseteq ToSet(s) /\ ToSet(s) \subseteq seen.ever
      /\ IsFiniteSet(ToSet(read.got)) /\ Len(read.got) \in Nat
      /\ seen.down \in Nat /\ seen.up \in Nat
    BY <1>1, WhileListing DEF s
<1>8. Doubles(t, read.offset, read.got, seen'.down)
    <2>1. PICK x \in Records : Coming(t, read.offset) \subseteq Coming(s, read.offset) \union {x}
        BY <1>5
    <2>2. Doubles(t, read.offset, read.got, seen.down + 1)
        BY <1>7, <2>1, DoublesChange
    <2>. QED BY <1>6, <2>2
<1>9. Misses(t, read.offset, read.got, seen'.stayed, seen'.up)
    <2>1. seen.stayed \in SUBSET seen.stayed
        OBVIOUS
    <2>2. Misses(t, read.offset, read.got, seen.stayed, seen.up + 1)
        BY <1>4, <1>5, <1>7, <2>1, MissesChange
    <2>. QED BY <1>6, <2>2
<1>10. \A m \in 1..Sources : m # read.source => ToSet(t) \cap ToSet(list[m]) = {}
    BY <1>1, <1>5, WhileListing DEF s
<1>11. seen'.stayed \subseteq ToSet(t) /\ ToSet(t) \subseteq seen'.ever
    BY <1>5, <1>6, <1>7
<1>. QED BY <1>1, <1>3, <1>5, <1>6, <1>8, <1>9, <1>10, <1>11, ListChanges

LEMMA ListInvInductive == ListInv /\ [ListNext]_listVars => ListInv'
<1>. SUFFICES ASSUME ListInv, [ListNext]_listVars PROVE ListInv'
    OBVIOUS
<1>1. CASE UNCHANGED listVars
    BY <1>1 DEF listVars, ListInv, ListTypeOK, OneList, SeenRight, ReadSoFar, LastSource,
                ReadDone
<1>2. CASE ListNext
    BY <1>2, AggregateBeginsStep, PageArrivesStep, PageFailsStep, OverviewStep,
       RecordCreatedStep, RecordDeletedStep, RecordEditedStep DEF ListNext
<1>. QED BY <1>1, <1>2

-----------------------------------------------------------------------------
(* What is counted of the records read *)

\* A record is kept exactly when it should be counted: it has one status.
LEMMA KeptIsToCount ==
    ASSUME NEW S, NEW r \in S, NEW ask \in Questions
    PROVE  r \in ToCount(ask, S)
              <=> Kept(ask, r) /\ (ask.operation = "sum" => r \notin NoNumber)
<1>1. /\ ask.turnover \in BOOLEAN /\ ask.statuses \in SUBSET {"paid", "unpaid", "cancelled"}
      /\ ask.exclude_cancelled \in BOOLEAN
    BY DEF Questions
<1>2. CASE r \in Unpaid
    <2>1. PaymentOf(r) = "unpaid" /\ r \notin Cancelled /\ r \notin NoStatus
        BY <1>2, ListAssumption DEF PaymentOf
    <2>. QED BY <1>1, <1>2, <2>1 DEF Kept, Allowed, ToCount
<1>3. CASE r \in Cancelled
    <2>1. PaymentOf(r) = "cancelled" /\ r \notin Unpaid /\ r \notin NoStatus
        BY <1>3, ListAssumption DEF PaymentOf
    <2>. QED BY <1>1, <1>3, <2>1 DEF Kept, Allowed, ToCount
<1>4. CASE r \notin Unpaid /\ r \notin Cancelled /\ r \in NoStatus
    <2>1. PaymentOf(r) = "none"
        BY <1>4 DEF PaymentOf
    <2>. QED BY <1>1, <1>4, <2>1 DEF Kept, Allowed, ToCount
<1>5. CASE r \notin Unpaid /\ r \notin Cancelled /\ r \notin NoStatus
    <2>1. PaymentOf(r) = "paid"
        BY <1>5 DEF PaymentOf
    <2>. QED BY <1>1, <1>5, <2>1 DEF Kept, Allowed, ToCount
<1>. QED BY <1>2, <1>3, <1>4, <1>5

\* What is counted is what of the records read should be, and no more doubled.
LEMMA CountedIsToCount ==
    ASSUME ListInv, NEW ask \in Questions, NEW n \in Nat,
           Len(read.got) <= Cardinality(ToSet(read.got)) + n
    PROVE  /\ ToSet(Counted(ask)) = ToCount(ask, ToSet(read.got))
           /\ Len(Counted(ask)) <= Cardinality(ToSet(Counted(ask))) + n
<1> DEFINE K == {r \in Records : Kept(ask, r)}
           N == Records \ NoNumber
<1>1. read.got \in Seq(Records) /\ ToSet(read.got) \in SUBSET Records
    <2>1. read.got \in Seq(Records)
        BY DEF ListInv, ListTypeOK
    <2>2. 0 \in Nat
        OBVIOUS
    <2>. QED BY <2>1, <2>2, Sides
<1>2. Filtered(ask) = Only(read.got, K)
    BY DEF Filtered
<1>. HIDE DEF K, N
<1>3. /\ ToSet(Filtered(ask)) = ToSet(read.got) \cap K
      /\ Filtered(ask) \in Seq(Records \cap K)
    BY <1>1, <1>2, OnlyProperties
<1>4. Filtered(ask) \in Seq(Records)
    BY <1>3, SeqMonotonic
<1>5. Len(Filtered(ask)) <= Cardinality(ToSet(Filtered(ask))) + n
    BY <1>1, <1>2, OnlyDoubles
<1>6. CASE ask.operation = "count"
    <2>1. Counted(ask) = Filtered(ask)
        BY <1>6 DEF Counted
    <2>2. ToSet(Counted(ask)) = ToCount(ask, ToSet(read.got))
        <3>1. ToCount(ask, ToSet(read.got)) \subseteq ToSet(read.got)
            BY DEF ToCount
        <3>. QED BY <1>1, <1>3, <1>6, <2>1, <3>1, KeptIsToCount DEF K
    <2>. QED BY <1>5, <2>1, <2>2
<1>7. CASE ask.operation # "count"
    <2>1. Counted(ask) = Only(Filtered(ask), N)
        BY <1>7 DEF Counted, N
    <2>2. ask.operation = "sum"
        BY <1>7 DEF Questions
    <2>3. ToSet(Only(Filtered(ask), N)) = ToSet(Filtered(ask)) \cap N
        BY <1>4, OnlyProperties
    <2>4. ToSet(Counted(ask)) = ToCount(ask, ToSet(read.got))
        <3>1. ToCount(ask, ToSet(read.got)) \subseteq ToSet(read.got)
            BY DEF ToCount
        <3>. QED BY <1>1, <1>3, <2>1, <2>2, <2>3, <3>1, KeptIsToCount DEF K, N
    <2>5. Len(Only(Filtered(ask), N)) <= Cardinality(ToSet(Only(Filtered(ask), N))) + n
        BY <1>4, <1>5, OnlyDoubles
    <2>. QED BY <2>1, <2>4, <2>5
<1>. QED BY <1>6, <1>7

LEMMA ListInvCounts == ListInv => CountedOnce
<1>. SUFFICES ASSUME ListInv, read.pc = "done", NEW ask \in Questions
              PROVE  /\ Len(Counted(ask)) <= Cardinality(ToSet(Counted(ask))) + seen.down
                     /\ ToSet(Counted(ask)) \subseteq ToCount(ask, Records)
                     /\ \/ Len(read.got) >= MaxRead
                        \/ seen.ever \cap Strange # {}
                        \/ Cardinality(ToCount(ask, seen.stayed) \ ToSet(Counted(ask)))
                              <= seen.up
    BY DEF CountedOnce
<1> DEFINE G == ToSet(read.got)
           counted == ToSet(Counted(ask))
<1>1. /\ seen.down \in Nat /\ seen.up \in Nat /\ seen.stayed \in SUBSET Records
      /\ read.got \in Seq(Records)
    BY DEF ListInv, ListTypeOK
<1>2. /\ Len(read.got) <= Cardinality(G) + seen.down
      /\ \/ Len(read.got) >= MaxRead
         \/ seen.ever \cap Strange # {}
         \/ Cardinality(seen.stayed \ G) <= seen.up
    BY DEF ListInv, ReadDone
<1>3. counted = ToCount(ask, G) /\ Len(Counted(ask)) <= Cardinality(counted) + seen.down
    BY <1>1, <1>2, CountedIsToCount
<1>4. G \in SUBSET Records
    <2>1. 0 \in Nat
        OBVIOUS
    <2>. QED BY <1>1, <2>1, Sides
<1>. HIDE DEF G, counted
<1>5. counted \subseteq ToCount(ask, Records)
    BY <1>3, <1>4 DEF ToCount
<1>6. ASSUME Cardinality(seen.stayed \ G) <= seen.up
      PROVE  Cardinality(ToCount(ask, seen.stayed) \ counted) <= seen.up
    <2>1. ToCount(ask, seen.stayed) \ counted \subseteq seen.stayed \ G
        BY <1>3 DEF ToCount
    <2>2. IsFiniteSet(seen.stayed \ G)
        <3>1. seen.stayed \ G \subseteq ToSet(list[read.source])
            BY DEF ListInv, SeenRight
        <3>2. list[read.source] \in Seq(Records)
            BY DEF ListInv, ListTypeOK
        <3>3. IsFiniteSet(ToSet(list[read.source]))
            BY <3>2, DifferentRows
        <3>. QED BY <3>1, <3>3, NoMore
    <2>3. /\ Cardinality(ToCount(ask, seen.stayed) \ counted) \in Nat
          /\ Cardinality(seen.stayed \ G) \in Nat
          /\ Cardinality(ToCount(ask, seen.stayed) \ counted) <= Cardinality(seen.stayed \ G)
        BY <2>1, <2>2, NoMore
    <2>. QED BY <1>1, <1>6, <2>3
<1>. QED BY <1>2, <1>3, <1>5, <1>6 DEF counted

\* A sum or a count takes a record twice at most once for every record that
\* moved up the list meanwhile, and misses one at most once for every record
\* that left its place (CRMReadService.list_module, CRMAggregateService.aggregate),
\* whatever the length of the lists, the pages and the number of changes.
THEOREM CountOnce == ListSpec => []CountedOnce
<1>1. ListInit => ListInv
    BY ListInitInv
<1>2. ListInv /\ [ListNext]_listVars => ListInv'
    BY ListInvInductive
<1>3. ListInv => CountedOnce
    BY ListInvCounts
<1>. QED BY <1>1, <1>2, <1>3, PTL DEF ListSpec

-----------------------------------------------------------------------------
(* Searches: what the helpers of a search give *)

\* The first rows of a list: all of them unless it has more.
LEMMA CutProperties ==
    ASSUME NEW T, NEW rows \in Seq(T), NEW n \in Nat
    PROVE  /\ Cut(rows, n) \in Seq(T)
           /\ Len(Cut(rows, n)) = IF n < Len(rows) THEN n ELSE Len(rows)
           /\ ToSet(Cut(rows, n)) \subseteq ToSet(rows)
           /\ IsInjective(rows) => IsInjective(Cut(rows, n))
           /\ Len(Cut(rows, n)) < n => Cut(rows, n) = rows
           /\ \A i \in DOMAIN Cut(rows, n) : i \in DOMAIN rows /\ i <= n /\ Cut(rows, n)[i] = rows[i]
           /\ \A i \in DOMAIN rows : i <= n => i \in DOMAIN Cut(rows, n)
<1> DEFINE e == IF n < Len(rows) THEN n ELSE Len(rows)
           c == SubSeq(rows, 1, e)
<1>1. DOMAIN rows = 1..Len(rows) /\ Len(rows) \in Nat /\ \A i \in DOMAIN rows : rows[i] \in T
    BY LenProperties, ElementOfSeq
<1>2. e \in Nat /\ e <= Len(rows) /\ e <= n /\ (e < n => e = Len(rows))
    <2>1. Len(rows) \in Nat
        BY <1>1
    <2>2. CASE n < Len(rows)
        BY <2>1, <2>2
    <2>3. CASE ~(n < Len(rows))
        BY <2>1, <2>3
    <2>. QED BY <2>2, <2>3
<1>3. Cut(rows, n) = c
    BY DEF Cut
<1>. HIDE DEF e
<1>4. /\ c \in Seq(T) /\ Len(c) = e
      /\ \A k \in 1..e : c[k] = rows[k]
    <2>1. 1 \in Int /\ e \in Int /\ \A j \in 1..e : rows[j] \in T
        <3>1. ASSUME NEW j \in 1..e
              PROVE  rows[j] \in T
            <4>1. Len(rows) \in Nat
                BY <1>1
            <4>2. j \in 1..Len(rows)
                BY <1>2, <3>1, <4>1
            <4>. QED BY <1>1, <4>2
        <3>. QED BY <1>2, <3>1
    <2>2. /\ c \in Seq(T)
          /\ Len(c) = IF 1 <= e THEN e - 1 + 1 ELSE 0
          /\ \A k \in 1..(e - 1 + 1) : c[k] = rows[1 + k - 1]
        BY <2>1, SubSeqProperties
    <2>. HIDE DEF c
    <2>3. Len(c) = e
        BY <1>2, <2>2
    <2>4. ASSUME NEW k \in 1..e
          PROVE  c[k] = rows[k]
        <3>1. k \in 1..(e - 1 + 1) /\ 1 + k - 1 = k
            BY <1>2
        <3>. QED BY <2>2, <3>1
    <2>. QED BY <2>2, <2>3, <2>4
<1>. HIDE DEF c
<1>5. DOMAIN c = 1..e
    BY <1>4, LenProperties
<1>6. ASSUME NEW i \in DOMAIN c
      PROVE  i \in DOMAIN rows /\ i <= n /\ c[i] = rows[i]
    <2>1. Len(rows) \in Nat
        BY <1>1
    <2>2. i \in 1..Len(rows) /\ i <= n
        BY <1>2, <1>5, <2>1
    <2>. QED BY <1>1, <1>4, <1>5, <2>2
<1>7. ToSet(c) \subseteq ToSet(rows)
    BY <1>6 DEF ToSet
<1>8. IsInjective(rows) => IsInjective(c)
    BY <1>6 DEF IsInjective
<1>9. ASSUME Len(c) < n
      PROVE  c = rows
    <2>1. Len(c) = Len(rows)
        BY <1>2, <1>4, <1>9
    <2>2. \A i \in 1..Len(c) : c[i] = rows[i]
        BY <1>4
    <2>. QED BY <1>4, <2>1, <2>2, SeqEqual
<1>10. ASSUME NEW i \in DOMAIN rows, i <= n
       PROVE  i \in DOMAIN c
    <2>1. Len(rows) \in Nat /\ i \in 1..Len(rows)
        BY <1>1
    <2>2. e = n \/ e = Len(rows)
        BY DEF e
    <2>3. i \in 1..e
        BY <1>2, <1>10, <2>1, <2>2
    <2>. QED BY <1>5, <2>3
<1>11. Len(c) = IF n < Len(rows) THEN n ELSE Len(rows)
    BY <1>4 DEF e
<1>. QED BY <1>3, <1>4, <1>6, <1>7, <1>8, <1>9, <1>10, <1>11

\* Points in order.
LEMMA PointsInOrder ==
    ASSUME NEW S \in SUBSET Points
    PROVE  /\ IsFiniteSet(S) /\ InOrder(S) \in Seq(Points)
           /\ ToSet(InOrder(S)) = S /\ IsInjective(InOrder(S))
<1>1. IsFiniteSet(S) /\ S \in SUBSET Nat
    BY SearchAssumption, FS_Subset
<1>2. InOrder(S) \in Seq(S) /\ ToSet(InOrder(S)) = S /\ IsInjective(InOrder(S))
    BY <1>1, InOrderProperties
<1>3. InOrder(S) \in Seq(Points)
    BY <1>2, SeqMonotonic
<1>. QED BY <1>1, <1>2, <1>3

\* The nearest points: of the set, none twice, all of it or as many as asked for.
LEMMA NearestProperties ==
    ASSUME NEW S \in SUBSET Points, NEW n \in Nat
    PROVE  /\ Nearest(S, n) \in Seq(Points) /\ IsInjective(Nearest(S, n))
           /\ ToSet(Nearest(S, n)) \subseteq S
           /\ Len(Nearest(S, n)) < n => ToSet(Nearest(S, n)) = S
<1> DEFINE s == InOrder(S)
<1>1. s \in Seq(Points) /\ ToSet(s) = S /\ IsInjective(s)
    BY PointsInOrder
<1>2. Nearest(S, n) = Cut(s, n)
    BY DEF Nearest
<1>. HIDE DEF s
<1>3. /\ Cut(s, n) \in Seq(Points) /\ ToSet(Cut(s, n)) \subseteq ToSet(s)
      /\ IsInjective(s) => IsInjective(Cut(s, n))
      /\ Len(Cut(s, n)) < n => Cut(s, n) = s
    BY <1>1, CutProperties
<1>. QED BY <1>1, <1>2, <1>3

\* A stable sort by two groups keeps the rows.
LEMMA RankedProperties ==
    ASSUME NEW hits \in Seq(Points), IsInjective(hits)
    PROVE  /\ Ranked(hits) \in Seq(Points) /\ IsInjective(Ranked(hits))
           /\ ToSet(Ranked(hits)) = ToSet(hits)
<1> DEFINE N == {p \in Points : "name_ascii" \in index[store][p]}
           M == Points \ N
           a == Only(hits, N)
           b == Only(hits, M)
<1>1. Ranked(hits) = a \o b
    BY DEF Ranked
<1>2. N \in SUBSET Points
    OBVIOUS
<1>3. ToSet(hits) \in SUBSET Points
    <2>1. \A i \in DOMAIN hits : hits[i] \in Points
        BY LenProperties, ElementOfSeq
    <2>. QED BY <2>1 DEF ToSet
<1>. HIDE DEF N
<1>4. M \in SUBSET Points
    OBVIOUS
<1>5. a \in Seq(Points \cap N) /\ ToSet(a) = ToSet(hits) \cap N /\ IsInjective(a)
    BY OnlyProperties
<1>6. b \in Seq(Points \cap M) /\ ToSet(b) = ToSet(hits) \cap M /\ IsInjective(b)
    <2>. HIDE DEF M
    <2>. QED BY OnlyProperties
<1>7. a \in Seq(Points) /\ b \in Seq(Points)
    BY <1>5, <1>6, SeqMonotonic
<1>8. ToSet(a) \cap ToSet(b) = {} /\ ToSet(a) \union ToSet(b) = ToSet(hits)
    BY <1>3, <1>5, <1>6
<1>. HIDE DEF a, b
<1>9. IsInjective(a) /\ IsInjective(b)
    BY <1>5, <1>6
<1>10. /\ a \o b \in Seq(Points) /\ ToSet(a \o b) = ToSet(a) \union ToSet(b)
       /\ IsInjective(a \o b)
    BY <1>7, <1>8, <1>9, ConcatElements
<1>. QED BY <1>1, <1>8, <1>10

Tags == {"text", "vector"}

Tagged(a, b) ==
    [i \in DOMAIN a |-> <<a[i], "text">>] \o [i \in DOMAIN b |-> <<b[i], "vector">>]

\* Rows that say what found them: the points, one list after the other.
LEMMA TaggedRows ==
    ASSUME NEW a \in Seq(Points), NEW b \in Seq(Points)
    PROVE  /\ Tagged(a, b) \in Seq(Points \X Tags) /\ Len(Tagged(a, b)) = Len(a \o b)
           /\ \A i \in DOMAIN Tagged(a, b) : Tagged(a, b)[i][1] = (a \o b)[i]
<1> DEFINE A == [i \in DOMAIN a |-> <<a[i], "text">>]
           B == [i \in DOMAIN b |-> <<b[i], "vector">>]
           P == Points \X Tags
           all == Tagged(a, b)
<1>1. /\ DOMAIN a = 1..Len(a) /\ Len(a) \in Nat /\ (\A i \in DOMAIN a : a[i] \in Points)
      /\ DOMAIN b = 1..Len(b) /\ Len(b) \in Nat /\ (\A i \in DOMAIN b : b[i] \in Points)
    BY LenProperties, ElementOfSeq
<1>2. A \in Seq(P) /\ Len(A) = Len(a)
    <2>1. A \in [1..Len(a) -> P]
        BY <1>1 DEF Tags
    <2>2. A \in Seq(P)
        BY <1>1, <2>1, IsASeq
    <2>3. Len(A) \in Nat /\ DOMAIN A = 1..Len(A) /\ DOMAIN A = 1..Len(a)
        BY <2>1, <2>2, LenProperties
    <2>. QED BY <1>1, <2>2, <2>3
<1>3. B \in Seq(P) /\ Len(B) = Len(b)
    <2>1. B \in [1..Len(b) -> P]
        BY <1>1 DEF Tags
    <2>2. B \in Seq(P)
        BY <1>1, <2>1, IsASeq
    <2>3. Len(B) \in Nat /\ DOMAIN B = 1..Len(B) /\ DOMAIN B = 1..Len(b)
        BY <2>1, <2>2, LenProperties
    <2>. QED BY <1>1, <2>2, <2>3
<1>4. all = A \o B
    BY DEF Tagged
<1>5. /\ \A i \in DOMAIN a : A[i][1] = a[i]
      /\ \A i \in DOMAIN b : B[i][1] = b[i]
    OBVIOUS
<1>. HIDE DEF A, B, P, all
<1>6. /\ all \in Seq(P) /\ Len(all) = Len(a) + Len(b)
      /\ \A i \in 1..(Len(a) + Len(b)) : all[i] = IF i <= Len(a) THEN A[i] ELSE B[i - Len(a)]
    <2> DEFINE c == A \o B
    <2>1. /\ c \in Seq(P) /\ Len(c) = Len(A) + Len(B)
          /\ \A i \in 1..(Len(A) + Len(B)) : c[i] = IF i <= Len(A) THEN A[i] ELSE B[i - Len(A)]
        BY <1>2, <1>3, ConcatProperties
    <2>2. all = c
        BY <1>4
    <2>. HIDE DEF c
    <2>3. Len(A) = Len(a) /\ Len(B) = Len(b)
        BY <1>2, <1>3
    <2>. QED BY <2>1, <2>2, <2>3
<1>7. /\ Len(a \o b) = Len(a) + Len(b)
      /\ \A i \in 1..(Len(a) + Len(b)) : (a \o b)[i] = IF i <= Len(a) THEN a[i] ELSE b[i - Len(a)]
    BY ConcatProperties
<1>8. DOMAIN all = 1..(Len(a) + Len(b))
    BY <1>6, LenProperties
<1>9. ASSUME NEW i \in 1..(Len(a) + Len(b))
      PROVE  all[i][1] = (a \o b)[i]
    <2>1. CASE i <= Len(a)
        <3>1. i \in DOMAIN a
            BY <1>1, <2>1
        <3>. QED BY <1>5, <1>6, <1>7, <2>1, <3>1
    <2>2. CASE ~(i <= Len(a))
        <3>1. i - Len(a) \in 1..Len(b)
            BY <1>1, <2>2
        <3>. QED BY <1>1, <1>5, <1>6, <1>7, <2>2, <3>1
    <2>. QED BY <2>1, <2>2
<1>. QED BY <1>6, <1>7, <1>8, <1>9 DEF P, all

\* Where no row stands twice, sorting out the doubles takes none away.
LEMMA DedupedProperties ==
    ASSUME NEW T, NEW rows \in Seq(T), IsInjective(rows)
    PROVE  /\ Deduped(rows) \in Seq(T) /\ IsInjective(Deduped(rows))
           /\ ToSet(Deduped(rows)) = ToSet(rows) /\ Len(Deduped(rows)) = Len(rows)
<1> DEFINE first == {i \in DOMAIN rows : \A j \in 1..(i - 1) : rows[j] # rows[i]}
<1>1. DOMAIN rows = 1..Len(rows) /\ Len(rows) \in Nat
    BY LenProperties
<1>2. first = DOMAIN rows
    <2>1. ASSUME NEW i \in DOMAIN rows, NEW j \in 1..(i - 1)
          PROVE  rows[j] # rows[i]
        <3>1. j \in DOMAIN rows /\ j # i
            BY <1>1
        <3>. QED BY <3>1 DEF IsInjective
    <2>. QED BY <2>1
<1>3. Deduped(rows) = RowsAt(rows, DOMAIN rows)
    BY <1>2 DEF Deduped
<1>4. /\ RowsAt(rows, DOMAIN rows) \in Seq(T)
      /\ Len(RowsAt(rows, DOMAIN rows)) = Cardinality(DOMAIN rows)
      /\ ToSet(RowsAt(rows, DOMAIN rows)) = {rows[i] : i \in DOMAIN rows}
      /\ (\A i, j \in DOMAIN rows : rows[i] = rows[j] => i = j)
           => IsInjective(RowsAt(rows, DOMAIN rows))
    <2>1. DOMAIN rows \in SUBSET DOMAIN rows
        OBVIOUS
    <2>. QED BY <2>1, RowsAtProperties
<1>5. Cardinality(DOMAIN rows) = Len(rows)
    BY PlacesFinite
<1>6. ToSet(rows) = {rows[i] : i \in DOMAIN rows}
    BY DEF ToSet
<1>7. \A i, j \in DOMAIN rows : rows[i] = rows[j] => i = j
    BY DEF IsInjective
<1>. QED BY <1>3, <1>4, <1>5, <1>6, <1>7

-----------------------------------------------------------------------------
(* Searches: the invariant *)

SearchRecords ==
    [pc: {"idle", "raised", "text", "vector", "done"},
     caller: {"plain", "entities", "products", "box"}, listed: SUBSET Products,
     passes: {2, 4}, variant: Nat, pass: Nat, ids: SUBSET Points, text: Seq(Points),
     best: [Points -> Int], found: SUBSET (Points \X Nat), like: [Points -> 0..2],
     rows: Seq(Points), filtered: BOOLEAN]

SearchTypeOK ==
    /\ store \in {"none"} \union Places
    /\ index \in [Places -> [Points -> {Absent} \union Matches]]
    /\ steady \in SUBSET Points /\ writes \in Nat
    /\ search \in SearchRecords

\* The best scores and what was found stand for each other.
Scored(best, found) ==
    /\ \A f \in found : Asked(f[1]) /\ f[2] <= best[f[1]]
    /\ \A p \in Points : best[p] >= 0 => <<p, best[p]>> \in found

\* While a search runs: what was in the index when it began still is; it has each
\* hit of this spelling once, of modules asked for; and of the spellings before
\* it keeps the best score of each record found.
SearchSoFar ==
    search.pc \in {"text", "vector"} =>
        /\ store \in Places /\ steady \subseteq Stored(store)
        /\ \A p \in search.ids : Asked(p)
        /\ ToSet(search.text) = search.ids /\ IsInjective(search.text)
        /\ search.found # {} => search.caller = "entities"
        /\ search.listed # {} => search.caller = "products"
        /\ Scored(search.best, search.found)

\* The answer of the vectors: points of the modules asked for, none twice, and
\* all there are where the filter was kept and fewer came than the limit.
VectorRows(vec, filtered) ==
    /\ vec \in Seq(Points) /\ IsInjective(vec)
    /\ \A p \in ToSet(vec) : Asked(p)
    /\ filtered /\ Len(vec) < Limit =>
           \A p \in Stored(store) : Asked(p) => p \in ToSet(vec)

Named(vec) == [i \in DOMAIN Merged(vec) |-> Merged(vec)[i][1]]

\* What is merged of text hits and vectors: each point once, of modules asked
\* for, no more than the limit, and all there are where fewer are.
LEMMA MergedProperties ==
    ASSUME SearchTypeOK, SearchSoFar, search.pc = "vector", NEW vec, NEW filtered \in BOOLEAN,
           VectorRows(vec, filtered)
    PROVE  /\ Merged(vec) \in Seq(Points \X Tags)
           /\ Named(vec) \in Seq(Points) /\ IsInjective(Named(vec)) /\ Len(Named(vec)) <= Limit
           /\ \A p \in ToSet(Named(vec)) : Asked(p)
           /\ ToSet(Named(vec)) = {row[1] : row \in ToSet(Merged(vec))}
           /\ filtered /\ Len(Named(vec)) < Limit =>
                  \A p \in Stored(store) : Asked(p) => p \in ToSet(Named(vec))
<1> DEFINE a == search.text
           b == NewRows(vec)
           ab == a \o b
           all == Tagged(a, b)
           c == Cut(all, Limit)
           rows == Merged(vec)
           ids == Named(vec)
<1>1. Limit \in Nat
    BY SearchAssumption DEF Limit
<1>2. /\ a \in Seq(Points) /\ IsInjective(a) /\ ToSet(a) = search.ids
      /\ \A p \in search.ids : Asked(p)
    BY DEF SearchTypeOK, SearchRecords, SearchSoFar
<1>3. /\ vec \in Seq(Points) /\ IsInjective(vec) /\ \A p \in ToSet(vec) : Asked(p)
    BY DEF VectorRows
<1>4. /\ b \in Seq(Points) /\ IsInjective(b)
      /\ ToSet(b) = ToSet(vec) \cap (Points \ search.ids)
    <2> DEFINE S == Points \ search.ids
    <2>1. b = Only(vec, S)
        BY DEF NewRows
    <2>. HIDE DEF S, b
    <2>2. /\ Only(vec, S) \in Seq(Points \cap S) /\ ToSet(Only(vec, S)) = ToSet(vec) \cap S
          /\ IsInjective(vec) => IsInjective(Only(vec, S))
        BY <1>3, OnlyProperties
    <2>3. b \in Seq(Points)
        BY <2>1, <2>2, SeqMonotonic
    <2>. QED BY <1>3, <2>1, <2>2, <2>3 DEF S
<1>5. ToSet(vec) \subseteq Points
    <2>1. \A i \in DOMAIN vec : vec[i] \in Points
        BY <1>3, LenProperties, ElementOfSeq
    <2>. QED BY <2>1 DEF ToSet
<1>6. rows = c
    BY DEF Merged, Tagged
<1>7. ids = [i \in DOMAIN rows |-> rows[i][1]]
    BY DEF Named
<1>. HIDE DEF a, b
<1>8. /\ ab \in Seq(Points) /\ ToSet(ab) = ToSet(a) \union ToSet(b) /\ IsInjective(ab)
    <2>1. ToSet(a) \cap ToSet(b) = {}
        BY <1>2, <1>4
    <2>. QED BY <1>2, <1>4, <2>1, ConcatElements
<1>9. /\ all \in Seq(Points \X Tags) /\ Len(all) = Len(ab)
      /\ \A i \in DOMAIN all : all[i][1] = ab[i]
    BY <1>2, <1>4, TaggedRows
<1>. HIDE DEF all, rows, ids, ab
<1>10. /\ c \in Seq(Points \X Tags)
       /\ Len(c) = IF Limit < Len(all) THEN Limit ELSE Len(all)
       /\ Len(c) < Limit => c = all
       /\ \A i \in DOMAIN c : i \in DOMAIN all /\ c[i] = all[i]
    BY <1>1, <1>9, CutProperties
<1>. HIDE DEF c
<1>11. Len(c) \in Nat /\ DOMAIN c = 1..Len(c) /\ Len(all) \in Nat /\ DOMAIN all = 1..Len(all)
       /\ DOMAIN ab = 1..Len(all)
    BY <1>8, <1>9, <1>10, LenProperties
<1>12. Len(c) <= Limit
    <2>1. CASE Limit < Len(all)
        BY <1>1, <1>10, <2>1
    <2>2. CASE ~(Limit < Len(all))
        BY <1>1, <1>10, <1>11, <2>2
    <2>. QED BY <2>1, <2>2
<1>13. DOMAIN ids = DOMAIN c /\ \A i \in DOMAIN c : i \in DOMAIN ab /\ ids[i] = ab[i] /\ ids[i] = c[i][1]
    <2>1. DOMAIN ids = DOMAIN c /\ \A i \in DOMAIN c : ids[i] = c[i][1]
        BY <1>6, <1>7
    <2>. QED BY <1>9, <1>10, <1>11, <2>1
<1>14. \A i \in DOMAIN ab : ab[i] \in Points
    BY <1>8, LenProperties, ElementOfSeq
<1>15. ids \in Seq(Points) /\ Len(ids) = Len(c)
    <2>1. ids = [i \in DOMAIN c |-> c[i][1]]
        BY <1>6, <1>7
    <2>2. ids \in [1..Len(c) -> Points]
        BY <1>11, <1>13, <1>14, <2>1
    <2>3. ids \in Seq(Points)
        BY <1>11, <2>2, IsASeq
    <2>4. Len(ids) \in Nat /\ DOMAIN ids = 1..Len(ids) /\ DOMAIN ids = 1..Len(c)
        BY <2>2, <2>3, LenProperties
    <2>5. Len(c) \in Nat
        BY <1>11
    <2>6. Len(ids) = Len(c)
        BY <2>4, <2>5
    <2>. QED BY <2>3, <2>6
<1>16. IsInjective(ids)
    BY <1>8, <1>13 DEF IsInjective
<1>17. ToSet(ids) \subseteq ToSet(ab)
    BY <1>13 DEF ToSet
<1>18. \A p \in ToSet(ab) : Asked(p)
    BY <1>2, <1>3, <1>4, <1>8
<1>19. ToSet(ids) = {row[1] : row \in ToSet(rows)}
    BY <1>6, <1>13 DEF ToSet
<1>20. ASSUME filtered, Len(ids) < Limit, NEW p \in Stored(store), Asked(p)
       PROVE  p \in ToSet(ids)
    <2>1. c = all
        BY <1>10, <1>15, <1>20
    <2>2. ToSet(ab) \subseteq ToSet(ids)
        <3>1. DOMAIN ab = DOMAIN c
            BY <1>11, <2>1
        <3>. QED BY <1>13, <3>1 DEF ToSet
    <2>3. ToSet(vec) \subseteq ToSet(ids)
        BY <1>2, <1>4, <1>5, <1>8, <2>2
    <2>4. Len(vec) < Limit
        <3>1. Cardinality(ToSet(vec)) = Len(vec) /\ Cardinality(ToSet(vec)) \in Nat
            BY <1>3, DifferentRows
        <3>2. /\ IsFiniteSet(ToSet(ids)) /\ Cardinality(ToSet(ids)) <= Len(ids)
              /\ Cardinality(ToSet(ids)) \in Nat
            BY <1>15, DifferentRows
        <3>3. Cardinality(ToSet(vec)) <= Cardinality(ToSet(ids))
            BY <2>3, <3>2, FS_Subset
        <3>4. Len(ids) \in Nat
            BY <1>11, <1>15
        <3>. QED BY <1>1, <1>20, <3>1, <3>2, <3>3, <3>4
    <2>. QED BY <1>20, <2>3, <2>4 DEF VectorRows
<1>21. rows \in Seq(Points \X Tags)
    BY <1>6, <1>10
<1>22. Len(ids) <= Limit
    BY <1>12, <1>15
<1>. HIDE DEF Asked
<1>23. \A p \in ToSet(ids) : Asked(p)
    BY <1>17, <1>18
<1>. QED BY <1>15, <1>16, <1>19, <1>20, <1>21, <1>22, <1>23 DEF rows, ids

\* Each of the three answers of the index is as VectorRows has it.
LEMMA FilteredRows ==
    ASSUME SearchTypeOK
    PROVE  VectorRows(Nearest({p \in Stored(store) : Asked(p)}, 2 * Limit), TRUE)
<1> DEFINE S == {p \in Stored(store) : Asked(p)}
           n == 2 * Limit
           vec == Nearest(S, n)
<1>1. Limit \in Nat /\ n \in Nat /\ Limit <= n
    <2>1. Limit \in Nat
        BY SearchAssumption DEF Limit
    <2>. QED BY <2>1
<1>2. S \in SUBSET Points
    BY DEF Stored
<1>3. \A p \in S : Asked(p)
    OBVIOUS
<1>4. \A p \in Stored(store) : Asked(p) => p \in S
    OBVIOUS
<1>. HIDE DEF S, n
<1>5. /\ vec \in Seq(Points) /\ IsInjective(vec) /\ ToSet(vec) \subseteq S
      /\ Len(vec) < n => ToSet(vec) = S
    BY <1>1, <1>2, NearestProperties
<1>. HIDE DEF vec
<1>6. Len(vec) \in Nat
    BY <1>5, LenProperties
<1>7. Len(vec) < Limit => ToSet(vec) = S
    BY <1>1, <1>5, <1>6
<1>8. VectorRows(vec, TRUE)
    BY <1>3, <1>4, <1>5, <1>7 DEF VectorRows
<1>. QED BY <1>8 DEF vec, S, n

LEMMA SiftedRows ==
    ASSUME SearchTypeOK
    PROVE  VectorRows(Only(Nearest(Stored(store), 2 * Limit), {p \in Points : Asked(p)}),
                      search.caller = "box")
<1> DEFINE S == Stored(store)
           A == {p \in Points : Asked(p)}
           n == 2 * Limit
           near == Nearest(S, n)
           vec == Only(near, A)
<1>1. Limit \in Nat /\ n \in Nat /\ Limit <= n
    <2>1. Limit \in Nat
        BY SearchAssumption DEF Limit
    <2>. QED BY <2>1
<1>2. S \in SUBSET Points
    BY DEF Stored
<1>3. A \in SUBSET Points /\ \A p \in A : Asked(p)
    OBVIOUS
<1>4. search.caller = "box" => A = Points
    BY DEF Asked
<1>. HIDE DEF S, n, A
<1>5. /\ near \in Seq(Points) /\ IsInjective(near) /\ ToSet(near) \subseteq S
      /\ Len(near) < n => ToSet(near) = S
    BY <1>1, <1>2, NearestProperties
<1>. HIDE DEF near
<1>6. /\ vec \in Seq(Points \cap A) /\ ToSet(vec) = ToSet(near) \cap A
      /\ IsInjective(near) => IsInjective(vec)
      /\ Len(vec) = Len(near) <=> ToSet(near) \subseteq A
    BY <1>5, OnlyProperties
<1>. HIDE DEF vec
<1>7. vec \in Seq(Points) /\ Len(vec) \in Nat /\ Len(near) \in Nat
    BY <1>5, <1>6, SeqMonotonic, LenProperties
<1>8. ASSUME search.caller = "box", Len(vec) < Limit
      PROVE  \A p \in Stored(store) : Asked(p) => p \in ToSet(vec)
    <2>1. ToSet(near) \subseteq A
        BY <1>2, <1>4, <1>5, <1>8
    <2>2. Len(vec) = Len(near)
        BY <1>6, <2>1
    <2>3. Len(near) < n
        BY <1>1, <1>7, <1>8, <2>2
    <2>4. ToSet(vec) = S
        BY <1>5, <1>6, <2>1, <2>3
    <2>. QED BY <2>4 DEF S
<1>9. \A p \in ToSet(vec) : Asked(p)
    BY <1>3, <1>6
<1>10. VectorRows(vec, search.caller = "box")
    BY <1>5, <1>6, <1>7, <1>8, <1>9 DEF VectorRows
<1>. QED BY <1>10 DEF vec, near, S, n, A

LEMMA NoRows == VectorRows(<<>>, FALSE)
<1>1. <<>> \in Seq(Points) /\ DOMAIN <<>> = {}
    BY EmptySeq
<1>2. ToSet(<<>>) = {} /\ IsInjective(<<>>)
    BY <1>1 DEF ToSet, IsInjective
<1>. QED BY <1>1, <1>2 DEF VectorRows

-----------------------------------------------------------------------------
(* What an entity search knows of a record *)

LEMMA ScoreBounds == \A row : Score(row) \in 0..5
<1>1. \A fields : Lexical(fields) \in 0..4
    BY DEF Lexical
<1>. QED BY <1>1 DEF Score

\* The better score is the one before or a row's, and no less than any of them.
LEMMA BetterProperties ==
    ASSUME SearchTypeOK, NEW rows, NEW p \in Points
    PROVE  /\ Better(p, rows) \in Int /\ search.best[p] <= Better(p, rows)
           /\ \A row \in ToSet(rows) : row[1] = p => Score(row) <= Better(p, rows)
           /\ \/ Better(p, rows) = search.best[p]
              \/ \E row \in ToSet(rows) : row[1] = p /\ Better(p, rows) = Score(row)
<1> DEFINE mine == {r \in ToSet(rows) : r[1] = p}
           scores == {Score(row) : row \in mine} \union {search.best[p]}
           m == Better(p, rows)
<1>1. search.best[p] \in Int
    BY DEF SearchTypeOK, SearchRecords
<1>2. scores \in SUBSET Int /\ scores # {} /\ IsFiniteSet(scores)
    <2>1. IsFiniteSet((0..5) \union {search.best[p]})
        <3>1. IsFiniteSet(0..5)
            <4>1. 0 \in Int /\ 5 \in Int
                OBVIOUS
            <4>. QED BY ONLY <4>1, FS_Interval
        <3>. QED BY <3>1, FS_AddElement
    <2>2. scores \in SUBSET ((0..5) \union {search.best[p]})
        BY ScoreBounds
    <2>3. (0..5) \union {search.best[p]} \in SUBSET Int
        BY <1>1
    <2>4. IsFiniteSet(scores)
        BY <2>1, <2>2, FS_Subset
    <2>. QED BY <2>2, <2>3, <2>4
<1>3. m = CHOOSE s \in scores : \A t \in scores : t <= s
    BY DEF Better
<1>4. (\A row \in mine : Score(row) \in scores) /\ search.best[p] \in scores
    OBVIOUS
<1>5. \A s \in scores : s = search.best[p] \/ \E row \in mine : s = Score(row)
    OBVIOUS
<1>6. \A row \in ToSet(rows) : row[1] = p => row \in mine
    OBVIOUS
<1>7. \A row \in mine : row \in ToSet(rows) /\ row[1] = p
    OBVIOUS
<1>. HIDE DEF mine, scores
<1>8. \E s \in scores : \A t \in scores : t <= s
    BY <1>2, FiniteLargest
<1>9. m \in scores /\ \A t \in scores : t <= m
    BY <1>3, <1>8
<1>. HIDE DEF m
<1>10. m \in Int
    BY <1>2, <1>9
<1>11. \A row \in ToSet(rows) : row[1] = p => Score(row) <= m
    BY <1>4, <1>6, <1>9
<1>12. m = search.best[p] \/ \E row \in ToSet(rows) : row[1] = p /\ m = Score(row)
    BY <1>5, <1>7, <1>9
<1>13. search.best[p] <= m
    BY <1>4, <1>9
<1>. QED BY <1>10, <1>11, <1>12, <1>13 DEF m

\* The better scores stand for what was found, and for what this pass adds to it.
LEMMA BetterScored ==
    ASSUME SearchTypeOK, NEW rows, ToSet(rows) \subseteq Points \X Tags,
           \A row \in ToSet(rows) : Asked(row[1]),
           Scored(search.best, search.found),
           NEW best, best = [p \in Points |-> Better(p, rows)],
           NEW found, found = search.found \union {<<row[1], Score(row)>> : row \in ToSet(rows)}
    PROVE  Scored(best, found) /\ best \in [Points -> Int] /\ found \in SUBSET (Points \X Nat)
<1>1. ASSUME NEW p \in Points
      PROVE  /\ best[p] \in Int /\ search.best[p] <= best[p]
             /\ \A row \in ToSet(rows) : row[1] = p => Score(row) <= best[p]
             /\ best[p] = search.best[p]
                \/ \E row \in ToSet(rows) : row[1] = p /\ best[p] = Score(row)
    <2>1. best[p] = Better(p, rows)
        OBVIOUS
    <2>. QED BY <2>1, BetterProperties
<1>2. best \in [Points -> Int]
    BY <1>1
<1>3. search.found \in SUBSET (Points \X Nat) /\ search.best \in [Points -> Int]
    BY DEF SearchTypeOK, SearchRecords
<1>4. \A row \in ToSet(rows) : row[1] \in Points /\ Score(row) \in Nat
    BY ScoreBounds
<1>5. found \in SUBSET (Points \X Nat)
    BY <1>3, <1>4
<1>6. ASSUME NEW f \in found
      PROVE  Asked(f[1]) /\ f[2] <= best[f[1]]
    <2>1. CASE f \in search.found
        <3>1. Asked(f[1]) /\ f[2] <= search.best[f[1]]
            BY <2>1 DEF Scored
        <3>2. f[1] \in Points /\ f[2] \in Nat
            BY <1>3, <2>1
        <3>3. search.best[f[1]] \in Int /\ best[f[1]] \in Int /\ search.best[f[1]] <= best[f[1]]
            BY <1>1, <1>3, <3>2
        <3>. QED BY <3>1, <3>2, <3>3
    <2>2. ASSUME NEW row \in ToSet(rows), f = <<row[1], Score(row)>>
          PROVE  Asked(f[1]) /\ f[2] <= best[f[1]]
        <3>1. row[1] \in Points
            BY <1>4
        <3>2. Score(row) <= best[row[1]]
            BY <1>1, <3>1
        <3>. QED BY <2>2, <3>2
    <2>. QED BY <2>1, <2>2
<1>7. ASSUME NEW p \in Points, best[p] >= 0
      PROVE  <<p, best[p]>> \in found
    <2>1. CASE best[p] = search.best[p]
        BY <1>7, <2>1 DEF Scored
    <2>2. CASE \E row \in ToSet(rows) : row[1] = p /\ best[p] = Score(row)
        <3>1. PICK row \in ToSet(rows) : row[1] = p /\ best[p] = Score(row)
            BY <2>2
        <3>2. <<row[1], Score(row)>> \in found
            OBVIOUS
        <3>. QED BY <3>1, <3>2
    <2>. QED BY <1>1, <2>1, <2>2
<1>. QED BY <1>2, <1>5, <1>6, <1>7 DEF Scored

-----------------------------------------------------------------------------
(* The answers *)

\* AnswersAsked, of an answer that is still to be given.
AnswerOf(found, filtered, rows) ==
    LET named == ToSet(rows)
        low(p) == \A f \in found : f[1] = p => f[2] < MinScore
        others == IF search.caller = "box" THEN {} ELSE Others
    IN  /\ IsInjective(rows)
        /\ named \cap others = {}
        /\ Len(rows) <= LimitAsked
        /\ filtered /\ Len(rows) < LimitAsked =>
               \A p \in steady \ (others \union named) : search.caller = "entities" /\ low(p)
        /\ search.caller = "entities" =>
               \A f \in found : f[1] \notin named /\ f[2] >= MinScore =>
                   /\ Len(rows) = LimitAsked
                   /\ \A p \in named : \E g \in found : g[1] = p /\ g[2] >= f[2]

\* Rows of modules asked for, none twice, that are all there are where they are
\* fewer than asked for, are an answer.
LEMMA RowsAnswer ==
    ASSUME SearchTypeOK, SearchSoFar, search.pc = "vector", search.caller # "entities",
           NEW rows \in Seq(Points), IsInjective(rows), Len(rows) <= LimitAsked,
           \A p \in ToSet(rows) : Asked(p),
           NEW filtered,
           filtered /\ Len(rows) < LimitAsked =>
               \A p \in Stored(store) : Asked(p) => p \in ToSet(rows),
           NEW found
    PROVE  AnswerOf(found, filtered, rows)
<1>1. \A p \in steady : p \in Stored(store)
    BY DEF SearchSoFar
<1> DEFINE others == IF search.caller = "box" THEN {} ELSE Others
<1>2. \A p : p \notin others <=> Asked(p)
    BY DEF Asked
<1>3. ToSet(rows) \cap others = {}
    BY <1>2
<1>4. ASSUME filtered, Len(rows) < LimitAsked, NEW p \in steady \ (others \union ToSet(rows))
      PROVE  FALSE
    BY <1>1, <1>2, <1>4
<1>. QED BY <1>3, <1>4 DEF AnswerOf

LEMMA PlainAnswer ==
    ASSUME SearchTypeOK, SearchSoFar, search.pc = "vector", search.caller = "plain",
           NEW vec, NEW filtered \in BOOLEAN, VectorRows(vec, filtered), NEW found
    PROVE  /\ Cut(Deduped(Named(vec)), LimitAsked) \in Seq(Points)
           /\ AnswerOf(found, filtered, Cut(Deduped(Named(vec)), LimitAsked))
<1> DEFINE ids == Named(vec)
           once == Deduped(ids)
           rows == Cut(once, LimitAsked)
<1>1. /\ ids \in Seq(Points) /\ IsInjective(ids)
      /\ \A p \in ToSet(ids) : Asked(p)
      /\ filtered /\ Len(ids) < Limit =>
             \A p \in Stored(store) : Asked(p) => p \in ToSet(ids)
    BY MergedProperties
<1>. HIDE DEF ids
<1>2. /\ once \in Seq(Points) /\ IsInjective(once)
      /\ ToSet(once) = ToSet(ids) /\ Len(once) = Len(ids)
    BY <1>1, DedupedProperties
<1>. HIDE DEF once
<1>3. LimitAsked \in Nat /\ Limit \in Nat /\ LimitAsked <= Limit
    BY SearchAssumption DEF Limit
<1>4. /\ rows \in Seq(Points) /\ ToSet(rows) \subseteq ToSet(once)
      /\ IsInjective(once) => IsInjective(rows)
      /\ Len(rows) = IF LimitAsked < Len(once) THEN LimitAsked ELSE Len(once)
      /\ Len(rows) < LimitAsked => rows = once
    BY <1>2, <1>3, CutProperties
<1>. HIDE DEF rows
<1>5. Len(once) \in Nat
    BY <1>2, LenProperties
<1>6. Len(rows) <= LimitAsked
    BY <1>3, <1>4, <1>5
<1>7. ASSUME filtered, Len(rows) < LimitAsked
      PROVE  \A p \in Stored(store) : Asked(p) => p \in ToSet(rows)
    <2>1. rows = once
        BY <1>4, <1>7
    <2>2. Len(ids) < Limit
        BY <1>2, <1>3, <1>5, <1>7, <2>1
    <2>. QED BY <1>1, <1>2, <1>7, <2>1, <2>2
<1>8. \A p \in ToSet(rows) : Asked(p)
    BY <1>1, <1>2, <1>4
<1>9. IsInjective(rows)
    BY <1>2, <1>4
<1>10. AnswerOf(found, filtered, rows)
    BY <1>4, <1>6, <1>7, <1>8, <1>9, RowsAnswer
<1>. QED BY <1>4, <1>10 DEF rows, once, ids

LEMMA BoxAnswer ==
    ASSUME SearchTypeOK, SearchSoFar, search.pc = "vector", search.caller = "box",
           NEW vec, NEW filtered \in BOOLEAN, VectorRows(vec, filtered), NEW found
    PROVE  Named(vec) \in Seq(Points) /\ AnswerOf(found, filtered, Named(vec))
<1> DEFINE ids == Named(vec)
<1>1. Limit = LimitAsked
    BY DEF Limit
<1>2. /\ ids \in Seq(Points) /\ IsInjective(ids) /\ Len(ids) <= LimitAsked
      /\ \A p \in ToSet(ids) : Asked(p)
      /\ filtered /\ Len(ids) < LimitAsked =>
             \A p \in Stored(store) : Asked(p) => p \in ToSet(ids)
    BY <1>1, MergedProperties
<1>. HIDE DEF ids
<1>3. AnswerOf(found, filtered, ids)
    BY <1>2, RowsAnswer
<1>. QED BY <1>2, <1>3 DEF ids

Falls(rows, like) == \A i, j \in DOMAIN rows : i <= j => like[rows[i]] >= like[rows[j]]

\* Rows that fall in likeness, and after them others that do and are no likelier.
LEMMA ConcatFalls ==
    ASSUME NEW like \in [Points -> 0..2], NEW a \in Seq(Points), NEW b \in Seq(Points),
           Falls(a, like), Falls(b, like),
           \A p \in ToSet(a), q \in ToSet(b) : like[p] >= like[q]
    PROVE  Falls(a \o b, like)
<1> DEFINE c == a \o b
<1>1. /\ c \in Seq(Points) /\ Len(c) = Len(a) + Len(b)
      /\ \A i \in 1..(Len(a) + Len(b)) : c[i] = IF i <= Len(a) THEN a[i] ELSE b[i - Len(a)]
    BY ConcatProperties
<1>. HIDE DEF c
<1>2. /\ Len(a) \in Nat /\ DOMAIN a = 1..Len(a) /\ Len(b) \in Nat /\ DOMAIN b = 1..Len(b)
      /\ DOMAIN c = 1..(Len(a) + Len(b))
    BY <1>1, LenProperties
<1>3. ASSUME NEW i \in DOMAIN c, NEW j \in DOMAIN c, i <= j
      PROVE  like[c[i]] >= like[c[j]]
    <2>1. CASE j <= Len(a)
        <3>1. i \in DOMAIN a /\ j \in DOMAIN a /\ c[i] = a[i] /\ c[j] = a[j]
            BY <1>1, <1>2, <1>3, <2>1
        <3>. QED BY <1>3, <3>1 DEF Falls
    <2>2. CASE ~(i <= Len(a))
        <3>1. /\ i - Len(a) \in DOMAIN b /\ j - Len(a) \in DOMAIN b /\ i - Len(a) <= j - Len(a)
              /\ c[i] = b[i - Len(a)] /\ c[j] = b[j - Len(a)]
            BY <1>1, <1>2, <1>3, <2>2
        <3>. QED BY <3>1 DEF Falls
    <2>3. CASE i <= Len(a) /\ ~(j <= Len(a))
        <3>1. /\ i \in DOMAIN a /\ j - Len(a) \in DOMAIN b
              /\ c[i] = a[i] /\ c[j] = b[j - Len(a)]
            BY <1>1, <1>2, <1>3, <2>3
        <3>2. c[i] \in ToSet(a) /\ c[j] \in ToSet(b)
            BY <3>1 DEF ToSet
        <3>. QED BY <3>2
    <2>. QED BY <2>1, <2>2, <2>3
<1>. QED BY <1>3 DEF Falls, c

\* Ranking keeps the rows, and the likelier stand first.
LEMMA RankedByLikeness ==
    ASSUME NEW rows \in Seq(Points), IsInjective(rows), NEW like \in [Points -> 0..2]
    PROVE  /\ ByLikeness(rows, like) \in Seq(Points) /\ IsInjective(ByLikeness(rows, like))
           /\ ToSet(ByLikeness(rows, like)) = ToSet(rows) /\ Falls(ByLikeness(rows, like), like)
<1> DEFINE A == {p \in Points : like[p] = 2}
           B == {p \in Points : like[p] = 1}
           C == {p \in Points : like[p] = 0}
           a == Only(rows, A)
           b == Only(rows, B)
           c == Only(rows, C)
           ab == a \o b
<1>1. ByLikeness(rows, like) = ab \o c
    BY DEF ByLikeness
<1>2. \A p \in Points : p \in A \union B \union C
    OBVIOUS
<1>3. ToSet(rows) \in SUBSET Points
    <2>1. \A i \in DOMAIN rows : rows[i] \in Points
        BY LenProperties, ElementOfSeq
    <2>. QED BY <2>1 DEF ToSet
<1>4. (\A p \in A : like[p] = 2) /\ (\A p \in B : like[p] = 1) /\ (\A p \in C : like[p] = 0)
    OBVIOUS
<1>. HIDE DEF A, B, C
<1>5. /\ a \in Seq(Points \cap A) /\ ToSet(a) = ToSet(rows) \cap A /\ IsInjective(a)
      /\ b \in Seq(Points \cap B) /\ ToSet(b) = ToSet(rows) \cap B /\ IsInjective(b)
      /\ c \in Seq(Points \cap C) /\ ToSet(c) = ToSet(rows) \cap C /\ IsInjective(c)
    BY OnlyProperties
<1>. HIDE DEF a, b, c
<1>6. a \in Seq(Points) /\ b \in Seq(Points) /\ c \in Seq(Points)
    BY <1>5, SeqMonotonic
<1>7. Falls(a, like) /\ Falls(b, like) /\ Falls(c, like)
    BY <1>4, <1>5 DEF Falls, ToSet
<1>8. \A p \in ToSet(a), q \in ToSet(b) : p # q /\ like[p] >= like[q]
    <2>1. ASSUME NEW p \in ToSet(a), NEW q \in ToSet(b)
          PROVE  p # q /\ like[p] >= like[q]
        <3>1. like[p] = 2 /\ like[q] = 1
            BY <1>4, <1>5
        <3>. QED BY <3>1
    <2>. QED BY <2>1
<1>9. ToSet(a) \cap ToSet(b) = {}
    BY <1>8
<1>10. ab \in Seq(Points) /\ ToSet(ab) = ToSet(a) \union ToSet(b) /\ IsInjective(ab)
    BY <1>5, <1>6, <1>9, ConcatElements
<1>11. Falls(ab, like)
    BY <1>6, <1>7, <1>8, ConcatFalls
<1>. HIDE DEF ab
<1>12. \A p \in ToSet(ab), q \in ToSet(c) : p # q /\ like[p] >= like[q]
    <2>1. ASSUME NEW p \in ToSet(ab), NEW q \in ToSet(c)
          PROVE  p # q /\ like[p] >= like[q]
        <3>1. (like[p] = 2 \/ like[p] = 1) /\ like[q] = 0
            BY <1>4, <1>5, <1>10
        <3>. QED BY <3>1
    <2>. QED BY <2>1
<1>13. ToSet(ab) \cap ToSet(c) = {}
    BY <1>12
<1>14. /\ ab \o c \in Seq(Points) /\ ToSet(ab \o c) = ToSet(ab) \union ToSet(c)
       /\ IsInjective(ab \o c)
    BY <1>5, <1>6, <1>10, <1>13, ConcatElements
<1>15. Falls(ab \o c, like)
    BY <1>6, <1>7, <1>10, <1>11, <1>12, ConcatFalls
<1>16. ToSet(ab \o c) = ToSet(rows)
    BY <1>2, <1>3, <1>5, <1>10, <1>14
<1>. QED BY <1>1, <1>14, <1>15, <1>16

\* The products of a lookup: none twice, of the catalog's or the index's, all of
\* them or as many as asked for and then none likelier left out.
LEMMA LookupProperties ==
    ASSUME NEW listed \in SUBSET Points, NEW ids \in Seq(Points), IsInjective(ids),
           NEW like \in [Points -> 0..2]
    PROVE  LET rows == WithCatalog(listed, ids, like)
               all == listed \union ToSet(ids)
           IN  /\ rows \in Seq(Points) /\ IsInjective(rows) /\ Len(rows) <= ProductLimit
               /\ ToSet(rows) \subseteq all
               /\ Len(rows) < ProductLimit => ToSet(rows) = all
               /\ \A p \in all \ ToSet(rows) : \A q \in ToSet(rows) : like[q] >= like[p]
<1> DEFINE M == Points \ listed
           a == InOrder(listed)
           b == Only(ids, M)
           ab == a \o b
           all == ByLikeness(ab, like)
           rows == Cut(all, ProductLimit)
           both == listed \union ToSet(ids)
<1>1. WithCatalog(listed, ids, like) = rows
    BY DEF WithCatalog
<1>2. ToSet(ids) \subseteq Points
    <2>1. \A i \in DOMAIN ids : ids[i] \in Points
        BY LenProperties, ElementOfSeq
    <2>. QED BY <2>1 DEF ToSet
<1>3. a \in Seq(Points) /\ ToSet(a) = listed /\ IsInjective(a)
    BY PointsInOrder
<1>4. \A p : p \in M <=> p \in Points /\ p \notin listed
    OBVIOUS
<1>. HIDE DEF M, a
<1>5. b \in Seq(Points \cap M) /\ ToSet(b) = ToSet(ids) \cap M /\ IsInjective(b)
    BY OnlyProperties
<1>. HIDE DEF b
<1>6. b \in Seq(Points)
    BY <1>5, SeqMonotonic
<1>7. ToSet(a) \cap ToSet(b) = {} /\ ToSet(a) \union ToSet(b) = both
    BY <1>2, <1>3, <1>4, <1>5
<1>8. ab \in Seq(Points) /\ ToSet(ab) = both /\ IsInjective(ab)
    BY <1>3, <1>5, <1>6, <1>7, ConcatElements
<1>. HIDE DEF ab, both
<1>9. /\ all \in Seq(Points) /\ IsInjective(all) /\ ToSet(all) = both /\ Falls(all, like)
    BY <1>8, RankedByLikeness
<1>. HIDE DEF all
<1>10. ProductLimit \in Nat
    BY SearchAssumption
<1>11. /\ rows \in Seq(Points) /\ ToSet(rows) \subseteq ToSet(all)
       /\ IsInjective(all) => IsInjective(rows)
       /\ Len(rows) = IF ProductLimit < Len(all) THEN ProductLimit ELSE Len(all)
       /\ Len(rows) < ProductLimit => rows = all
       /\ \A i \in DOMAIN rows : i \in DOMAIN all /\ i <= ProductLimit /\ rows[i] = all[i]
       /\ \A i \in DOMAIN all : i <= ProductLimit => i \in DOMAIN rows
    BY <1>9, <1>10, CutProperties
<1>. HIDE DEF rows
<1>12. Len(all) \in Nat /\ DOMAIN all = 1..Len(all)
    BY <1>9, LenProperties
<1>13. Len(rows) <= ProductLimit
    BY <1>10, <1>11, <1>12
<1>14. ASSUME NEW p \in both \ ToSet(rows), NEW q \in ToSet(rows)
       PROVE  like[q] >= like[p]
    <2>1. PICK j \in DOMAIN all : all[j] = p
        BY <1>9 DEF ToSet
    <2>2. PICK i \in DOMAIN rows : rows[i] = q
        BY DEF ToSet
    <2>3. i \in DOMAIN all /\ i <= ProductLimit /\ all[i] = q
        BY <1>11, <2>2
    <2>4. ~(j <= ProductLimit)
        <3>1. SUFFICES ASSUME j <= ProductLimit
                       PROVE  FALSE
            OBVIOUS
        <3>2. j \in DOMAIN rows
            BY <1>11, <2>1, <3>1
        <3>3. rows[j] = p
            BY <1>11, <2>1, <3>2
        <3>. QED BY <1>14, <3>2, <3>3 DEF ToSet
    <2>5. i <= j
        BY <1>10, <1>12, <2>1, <2>3, <2>4
    <2>. QED BY <1>9, <2>1, <2>3, <2>5 DEF Falls
<1>. QED BY <1>1, <1>9, <1>11, <1>13, <1>14 DEF both

\* The best of the records that scored enough: what is left out scored no better
\* than any that is named.
LEMMA EntitiesAnswer ==
    ASSUME SearchTypeOK, search.caller = "entities", NEW filtered,
           NEW best \in [Points -> Int], NEW found \in SUBSET (Points \X Nat),
           Scored(best, found)
    PROVE  /\ Cut(Best(best), LimitAsked) \in Seq(Points)
           /\ AnswerOf(found, filtered, Cut(Best(best), LimitAsked))
<1> DEFINE S == {p \in Points : best[p] >= MinScore}
           R == BestFirst(best)
           all == Sorted(R, S)
           rows == Cut(all, LimitAsked)
<1>1. S \in SUBSET Points /\ IsFiniteSet(S)
    BY SearchAssumption, FS_Subset
<1>2. MinScore \in Nat /\ LimitAsked \in Nat
    BY SearchAssumption
<1>3. \A p \in S : best[p] \in Int /\ best[p] >= MinScore /\ p \in Points
    OBVIOUS
<1>4. \A p \in Points : best[p] >= MinScore => p \in S
    OBVIOUS
<1>5. \A p \in Points : p \in Nat
    BY SearchAssumption
<1>6. \A p, q : <<p, q>> \in R <=>
          p \in Points /\ q \in Points
          /\ (best[p] > best[q] \/ (best[p] = best[q] /\ p < q))
    BY DEF BestFirst
<1>7. Best(best) = all
    BY DEF Best
<1>. HIDE DEF S, R
<1>8. StrictTotal(R, S)
    <2>1. ASSUME NEW p \in S
          PROVE  <<p, p>> \notin R
        BY <1>3, <1>5, <1>6
    <2>2. ASSUME NEW p \in S, NEW q \in S, NEW r \in S, <<p, q>> \in R, <<q, r>> \in R
          PROVE  <<p, r>> \in R
        <3>1. /\ best[p] \in Int /\ best[q] \in Int /\ best[r] \in Int
              /\ p \in Nat /\ q \in Nat /\ r \in Nat
            BY <1>3, <1>5
        <3>2. /\ best[p] > best[q] \/ (best[p] = best[q] /\ p < q)
              /\ best[q] > best[r] \/ (best[q] = best[r] /\ q < r)
            BY <1>6, <2>2
        <3>3. best[p] > best[r] \/ (best[p] = best[r] /\ p < r)
            BY <3>1, <3>2
        <3>. QED BY <1>3, <1>6, <3>3
    <2>3. ASSUME NEW p \in S, NEW q \in S, p # q
          PROVE  <<p, q>> \in R \/ <<q, p>> \in R
        <3>1. best[p] \in Int /\ best[q] \in Int /\ p \in Nat /\ q \in Nat
            BY <1>3, <1>5
        <3>2. \/ best[p] > best[q] \/ (best[p] = best[q] /\ p < q)
              \/ best[q] > best[p] \/ (best[q] = best[p] /\ q < p)
            BY <2>3, <3>1
        <3>. QED BY <1>3, <1>6, <3>2
    <2>. QED BY <2>1, <2>2, <2>3 DEF StrictTotal
<1>9. /\ all \in Seq(S) /\ ToSet(all) = S /\ IsInjective(all)
      /\ Len(all) = Cardinality(S)
      /\ \A j, k \in 1..Cardinality(S) : j < k => <<all[j], all[k]>> \in R
    BY <1>1, <1>8, SortedProperties
<1>. HIDE DEF all
<1>10. all \in Seq(Points) /\ Len(all) \in Nat /\ DOMAIN all = 1..Len(all)
    BY <1>1, <1>9, SeqMonotonic, LenProperties
<1>11. /\ rows \in Seq(Points) /\ ToSet(rows) \subseteq S
       /\ IsInjective(all) => IsInjective(rows)
       /\ Len(rows) = IF LimitAsked < Len(all) THEN LimitAsked ELSE Len(all)
       /\ Len(rows) < LimitAsked => rows = all
       /\ \A i \in DOMAIN rows : i \in DOMAIN all /\ i <= LimitAsked /\ rows[i] = all[i]
       /\ \A i \in DOMAIN all : i <= LimitAsked => i \in DOMAIN rows
    BY <1>2, <1>9, <1>10, CutProperties
<1>. HIDE DEF rows
<1>12. Len(rows) <= LimitAsked
    BY <1>2, <1>10, <1>11
<1>13. \A p \in S : <<p, best[p]>> \in found
    <2>1. \A p \in S : best[p] >= 0
        BY <1>2, <1>3
    <2>. QED BY <1>3, <2>1 DEF Scored
<1>14. \A p \in ToSet(rows) : Asked(p)
    <2>1. ASSUME NEW p \in S
          PROVE  Asked(p)
        <3>1. <<p, best[p]>>[1] = p
            OBVIOUS
        <3>. QED BY <1>13, <3>1 DEF Scored
    <2>. QED BY <1>11, <2>1
<1>15. ToSet(rows) \cap Others = {}
    BY <1>14 DEF Asked
<1>16. ASSUME NEW f \in found, f[2] >= MinScore
       PROVE  f[1] \in S /\ best[f[1]] >= f[2] /\ f[2] \in Nat
    <2>1. f[1] \in Points /\ f[2] \in Nat /\ f[2] <= best[f[1]] /\ best[f[1]] \in Int
        BY DEF Scored
    <2>2. best[f[1]] >= MinScore
        BY <1>2, <1>16, <2>1
    <2>. QED BY <1>4, <2>1, <2>2
<1>17. ASSUME Len(rows) < LimitAsked, NEW f \in found, f[1] \notin ToSet(rows)
       PROVE  f[2] < MinScore
    <2>1. SUFFICES ASSUME f[2] >= MinScore
                   PROVE  FALSE
        <3>1. f[2] \in Nat
            OBVIOUS
        <3>. QED BY <1>2, <2>1, <3>1
    <2>. QED BY <1>9, <1>11, <1>16, <1>17, <2>1
<1>18. ASSUME NEW f \in found, f[1] \notin ToSet(rows), f[2] >= MinScore
       PROVE  /\ Len(rows) = LimitAsked
              /\ \A p \in ToSet(rows) : \E g \in found : g[1] = p /\ g[2] >= f[2]
    <2>1. f[1] \in S /\ best[f[1]] >= f[2] /\ f[2] \in Nat
        BY <1>16, <1>18
    <2>2. Len(rows) = LimitAsked
        <3>1. Len(rows) \in Nat
            BY <1>11, LenProperties
        <3>2. ~(Len(rows) < LimitAsked)
            BY <1>9, <1>11, <1>18, <2>1
        <3>. QED BY <1>2, <1>12, <3>1, <3>2
    <2>3. PICK k \in DOMAIN all : all[k] = f[1]
        BY <1>9, <2>1 DEF ToSet
    <2>4. k > LimitAsked
        <3>1. k \in Nat
            BY <1>10
        <3>2. ASSUME k <= LimitAsked
              PROVE  FALSE
            <4>1. k \in DOMAIN rows /\ rows[k] = f[1]
                BY <1>11, <2>3, <3>2
            <4>. QED BY <1>18, <4>1 DEF ToSet
        <3>. QED BY <1>2, <3>1, <3>2
    <2>5. ASSUME NEW p \in ToSet(rows)
          PROVE  \E g \in found : g[1] = p /\ g[2] >= f[2]
        <3>1. PICK j \in DOMAIN rows : rows[j] = p
            BY <2>5 DEF ToSet
        <3>2. j \in DOMAIN all /\ j <= LimitAsked /\ all[j] = p
            BY <1>11, <3>1
        <3>3. j \in Nat /\ k \in Nat
            BY <1>10, <3>2
        <3>4. j < k
            BY <1>2, <2>4, <3>2, <3>3
        <3>5. j \in 1..Cardinality(S) /\ k \in 1..Cardinality(S)
            BY <1>9, <1>10, <3>2
        <3>6. <<p, f[1]>> \in R
            BY <1>9, <2>3, <3>2, <3>4, <3>5
        <3>7. best[p] >= best[f[1]] /\ best[p] \in Int /\ best[f[1]] \in Int /\ p \in S
            <4>1. p \in S
                BY <1>11
            <4>2. best[p] \in Int /\ best[f[1]] \in Int
                BY <1>3, <2>1, <4>1
            <4>. QED BY <1>6, <3>6, <4>1, <4>2
        <3>8. best[p] >= f[2]
            BY <2>1, <3>7
        <3>9. <<p, best[p]>> \in found
            BY <1>13, <3>7
        <3>10. <<p, best[p]>>[1] = p /\ <<p, best[p]>>[2] = best[p]
            OBVIOUS
        <3>. QED BY <3>8, <3>9, <3>10
    <2>. QED BY <2>2, <2>5
<1>19. IsInjective(rows)
    BY <1>9, <1>11
<1>20. AnswerOf(found, filtered, rows)
    <2>1. ASSUME Len(rows) < LimitAsked, NEW p \in steady \ (Others \union ToSet(rows))
          PROVE  \A f \in found : f[1] = p => f[2] < MinScore
        BY <1>17, <2>1
    <2>. QED BY <1>12, <1>15, <1>18, <1>19, <2>1 DEF AnswerOf
<1>. QED BY <1>7, <1>11, <1>20 DEF rows

-----------------------------------------------------------------------------
(* Searches: the steps *)

SearchInv == SearchTypeOK /\ SearchSoFar /\ AnswersAsked

Ended(best, found, filtered, rows) ==
    [pc |-> "done", caller |-> search.caller, listed |-> search.listed,
     passes |-> search.passes, variant |-> search.variant, pass |-> search.pass,
     ids |-> search.ids, text |-> search.text, best |-> best, found |-> found,
     like |-> search.like, rows |-> rows, filtered |-> filtered]

\* A search that ends with an answer.
LEMMA EndedAnswers ==
    ASSUME SearchTypeOK, NEW best \in [Points -> Int], NEW found \in SUBSET (Points \X Nat),
           NEW filtered \in BOOLEAN, NEW rows \in Seq(Points),
           AnswerOf(found, filtered, rows),
           search.caller # "products", search.listed = {},
           search' = Ended(best, found, filtered, rows),
           UNCHANGED <<store, index, steady, writes>>
    PROVE  SearchInv'
<1>1. /\ search'.pc = "done" /\ search'.caller = search.caller /\ search'.rows = rows
      /\ search'.found = found /\ search'.filtered = filtered /\ search'.listed = {}
    BY DEF Ended
<1>2. /\ search.caller \in {"plain", "entities", "products", "box"}
      /\ search.listed \in SUBSET Products /\ search.passes \in {2, 4}
      /\ search.variant \in Nat /\ search.pass \in Nat /\ search.ids \in SUBSET Points
      /\ search.text \in Seq(Points) /\ search.like \in [Points -> 0..2]
    BY DEF SearchTypeOK, SearchRecords
<1>3. SearchTypeOK'
    <2>1. search' \in SearchRecords
        BY <1>2 DEF Ended, SearchRecords
    <2>. QED BY <2>1 DEF SearchTypeOK
<1>4. SearchSoFar'
    BY <1>1 DEF SearchSoFar
<1>5. AnswersAsked'
    BY <1>1 DEF AnswersAsked, AnswerOf
<1>. QED BY <1>3, <1>4, <1>5 DEF SearchInv

\* A lookup that ends: with what the catalog listed, and with the index's rows
\* where it had any.
LEMMA LookedUpAnswers ==
    ASSUME SearchTypeOK, NEW known \in SearchRecords,
           NEW ids \in Seq(Points), IsInjective(ids), ToSet(ids) \cap Others = {},
           known.filtered /\ Len(ids) < ProductLimit =>
               \A p \in steady : p \notin Others => p \in ToSet(ids),
           LookedUp(known, ids), UNCHANGED <<store, index, steady, writes>>
    PROVE  SearchInv'
<1>1. PICK like \in Likeness(known.listed) :
        search' = [known EXCEPT !.pc = "done", !.caller = "products", !.like = like,
                                !.rows = WithCatalog(known.listed, ids, like)]
    BY DEF LookedUp
<1> DEFINE rows == WithCatalog(known.listed, ids, like)
           all == known.listed \union ToSet(ids)
<1>2. like \in [Points -> 0..2]
    BY DEF Likeness
<1>3. known.listed \in SUBSET Points /\ known.listed \cap Others = {}
    BY DEF SearchRecords, Products
<1>4. /\ rows \in Seq(Points) /\ IsInjective(rows) /\ Len(rows) <= ProductLimit
      /\ ToSet(rows) \subseteq all
      /\ Len(rows) < ProductLimit => ToSet(rows) = all
      /\ \A p \in all \ ToSet(rows) : \A q \in ToSet(rows) : like[q] >= like[p]
    BY <1>2, <1>3, LookupProperties
<1>5. search' = [known EXCEPT !.pc = "done", !.caller = "products", !.like = like, !.rows = rows]
    BY <1>1
<1>. HIDE DEF rows
<1>6. search' \in SearchRecords
    BY <1>2, <1>4, <1>5 DEF SearchRecords
<1>7. /\ search'.pc = "done" /\ search'.caller = "products" /\ search'.like = like
      /\ search'.rows = rows /\ search'.listed = known.listed
      /\ search'.filtered = known.filtered
    BY <1>5 DEF SearchRecords
<1>8. SearchTypeOK'
    BY <1>6 DEF SearchTypeOK
<1>9. SearchSoFar'
    BY <1>7 DEF SearchSoFar
<1>10. ToSet(rows) \cap Others = {}
    BY <1>3, <1>4
<1>11. Len(rows) \in Nat /\ ProductLimit \in Nat
    BY <1>4, SearchAssumption, LenProperties
<1>12. ASSUME known.filtered, Len(rows) < ProductLimit, NEW p \in steady, p \notin Others
       PROVE  p \in ToSet(rows)
    <2>1. ToSet(rows) = all
        BY <1>4, <1>12
    <2>2. Len(ids) < ProductLimit
        <3>1. Cardinality(ToSet(ids)) = Len(ids)
            BY DifferentRows
        <3>2. /\ IsFiniteSet(ToSet(rows)) /\ Cardinality(ToSet(rows)) <= Len(rows)
              /\ Cardinality(ToSet(rows)) \in Nat
            BY <1>4, DifferentRows
        <3>3. ToSet(ids) \in SUBSET ToSet(rows)
            BY <2>1
        <3>4. Cardinality(ToSet(ids)) <= Cardinality(ToSet(rows))
            BY <3>2, <3>3, FS_Subset
        <3>5. Len(ids) \in Nat
            BY LenProperties
        <3>. QED BY <1>11, <1>12, <3>1, <3>2, <3>4, <3>5
    <2>3. p \in ToSet(ids)
        BY <1>12, <2>2
    <2>. QED BY <2>1, <2>3
<1>13. ASSUME NEW p \in known.listed \ ToSet(rows)
       PROVE  Len(rows) = ProductLimit /\ \A q \in ToSet(rows) : like[q] >= like[p]
    <2>1. ~(Len(rows) < ProductLimit)
        BY <1>4, <1>13
    <2>. QED BY <1>4, <1>11, <1>13, <2>1
<1>14. steady' = steady
    OBVIOUS
<1>. HIDE DEF all
<1>15. AnswersAsked'
    BY <1>4, <1>7, <1>10, <1>12, <1>13, <1>14 DEF AnswersAsked
<1>. QED BY <1>8, <1>9, <1>15 DEF SearchInv

\* The pass for the vectors, whatever it answers.
LEMMA SearchedKeeps ==
    ASSUME SearchInv, search.pc = "vector", NEW vec, NEW filtered \in BOOLEAN,
           VectorRows(vec, filtered), Searched(vec, filtered),
           UNCHANGED <<store, index, steady, writes>>
    PROVE  SearchInv'
<1> DEFINE rows == Merged(vec)
           best == [p \in Points |-> Better(p, rows)]
           found == search.found \union {<<row[1], Score(row)>> : row \in ToSet(rows)}
           both == search.filtered /\ filtered
           known == [search EXCEPT !.found = found, !.filtered = both]
           ids == Named(vec)
<1>1. SearchTypeOK /\ SearchSoFar
    BY DEF SearchInv
<1>2. /\ rows \in Seq(Points \X Tags)
      /\ \A p \in ToSet(ids) : Asked(p)
      /\ ToSet(ids) = {row[1] : row \in ToSet(rows)}
    BY <1>1, MergedProperties
<1>3. ToSet(rows) \subseteq Points \X Tags
    <2>. HIDE DEF rows
    <2>1. \A i \in DOMAIN rows : rows[i] \in Points \X Tags
        BY <1>2, LenProperties, ElementOfSeq
    <2>. QED BY <2>1 DEF ToSet
<1>4. \A row \in ToSet(rows) : Asked(row[1])
    <2>. HIDE DEF rows, ids
    <2>. QED BY <1>2
<1>5. search.caller \in {"plain", "entities", "products", "box"}
    BY <1>1 DEF SearchTypeOK, SearchRecords
<1>6. search.filtered \in BOOLEAN /\ both \in BOOLEAN
    BY <1>1 DEF SearchTypeOK, SearchRecords
<1>7. Scored(search.best, search.found)
    BY <1>1 DEF SearchSoFar
<1>8. Scored(best, found) /\ best \in [Points -> Int] /\ found \in SUBSET (Points \X Nat)
    <2>. HIDE DEF rows, best, found
    <2>1. best = [p \in Points |-> Better(p, rows)]
        BY DEF best
    <2>2. found = search.found \union {<<row[1], Score(row)>> : row \in ToSet(rows)}
        BY DEF found
    <2>. QED BY <1>1, <1>3, <1>4, <1>7, <2>1, <2>2, BetterScored
<1>9. search.best \in [Points -> Int]
    BY <1>1 DEF SearchTypeOK, SearchRecords
<1>10. VectorRows(vec, both)
    BY <1>6 DEF VectorRows
<1>11. known =
         [pc |-> search.pc, caller |-> search.caller, listed |-> search.listed,
          passes |-> search.passes, variant |-> search.variant, pass |-> search.pass,
          ids |-> search.ids, text |-> search.text, best |-> search.best, found |-> found,
          like |-> search.like, rows |-> search.rows, filtered |-> both]
    <2>. HIDE DEF found, both
    <2>1. search \in SearchRecords
        BY <1>1 DEF SearchTypeOK, SearchRecords
    <2>2. PICK place, caller, listed, passes, variant, pass, pids, text, pbest, pfound, like,
               prows, pfiltered :
            search = [pc |-> place, caller |-> caller, listed |-> listed, passes |-> passes,
                      variant |-> variant, pass |-> pass, ids |-> pids, text |-> text,
                      best |-> pbest, found |-> pfound, like |-> like, rows |-> prows,
                      filtered |-> pfiltered]
        BY <2>1 DEF SearchRecords
    <2>3. ASSUME NEW k, k = [search EXCEPT !.found = found, !.filtered = both]
          PROVE  k = [pc |-> place, caller |-> caller, listed |-> listed, passes |-> passes,
                      variant |-> variant, pass |-> pass, ids |-> pids, text |-> text,
                      best |-> pbest, found |-> found, like |-> like, rows |-> prows,
                      filtered |-> both]
        BY <2>2, <2>3
    <2>4. /\ search.pc = place /\ search.caller = caller /\ search.variant = variant
          /\ search.pass = pass /\ search.ids = pids /\ search.text = text
          /\ search.best = pbest /\ search.rows = prows /\ search.listed = listed
          /\ search.passes = passes /\ search.like = like
        BY <2>2
    <2>5. known = [search EXCEPT !.found = found, !.filtered = both]
        BY DEF known
    <2>. HIDE DEF known
    <2>. QED BY <2>3, <2>4, <2>5
<1>12. \/ search.caller = "products" /\ LookedUp(known, ids)
       \/ /\ search.caller # "products"
          /\ search' =
               CASE search.caller = "plain" ->
                      [known EXCEPT !.pc = "done", !.rows = Cut(Deduped(ids), LimitAsked)]
                 [] search.caller = "box" -> BoxAnswered(known, ids)
                 [] search.caller = "entities" /\ VariantsLeft > 0 ->
                      [known EXCEPT !.pc = "text", !.variant = @ + 1, !.pass = 1, !.ids = {},
                                    !.text = <<>>, !.best = best]
                 [] OTHER ->
                      [known EXCEPT !.pc = "done", !.best = best, !.rows = Cut(Best(best), LimitAsked)]
    BY DEF Searched, Named
<1>18. search.caller # "products" => search.listed = {}
    BY <1>1 DEF SearchSoFar
<1>. HIDE DEF known, rows, best, found, both, ids
<1>13. CASE search.caller = "plain"
    <2> DEFINE named == Cut(Deduped(ids), LimitAsked)
    <2>1. named \in Seq(Points) /\ AnswerOf(found, both, named)
        BY <1>1, <1>6, <1>10, <1>13, PlainAnswer DEF ids
    <2>2. search' = [known EXCEPT !.pc = "done", !.rows = named]
        BY <1>12, <1>13
    <2>. HIDE DEF named
    <2>3. search' = Ended(search.best, found, both, named)
        BY <1>11, <2>2 DEF Ended
    <2>. QED BY <1>1, <1>13, <1>6, <1>8, <1>9, <1>18, <2>1, <2>3, EndedAnswers
<1>14. CASE search.caller = "products"
    <2>1. LookedUp(known, ids)
        BY <1>12, <1>14
    <2>2. /\ ids \in Seq(Points) /\ IsInjective(ids)
          /\ both /\ Len(ids) < Limit => \A p \in Stored(store) : Asked(p) => p \in ToSet(ids)
        BY <1>1, <1>6, <1>10, MergedProperties DEF ids
    <2>3. \A p : Asked(p) <=> p \notin Others
        BY <1>14 DEF Asked
    <2>4. ToSet(ids) \cap Others = {}
        BY <1>2, <2>3
    <2>5. Limit \in Nat /\ ProductLimit \in Nat /\ ProductLimit <= Limit /\ Len(ids) \in Nat
        BY <1>14, <2>2, SearchAssumption, LenProperties DEF Limit
    <2>6. known.filtered = both
        BY <1>11
    <2>7. ASSUME known.filtered, Len(ids) < ProductLimit, NEW p \in steady, p \notin Others
          PROVE  p \in ToSet(ids)
        <3>1. p \in Stored(store)
            BY <1>1, <2>7 DEF SearchSoFar
        <3>2. Len(ids) < Limit
            BY <2>5, <2>7
        <3>. QED BY <2>2, <2>3, <2>6, <2>7, <3>1, <3>2
    <2>8. known \in SearchRecords
        <3>1. search \in SearchRecords
            BY <1>1 DEF SearchTypeOK
        <3>. QED BY <1>6, <1>8, <1>11, <3>1 DEF SearchRecords
    <2>. QED BY <1>1, <2>1, <2>2, <2>4, <2>7, <2>8, LookedUpAnswers
<1>15. CASE search.caller = "box"
    <2>1. ids \in Seq(Points) /\ AnswerOf(found, both, ids)
        BY <1>1, <1>6, <1>10, <1>15, BoxAnswer DEF ids
    <2>2. search' = [known EXCEPT !.pc = "done", !.rows = ids]
        BY <1>12, <1>15 DEF BoxAnswered
    <2>3. search' = Ended(search.best, found, both, ids)
        BY <1>11, <2>2 DEF Ended
    <2>. QED BY <1>1, <1>15, <1>6, <1>8, <1>9, <1>18, <2>1, <2>3, EndedAnswers
<1>16. CASE search.caller = "entities" /\ VariantsLeft > 0
    <2>1. search' = [known EXCEPT !.pc = "text", !.variant = @ + 1, !.pass = 1, !.ids = {},
                                  !.text = <<>>, !.best = best]
        BY <1>12, <1>16
    <2>2. search' =
            [pc |-> "text", caller |-> search.caller, listed |-> search.listed,
             passes |-> search.passes, variant |-> search.variant + 1, pass |-> 1, ids |-> {},
             text |-> <<>>, best |-> best, found |-> found, like |-> search.like,
             rows |-> search.rows, filtered |-> both]
        BY <1>11, <2>1
    <2>3. <<>> \in Seq(Points) /\ DOMAIN <<>> = {}
        BY EmptySeq
    <2>4. /\ search.variant + 1 \in Nat /\ search.rows \in Seq(Points)
          /\ search.listed \in SUBSET Products /\ search.passes \in {2, 4}
          /\ search.like \in [Points -> 0..2]
        BY <1>1 DEF SearchTypeOK, SearchRecords
    <2>5. SearchTypeOK'
        <3>1. search' \in SearchRecords
            BY <1>5, <1>6, <1>8, <2>2, <2>3, <2>4 DEF SearchRecords
        <3>. QED BY <1>1, <3>1 DEF SearchTypeOK
    <2>6. /\ search'.pc = "text" /\ search'.caller = search.caller /\ search'.ids = {}
          /\ search'.text = <<>> /\ search'.best = best /\ search'.found = found
          /\ search'.listed = search.listed
        BY <2>2
    <2>7. SearchSoFar'
        <3>1. store' \in Places /\ steady' \subseteq Stored(store)'
            BY <1>1 DEF SearchSoFar, Stored
        <3>2. ToSet(<<>>) = {} /\ IsInjective(<<>>)
            BY <2>3 DEF ToSet, IsInjective
        <3>3. Scored(search.best, search.found)'
            BY <1>8, <2>6 DEF Scored, Asked
        <3>. QED BY <1>16, <1>18, <2>6, <3>1, <3>2, <3>3 DEF SearchSoFar
    <2>8. AnswersAsked'
        BY <2>6 DEF AnswersAsked
    <2>. QED BY <2>5, <2>7, <2>8 DEF SearchInv
<1>17. CASE search.caller = "entities" /\ ~(VariantsLeft > 0)
    <2> DEFINE named == Cut(Best(best), LimitAsked)
    <2>1. named \in Seq(Points) /\ AnswerOf(found, both, named)
        BY <1>1, <1>8, <1>17, EntitiesAnswer
    <2>2. search' = [known EXCEPT !.pc = "done", !.best = best, !.rows = named]
        BY <1>12, <1>17
    <2>. HIDE DEF named
    <2>3. search' = Ended(best, found, both, named)
        BY <1>11, <2>2 DEF Ended
    <2>. QED BY <1>1, <1>17, <1>6, <1>8, <1>18, <2>1, <2>3, EndedAnswers
<1>. QED BY <1>5, <1>13, <1>14, <1>15, <1>16, <1>17

\* A pass for a text field, with the hits it leaves.
LEMMA NextPassKeeps ==
    ASSUME SearchInv, search.pc = "text", NEW ids \in SUBSET Points, NEW text \in Seq(Points),
           IsInjective(text), ToSet(text) = ids, \A p \in ids : Asked(p), NextPass(ids, text),
           UNCHANGED <<store, index, steady, writes>>
    PROVE  SearchInv'
<1> DEFINE last == search.pass = search.passes
           after == IF last THEN Ranked(text) ELSE text
           next == IF last THEN "vector" ELSE "text"
<1>1. SearchTypeOK /\ SearchSoFar
    BY DEF SearchInv
<1>2. after \in Seq(Points) /\ IsInjective(after) /\ ToSet(after) = ids
    BY RankedProperties
<1>3. next \in {"text", "vector"}
    OBVIOUS
<1>4. search' = [search EXCEPT !.ids = ids, !.text = after, !.pass = @ + 1, !.pc = next]
    BY DEF NextPass
<1>. HIDE DEF after, next
<1>5. search' =
        [pc |-> next, caller |-> search.caller, listed |-> search.listed,
         passes |-> search.passes, variant |-> search.variant, pass |-> search.pass + 1,
         ids |-> ids, text |-> after, best |-> search.best, found |-> search.found,
         like |-> search.like, rows |-> search.rows, filtered |-> search.filtered]
    BY <1>1, <1>4 DEF SearchTypeOK, SearchRecords
<1>6. /\ search'.pc = next /\ search'.caller = search.caller /\ search'.ids = ids
      /\ search'.text = after /\ search'.best = search.best /\ search'.found = search.found
      /\ search'.listed = search.listed
    BY <1>5
<1>7. SearchTypeOK'
    <2>1. /\ search.caller \in {"plain", "entities", "products", "box"}
          /\ search.variant \in Nat /\ search.pass + 1 \in Nat
          /\ search.best \in [Points -> Int] /\ search.found \in SUBSET (Points \X Nat)
          /\ search.rows \in Seq(Points) /\ search.filtered \in BOOLEAN
          /\ search.listed \in SUBSET Products /\ search.passes \in {2, 4}
          /\ search.like \in [Points -> 0..2]
        BY <1>1 DEF SearchTypeOK, SearchRecords
    <2>2. search' \in SearchRecords
        BY <1>2, <1>3, <1>5, <2>1 DEF SearchRecords
    <2>. QED BY <1>1, <2>2 DEF SearchTypeOK
<1>8. SearchSoFar'
    <2>1. /\ store \in Places /\ steady \subseteq Stored(store)
          /\ search.found # {} => search.caller = "entities"
          /\ search.listed # {} => search.caller = "products"
          /\ Scored(search.best, search.found)
        BY <1>1 DEF SearchSoFar
    <2>2. Scored(search.best, search.found)'
        BY <1>6, <2>1 DEF Scored, Asked
    <2>3. store' \in Places /\ steady' \subseteq Stored(store)'
        BY <2>1 DEF Stored
    <2>4. \A p \in ids : Asked(p)'
        BY <1>6 DEF Asked
    <2>. QED BY <1>2, <1>6, <2>1, <2>2, <2>3, <2>4 DEF SearchSoFar
<1>9. AnswersAsked'
    BY <1>3, <1>6 DEF AnswersAsked
<1>. QED BY <1>7, <1>8, <1>9 DEF SearchInv

LEMMA NoSearchTyped == NoSearch \in SearchRecords
<1>1. <<>> \in Seq(Points)
    BY EmptySeq
<1>. QED BY <1>1 DEF NoSearch, SearchRecords

\* A lookup that ends without the index.
LEMMA EmptyLookupAnswers ==
    ASSUME SearchTypeOK, NEW known \in SearchRecords, known.filtered = FALSE,
           LookedUp(known, <<>>), UNCHANGED <<store, index, steady, writes>>
    PROVE  SearchInv'
<1>1. <<>> \in Seq(Points) /\ DOMAIN <<>> = {}
    BY EmptySeq
<1>2. ToSet(<<>>) = {} /\ IsInjective(<<>>)
    BY <1>1 DEF ToSet, IsInjective
<1>3. ToSet(<<>>) \cap Others = {}
    BY <1>2
<1>. QED BY <1>1, <1>2, <1>3, LookedUpAnswers

LEMMA SearchInitial == SearchInit => SearchInv
<1> SUFFICES ASSUME SearchInit
             PROVE  SearchInv
    OBVIOUS
<1>1. search = NoSearch /\ search.pc = "idle"
    BY DEF SearchInit, NoSearch
<1>2. <<>> \in Seq(Points)
    BY EmptySeq
<1>3. search \in SearchRecords
    BY <1>1, <1>2 DEF NoSearch, SearchRecords
<1>4. SearchTypeOK
    BY <1>3 DEF SearchTypeOK, SearchInit
<1>. QED BY <1>1, <1>4 DEF SearchInv, SearchSoFar, AnswersAsked

LEMMA SearchSteps == SearchInv /\ [SearchNext]_searchVars => SearchInv'
<1> SUFFICES ASSUME SearchInv, [SearchNext]_searchVars
             PROVE  SearchInv'
    OBVIOUS
<1>1. SearchTypeOK /\ SearchSoFar /\ AnswersAsked
    BY DEF SearchInv
<1>2. CASE SearchBegins
    <2>1. PICK c \in Places, caller \in {"plain", "entities", "products", "box"},
               passes \in {2, 4}, listed \in SUBSET (Products \ Exact) :
            /\ Connected(c)
            /\ caller # "products" => listed = {}
            /\ search' = [NoSearch EXCEPT !.pc = "text", !.caller = caller, !.passes = passes,
                                          !.listed = listed]
            /\ steady' = Stored(c)
        BY <1>2 DEF SearchBegins
    <2>2. UNCHANGED <<index, writes>>
        BY <1>2 DEF SearchBegins
    <2>3. search' =
            [pc |-> "text", caller |-> caller, listed |-> listed, passes |-> passes,
             variant |-> 1, pass |-> 1, ids |-> {}, text |-> <<>>,
             best |-> [p \in Points |-> -1], found |-> {}, like |-> [p \in Points |-> 0],
             rows |-> <<>>, filtered |-> TRUE]
        BY <2>1 DEF NoSearch
    <2>4. <<>> \in Seq(Points) /\ DOMAIN <<>> = {}
        BY EmptySeq
    <2>5. ToSet(<<>>) = {} /\ IsInjective(<<>>)
        BY <2>4 DEF ToSet, IsInjective
    <2>6. SearchTypeOK'
        <3>1. search' \in SearchRecords
            BY <2>3, <2>4 DEF SearchRecords
        <3>2. store' = c /\ steady' \in SUBSET Points
            BY <2>1 DEF Connected, Stored
        <3>. QED BY <1>1, <2>2, <3>1, <3>2 DEF SearchTypeOK
    <2>7. /\ search'.pc = "text" /\ search'.ids = {} /\ search'.text = <<>>
          /\ search'.best = [p \in Points |-> -1] /\ search'.found = {}
          /\ search'.listed = listed /\ search'.caller = caller
        BY <2>3
    <2>10. search'.listed # {} => search'.caller = "products"
        <3>1. caller # "products" => listed = {}
            BY <2>1
        <3>. QED BY <2>7, <3>1
    <2>8. SearchSoFar'
        <3>1. store' \in Places /\ steady' \subseteq Stored(store)'
            BY <2>1, <2>2 DEF Connected, Stored
        <3>2. Scored(search.best, search.found)'
            BY <2>7 DEF Scored
        <3>. QED BY <2>5, <2>7, <2>10, <3>1, <3>2 DEF SearchSoFar
    <2>9. AnswersAsked'
        BY <2>7 DEF AnswersAsked
    <2>. QED BY <2>6, <2>8, <2>9 DEF SearchInv
<1>3. CASE SearchRaises
    <2>1. UNCHANGED <<store, index, steady, writes>>
        BY <1>3 DEF SearchRaises
    <2>2. CASE search' = [NoSearch EXCEPT !.pc = "raised"]
        <3>1. search' = [NoSearch EXCEPT !.pc = "raised"]
            BY <2>2
        <3>2. NoSearch \in SearchRecords
            BY NoSearchTyped
        <3>3. search' \in SearchRecords /\ search'.pc = "raised"
            BY <3>1, <3>2 DEF SearchRecords
        <3>4. SearchTypeOK'
            BY <1>1, <2>1, <3>3 DEF SearchTypeOK
        <3>. QED BY <3>3, <3>4 DEF SearchInv, SearchSoFar, AnswersAsked
    <2>3. CASE LookedUp([search EXCEPT !.filtered = FALSE], <<>>)
        <3> DEFINE known == [search EXCEPT !.filtered = FALSE]
        <3>1. search \in SearchRecords
            BY <1>1 DEF SearchTypeOK
        <3>2. known \in SearchRecords /\ known.filtered = FALSE
            BY <3>1 DEF SearchRecords
        <3>3. LookedUp(known, <<>>)
            BY <2>3
        <3>. HIDE DEF known
        <3>. QED BY <1>1, <2>1, <3>2, <3>3, EmptyLookupAnswers
    <2>. QED BY <1>3, <2>2, <2>3 DEF SearchRaises
<1>9. CASE CatalogAlone
    <2>1. PICK listed \in SUBSET Products :
            LookedUp([NoSearch EXCEPT !.listed = listed, !.filtered = FALSE], <<>>)
        BY <1>9 DEF CatalogAlone
    <2>2. UNCHANGED <<store, index, steady, writes>>
        BY <1>9 DEF CatalogAlone
    <2> DEFINE known == [NoSearch EXCEPT !.listed = listed, !.filtered = FALSE]
    <2>3. NoSearch \in SearchRecords
        BY NoSearchTyped
    <2>4. known \in SearchRecords /\ known.filtered = FALSE
        BY <2>3 DEF SearchRecords
    <2>5. LookedUp(known, <<>>)
        BY <2>1
    <2>. HIDE DEF known
    <2>. QED BY <1>1, <2>2, <2>4, <2>5, EmptyLookupAnswers
<1>4. CASE TextPass
    <2>1. /\ search.pc = "text"
          /\ UNCHANGED <<store, index, steady, writes>>
        BY <1>4 DEF TextPass
    <2>2. PICK S \in PointsRead : NextPass(search.ids \union S, search.text \o TextHits(S))
        BY <1>4 DEF TextPass
    <2>3. S \in SUBSET Points /\ \A p \in S : Asked(p)
        BY DEF PointsRead, Stored
    <2> DEFINE ids == search.ids \union S
               fresh == S \ search.ids
               text == search.text \o InOrder(fresh)
    <2>4. /\ search.text \in Seq(Points) /\ IsInjective(search.text)
          /\ ToSet(search.text) = search.ids /\ search.ids \in SUBSET Points
          /\ \A p \in search.ids : Asked(p)
        BY <1>1, <2>1 DEF SearchTypeOK, SearchRecords, SearchSoFar
    <2>5. /\ InOrder(fresh) \in Seq(Points) /\ ToSet(InOrder(fresh)) = fresh
          /\ IsInjective(InOrder(fresh))
        BY <2>3, PointsInOrder
    <2>6. text \in Seq(Points) /\ ToSet(text) = ids /\ IsInjective(text)
        <3>1. search.ids \cap fresh = {} /\ search.ids \union fresh = ids
            OBVIOUS
        <3>. HIDE DEF fresh
        <3> DEFINE a == search.text
                   b == InOrder(fresh)
        <3>2. a \in Seq(Points) /\ b \in Seq(Points) /\ IsInjective(a) /\ IsInjective(b)
              /\ ToSet(a) \cap ToSet(b) = {} /\ ToSet(a) \union ToSet(b) = ids
            BY <2>4, <2>5, <3>1
        <3>. HIDE DEF a, b, ids
        <3>3. a \o b \in Seq(Points) /\ ToSet(a \o b) = ids /\ IsInjective(a \o b)
            BY <3>2, ConcatElements
        <3>. QED BY <3>3 DEF a, b
    <2>7. NextPass(ids, text)
        BY <2>2 DEF TextHits
    <2>8. ids \in SUBSET Points /\ \A p \in ids : Asked(p)
        BY <2>3, <2>4
    <2>. HIDE DEF ids, text
    <2>. QED BY <2>1, <2>6, <2>7, <2>8, NextPassKeeps
<1>5. CASE TextPassFails
    <2>1. /\ search.pc = "text" /\ NextPass(search.ids, search.text)
          /\ UNCHANGED <<store, index, steady, writes>>
        BY <1>5 DEF TextPassFails
    <2>2. /\ search.text \in Seq(Points) /\ IsInjective(search.text)
          /\ ToSet(search.text) = search.ids /\ search.ids \in SUBSET Points
          /\ \A p \in search.ids : Asked(p)
        BY <1>1, <2>1 DEF SearchTypeOK, SearchRecords, SearchSoFar
    <2>. QED BY <2>1, <2>2, NextPassKeeps
<1>6. CASE VectorPass
    <2>1. /\ search.pc = "vector"
          /\ UNCHANGED <<store, index, steady, writes>>
        BY <1>6 DEF VectorPass
    <2>2. CASE Searched(Nearest({p \in Stored(store) : Asked(p)}, 2 * Limit), TRUE)
        <3> DEFINE vec == Nearest({p \in Stored(store) : Asked(p)}, 2 * Limit)
        <3>1. VectorRows(vec, TRUE)
            BY <1>1, FilteredRows
        <3>2. Searched(vec, TRUE)
            BY <2>2
        <3>. HIDE DEF vec
        <3>. QED BY <2>1, <3>1, <3>2, SearchedKeeps
    <2>3. CASE Searched(Only(Nearest(Stored(store), 2 * Limit), {p \in Points : Asked(p)}),
                        search.caller = "box")
        <3> DEFINE vec == Only(Nearest(Stored(store), 2 * Limit), {p \in Points : Asked(p)})
                   filtered == search.caller = "box"
        <3>1. VectorRows(vec, filtered)
            BY <1>1, SiftedRows
        <3>2. Searched(vec, filtered)
            BY <2>3
        <3>3. filtered \in BOOLEAN
            OBVIOUS
        <3>. HIDE DEF vec, filtered
        <3>. QED BY <2>1, <3>1, <3>2, <3>3, SearchedKeeps
    <2>4. CASE Searched(<<>>, FALSE)
        BY <2>1, <2>4, NoRows, SearchedKeeps
    <2>. QED BY <1>6, <2>2, <2>3, <2>4 DEF VectorPass
<1>7. CASE Upserted
    <2>1. PICK p \in Points, fields \in Matches :
            index' = [index EXCEPT ![store][p] = fields]
        BY <1>7 DEF Upserted
    <2>2. /\ search.pc \in {"text", "vector"} /\ writes' = writes + 1
          /\ UNCHANGED <<store, search, steady>>
        BY <1>7 DEF Upserted
    <2>3. store \in Places /\ steady \subseteq Stored(store)
        BY <1>1, <2>2 DEF SearchSoFar
    <2>4. index[store] \in [Points -> {Absent} \union Matches]
        BY <1>1, <2>3 DEF SearchTypeOK, SearchRecords
    <2>5. /\ index' \in [Places -> [Points -> {Absent} \union Matches]]
          /\ \A q \in Points : index'[store][q] = IF q = p THEN fields ELSE index[store][q]
        <3>1. index \in [Places -> [Points -> {Absent} \union Matches]]
            BY <1>1 DEF SearchTypeOK, SearchRecords
        <3>2. index' = [index EXCEPT ![store] = [index[store] EXCEPT ![p] = fields]]
            BY <2>1
        <3>. HIDE DEF Absent, Fields
        <3>3. [index[store] EXCEPT ![p] = fields] \in [Points -> {Absent} \union Matches]
            BY <2>4
        <3>. QED BY <2>3, <2>4, <3>1, <3>2, <3>3
    <2>6. fields # Absent
        BY DEF Matches, Fields, Absent
    <2>7. steady' \subseteq Stored(store)'
        BY <2>2, <2>3, <2>5, <2>6 DEF Stored
    <2>8. SearchTypeOK'
        <3>1. writes' \in Nat
            BY <1>1, <2>2 DEF SearchTypeOK, SearchRecords
        <3>2. index' \in [Places -> [Points -> {Absent} \union Matches]]
            BY <2>5
        <3>. HIDE DEF Places, Absent, Fields
        <3>. QED BY <1>1, <2>2, <3>1, <3>2 DEF SearchTypeOK
    <2>9. SearchSoFar'
        BY <1>1, <2>2, <2>3, <2>7 DEF SearchSoFar, Scored, Asked
    <2>10. AnswersAsked'
        BY <2>2 DEF AnswersAsked
    <2>. QED BY <2>8, <2>9, <2>10 DEF SearchInv
<1>8. CASE UNCHANGED searchVars
    <2>1. UNCHANGED <<store, index, search, steady, writes>>
        BY <1>8 DEF searchVars
    <2>2. SearchTypeOK'
        BY <1>1, <2>1 DEF SearchTypeOK, SearchRecords
    <2>3. SearchSoFar'
        BY <1>1, <2>1 DEF SearchSoFar, Scored, Asked, Stored
    <2>4. AnswersAsked'
        BY <1>1, <2>1 DEF AnswersAsked
    <2>. QED BY <2>2, <2>3, <2>4 DEF SearchInv
<1>. QED BY <1>2, <1>3, <1>4, <1>5, <1>6, <1>7, <1>8, <1>9 DEF SearchNext

\* Whatever fails and is written between its passes, a search names no record
\* twice, none of another module and no more than asked for, leaves a place empty
\* only when no record is left to name, and an entity search leaves none out that
\* scored better than one it names (rag.py, search and search_entities).
THEOREM SearchAnswers == SearchSpec => []AnswersAsked
<1>1. SearchInit => SearchInv
    BY SearchInitial
<1>2. SearchInv /\ [SearchNext]_searchVars => SearchInv'
    BY SearchSteps
<1>3. SearchInv => AnswersAsked
    BY DEF SearchInv
<1>. QED BY <1>1, <1>2, <1>3, PTL DEF SearchSpec
=============================================================================
