------------------------ MODULE ManifestCache_proofs ------------------------
(***************************************************************************)
(* The manifest cache hands out nothing too old, for any number of workers, *)
(* turns, manifests and any settings.  An age is never less than the time   *)
(* for which the CRM has not published the copy it is the age of: that is   *)
(* what the invariant carries through refreshes, snapshots and restarts.    *)
(***************************************************************************)
EXTENDS ManifestCache, TLAPS

\* A copy in a worker's memory.
Fits(e) ==
    /\ lost[e.ver] <= e.age
    /\ e.fresh > 0 => e.age + e.fresh <= Ttl
    /\ e.failed /\ e.retry > 0 => e.age + e.retry <= StaleMax + Retry

\* An answer, and an entry made of it, are current until time passes.
Answers ==
    \A w \in Workers, t \in Tasks :
        /\ pc[w][t] = "answered" => reply[w] \in Versions /\ lost[reply[w]] = 0
        /\ pc[w][t] = "saving" => entry[w] \in Entry /\ lost[entry[w].ver] = 0

Copies ==
    /\ \A w \in Workers : entry[w] # None => Fits(entry[w])
    /\ snap # None => lost[snap.ver] <= snap.age
    /\ lost[crm] = 0

IInv == TypeOK /\ SingleFlight /\ Answers /\ Copies /\ BoundedStaleness

Places == {"idle", "waiting", "fetching", "answered", "loading", "saving"}

-----------------------------------------------------------------------------
(* The lock, and what get returns *)

\* A task moves on, and takes or frees the lock as it does.
LEMMA TaskMoves ==
    ASSUME TypeOK, SingleFlight, NEW w \in Workers, NEW t \in Tasks, NEW next \in Places,
           pc' = [pc EXCEPT ![w][t] = next],
           \/ next = "idle" /\ holder' = [holder EXCEPT ![w] = IF @ = t THEN None ELSE @]
           \/ next = "waiting" /\ pc[w][t] = "idle" /\ holder' = holder
           \/ next \notin {"idle", "waiting"} /\ holder[w] = None
                /\ holder' = [holder EXCEPT ![w] = t]
           \/ next \notin {"idle", "waiting"} /\ pc[w][t] \notin {"idle", "waiting"}
                /\ holder' = holder
    PROVE  /\ pc' \in [Workers -> [Tasks -> Places]]
           /\ holder' \in [Workers -> Tasks \union {None}]
           /\ pc'[w][t] = next
           /\ \A x \in Workers, u \in Tasks : x # w \/ u # t => pc'[x][u] = pc[x][u]
           /\ SingleFlight'
<1>1. pc \in [Workers -> [Tasks -> Places]] /\ holder \in [Workers -> Tasks \union {None}]
    BY DEF TypeOK, Places
<1>2. /\ pc' \in [Workers -> [Tasks -> Places]]
      /\ pc'[w][t] = next
      /\ \A x \in Workers, u \in Tasks : x # w \/ u # t => pc'[x][u] = pc[x][u]
    BY <1>1
<1>3. holder' \in [Workers -> Tasks \union {None}]
    BY <1>1
<1>4. \A x \in Workers : x # w => holder'[x] = holder[x]
    BY <1>1
<1>5. ASSUME NEW x \in Workers, NEW u \in Tasks
      PROVE  pc'[x][u] \notin {"idle", "waiting"} <=> holder'[x] = u
    <2>1. pc[x][u] \notin {"idle", "waiting"} <=> holder[x] = u
        BY DEF SingleFlight
    <2>2. CASE x # w
        BY <1>2, <1>4, <2>1, <2>2
    <2>3. CASE x = w /\ u # t
        BY <1>1, <1>2, <2>1, <2>3, TimesAssumption DEF SingleFlight
    <2>4. CASE x = w /\ u = t
        BY <1>1, <1>2, <2>1, <2>4, TimesAssumption DEF SingleFlight
    <2>. QED BY <2>2, <2>3, <2>4
<1>. QED BY <1>2, <1>3, <1>5 DEF SingleFlight

\* No other task of the worker is past the lock.
LEMMA Alone ==
    ASSUME SingleFlight, NEW w \in Workers, NEW t \in Tasks,
           pc[w][t] \notin {"idle", "waiting"},
           NEW u \in Tasks \ {t}
    PROVE  pc[w][u] \in {"idle", "waiting"}
BY DEF SingleFlight

\* A manifest that has not been lost for long, or none.
LEMMA Returned ==
    ASSUME TypeOK, NEW w \in Workers, NEW v \in Versions \union {None}, Result(v, w),
           v \in Versions => lost[v] < StaleMax + Retry
    PROVE  /\ ret' \in [ver : Versions \union {None}, outdated : Age \union {None}]
           /\ BoundedStaleness'
<1>1. ret' = [ver |-> v, outdated |-> IF v = None THEN good[w] ELSE lost[v]]
    BY DEF Result
<1>2. good[w] \in Age \union {None} /\ (v \in Versions => lost[v] \in Age)
    BY DEF TypeOK
<1>. QED BY <1>1, <1>2 DEF BoundedStaleness

\* An entry that may be served without a refresh is not too old.
LEMMA UsableIsFit ==
    ASSUME TypeOK, Copies, NEW w \in Workers, UsableWithoutRefresh(entry[w])
    PROVE  entry[w].ver \in Versions /\ lost[entry[w].ver] < StaleMax + Retry
<1>1. entry[w] \in Entry /\ entry[w] # None
    BY DEF TypeOK, UsableWithoutRefresh
<1>2. Fits(entry[w])
    BY <1>1 DEF Copies
<1>3. /\ entry[w].ver \in Versions /\ entry[w].age \in Nat /\ entry[w].fresh \in Nat
      /\ entry[w].retry \in Nat /\ lost[entry[w].ver] \in Nat
    BY <1>1, TimesAssumption DEF Entry, Age, Limit, TypeOK
<1>. QED BY <1>1, <1>2, <1>3, TimesAssumption DEF Fits, UsableWithoutRefresh

\* A task moves on; what it leaves is as current as it says.
LEMMA AnswersKept ==
    ASSUME SingleFlight, Answers, SingleFlight', lost' = lost,
           NEW w \in Workers, NEW t \in Tasks,
           \A x \in Workers, u \in Tasks : x # w \/ u # t => pc'[x][u] = pc[x][u],
           \A x \in Workers \ {w} : reply'[x] = reply[x] /\ entry'[x] = entry[x],
           \/ reply'[w] = reply[w] /\ entry'[w] = entry[w]
           \/ pc[w][t] \notin {"idle", "waiting"},
           pc'[w][t] = "answered" => reply'[w] \in Versions /\ lost[reply'[w]] = 0,
           pc'[w][t] = "saving" => entry'[w] \in Entry /\ lost[entry'[w].ver] = 0
    PROVE  Answers'
<1>. SUFFICES ASSUME NEW x \in Workers, NEW u \in Tasks
     PROVE  /\ pc'[x][u] = "answered" => reply'[x] \in Versions /\ lost[reply'[x]] = 0
            /\ pc'[x][u] = "saving" => entry'[x] \in Entry /\ lost[entry'[x].ver] = 0
    BY DEF Answers
<1>1. CASE x = w /\ u = t
    BY <1>1
<1>2. CASE x # w
    BY <1>2 DEF Answers
<1>3. CASE x = w /\ u # t
    <2>1. CASE reply'[w] = reply[w] /\ entry'[w] = entry[w]
        BY <1>3, <2>1 DEF Answers
    <2>2. CASE pc[w][t] \notin {"idle", "waiting"}
        BY <1>3, <2>2, Alone
    <2>. QED BY <2>1, <2>2
<1>. QED BY <1>1, <1>2, <1>3

-----------------------------------------------------------------------------
(* Steps of get that change no copy *)

LEMMA ServedStep ==
    ASSUME IInv, NEW w \in Workers, NEW t \in Tasks, UsableWithoutRefresh(entry[w]),
           Return(w, t, entry[w].ver),
           UNCHANGED <<crm, lost, snap, entry, reply, good, quiet, dirty>>
    PROVE  IInv'
<1>1. entry[w].ver \in Versions /\ lost[entry[w].ver] < StaleMax + Retry
    BY UsableIsFit DEF IInv
<1>2. /\ pc' = [pc EXCEPT ![w][t] = "idle"]
      /\ holder' = [holder EXCEPT ![w] = IF @ = t THEN None ELSE @]
      /\ Result(entry[w].ver, w)
    BY DEF Return
<1>3. /\ pc' \in [Workers -> [Tasks -> Places]]
      /\ holder' \in [Workers -> Tasks \union {None}]
      /\ pc'[w][t] = "idle"
      /\ \A x \in Workers, u \in Tasks : x # w \/ u # t => pc'[x][u] = pc[x][u]
      /\ SingleFlight'
    BY <1>2, TaskMoves DEF IInv, Places
<1>4. ret' \in [ver : Versions \union {None}, outdated : Age \union {None}]
      /\ BoundedStaleness'
    BY <1>1, <1>2, Returned DEF IInv
<1>5. TypeOK'
    BY <1>3, <1>4 DEF IInv, TypeOK, Places
<1>6. Answers'
    BY <1>3, AnswersKept DEF IInv
<1>7. Copies'
    BY DEF IInv, Copies, Fits
<1>. QED BY <1>3, <1>4, <1>5, <1>6, <1>7 DEF IInv

\* A task waits, asks the CRM or gets to the snapshot.
LEMMA QuietMove ==
    ASSUME IInv, NEW w \in Workers, NEW t \in Tasks,
           NEW next \in {"waiting", "fetching", "loading"},
           pc' = [pc EXCEPT ![w][t] = next],
           \/ next = "waiting" /\ pc[w][t] = "idle" /\ holder' = holder
           \/ next = "fetching" /\ holder[w] = None /\ holder' = [holder EXCEPT ![w] = t]
           \/ next = "loading" /\ pc[w][t] = "fetching" /\ holder' = holder,
           dirty' \in [Workers -> BOOLEAN],
           UNCHANGED <<crm, lost, snap, entry, reply, ret, good, quiet>>
    PROVE  IInv'
<1>1. /\ pc' \in [Workers -> [Tasks -> Places]]
      /\ holder' \in [Workers -> Tasks \union {None}]
      /\ pc'[w][t] = next
      /\ \A x \in Workers, u \in Tasks : x # w \/ u # t => pc'[x][u] = pc[x][u]
      /\ SingleFlight'
    BY TaskMoves DEF IInv, Places
<1>2. TypeOK'
    BY <1>1 DEF IInv, TypeOK, Places
<1>3. Answers'
    BY <1>1, AnswersKept DEF IInv
<1>4. Copies' /\ BoundedStaleness'
    BY DEF IInv, Copies, Fits, BoundedStaleness
<1>. QED BY <1>1, <1>2, <1>3, <1>4 DEF IInv

-----------------------------------------------------------------------------
(* Refreshes *)

\* What the CRM answers is what it publishes.
LEMMA RepliesStep ==
    ASSUME IInv, NEW w \in Workers, NEW t \in Tasks, CrmReplies(w, t)
    PROVE  IInv'
<1>1. /\ pc[w][t] = "fetching" /\ pc' = [pc EXCEPT ![w][t] = "answered"]
      /\ reply' = [reply EXCEPT ![w] = crm]
      /\ UNCHANGED <<crm, lost, snap, entry, holder, ret, good, quiet, dirty>>
    BY DEF CrmReplies
<1>2. /\ pc' \in [Workers -> [Tasks -> Places]]
      /\ pc'[w][t] = "answered"
      /\ \A x \in Workers, u \in Tasks : x # w \/ u # t => pc'[x][u] = pc[x][u]
      /\ SingleFlight'
    BY <1>1, TaskMoves DEF IInv, Places
<1>3. /\ crm \in Versions /\ lost[crm] = 0
      /\ reply' \in [Workers -> Versions \union {None}]
      /\ reply'[w] = crm /\ \A x \in Workers \ {w} : reply'[x] = reply[x]
    BY <1>1 DEF IInv, TypeOK, Copies
<1>4. TypeOK'
    BY <1>1, <1>2, <1>3 DEF IInv, TypeOK, Places
<1>5. Answers'
    BY <1>1, <1>2, <1>3, AnswersKept DEF IInv
<1>6. Copies' /\ BoundedStaleness'
    BY <1>1 DEF IInv, Copies, Fits, BoundedStaleness
<1>. QED BY <1>2, <1>4, <1>5, <1>6 DEF IInv

LEMMA SavingMove ==
    ASSUME TypeOK, SingleFlight, NEW w \in Workers, NEW t \in Tasks,
           pc[w][t] = "answered",
           pc' = [pc EXCEPT ![w][t] = "saving"], holder' = holder
    PROVE  /\ pc' \in [Workers -> [Tasks -> Places]]
           /\ pc'[w][t] = "saving"
           /\ \A x \in Workers, u \in Tasks : x # w \/ u # t => pc'[x][u] = pc[x][u]
           /\ SingleFlight'
BY TaskMoves DEF Places

\* The worker's entry is replaced, and the task saves it or returns it.
LEMMA EntryStep ==
    ASSUME IInv, NEW w \in Workers, NEW t \in Tasks, NEW e \in Entry,
           pc[w][t] \notin {"idle", "waiting"},
           entry' = [entry EXCEPT ![w] = e], Fits(e), lost[e.ver] < StaleMax + Retry,
           \/ Return(w, t, e.ver)
           \/ /\ pc' = [pc EXCEPT ![w][t] = "saving"] /\ pc[w][t] = "answered"
              /\ lost[e.ver] = 0
              /\ UNCHANGED <<holder, ret>>,
           reply' \in [Workers -> Versions \union {None}],
           \A x \in Workers \ {w} : reply'[x] = reply[x],
           good' \in [Workers -> Age \union {None}], quiet' \in [Workers -> Nat],
           UNCHANGED <<crm, lost, snap, dirty>>
    PROVE  IInv'
<1>1. /\ entry' \in [Workers -> Entry \union {None}]
      /\ entry'[w] = e /\ \A x \in Workers \ {w} : entry'[x] = entry[x]
    BY DEF IInv, TypeOK
<1>2. Copies'
    <2>1. \A x \in Workers : entry'[x] # None => Fits(entry'[x])
        BY <1>1 DEF IInv, Copies
    <2>. QED BY <2>1 DEF IInv, Copies, Fits
<1>3. CASE Return(w, t, e.ver)
    <2>1. /\ pc' = [pc EXCEPT ![w][t] = "idle"]
          /\ holder' = [holder EXCEPT ![w] = IF @ = t THEN None ELSE @]
          /\ Result(e.ver, w)
        BY <1>3 DEF Return
    <2>2. /\ pc' \in [Workers -> [Tasks -> Places]]
          /\ holder' \in [Workers -> Tasks \union {None}]
          /\ pc'[w][t] = "idle"
          /\ \A x \in Workers, u \in Tasks : x # w \/ u # t => pc'[x][u] = pc[x][u]
          /\ SingleFlight'
        BY <2>1, TaskMoves DEF IInv, Places
    <2>3. ret' \in [ver : Versions \union {None}, outdated : Age \union {None}]
          /\ BoundedStaleness'
        <3>1. e.ver \in Versions
            BY DEF Entry
        <3>. QED BY <2>1, <3>1, Returned DEF IInv
    <2>4. TypeOK'
        BY <1>1, <2>2, <2>3 DEF IInv, TypeOK, Places
    <2>5. Answers'
        BY <1>1, <2>2, AnswersKept DEF IInv
    <2>. QED BY <1>2, <2>2, <2>3, <2>4, <2>5 DEF IInv
<1>4. CASE /\ pc' = [pc EXCEPT ![w][t] = "saving"] /\ pc[w][t] = "answered"
           /\ lost[e.ver] = 0
           /\ UNCHANGED <<holder, ret>>
    <2>0. /\ pc' = [pc EXCEPT ![w][t] = "saving"] /\ holder' = holder
          /\ TypeOK /\ SingleFlight /\ pc[w][t] = "answered"
        BY <1>4 DEF IInv
    <2>1. /\ pc' \in [Workers -> [Tasks -> Places]]
          /\ pc'[w][t] = "saving"
          /\ \A x \in Workers, u \in Tasks : x # w \/ u # t => pc'[x][u] = pc[x][u]
          /\ SingleFlight'
        BY <2>0, SavingMove
    <2>2. TypeOK'
        BY <1>1, <1>4, <2>1 DEF IInv, TypeOK, Places
    <2>3. Answers'
        BY <1>1, <1>4, <2>1, AnswersKept DEF IInv
    <2>4. BoundedStaleness'
        BY <1>4 DEF IInv, BoundedStaleness
    <2>. QED BY <1>2, <2>1, <2>2, <2>3, <2>4 DEF IInv
<1>. QED BY <1>3, <1>4

\* An entry with new times.
LEMMA Renewed ==
    ASSUME NEW e \in Entry
    PROVE  LET new == [e EXCEPT !.age = 0, !.fresh = Ttl, !.failed = FALSE]
           IN  /\ new \in Entry /\ new.ver = e.ver /\ new.age = 0 /\ new.fresh = Ttl
               /\ ~new.failed
<1>1. 0 \in Age /\ Ttl \in 0..Ttl
    BY TimesAssumption DEF Age, Limit
<1>2. [e EXCEPT !.age = 0] \in Entry
    BY <1>1 DEF Entry
<1>. QED BY <1>1, <1>2 DEF Entry

\* 304 and 200: the answer is current, so is the entry.
LEMMA AnsweredStep ==
    ASSUME IInv, NEW w \in Workers, NEW t \in Tasks, NotModified(w, t) \/ Fetched(w, t)
    PROVE  IInv'
<1>1. /\ pc[w][t] = "answered" /\ reply[w] \in Versions /\ lost[reply[w]] = 0
      /\ Ttl \in Nat /\ Retry \in Nat \ {0} /\ StaleMax \in Nat /\ 0 \in Age
    BY TimesAssumption DEF NotModified, Fetched, IInv, Answers, Age, Limit
<1>2. /\ reply' \in [Workers -> Versions \union {None}]
      /\ \A x \in Workers \ {w} : reply'[x] = reply[x]
      /\ good' \in [Workers -> Age \union {None}] /\ quiet' \in [Workers -> Nat]
      /\ UNCHANGED <<crm, lost, snap, dirty>>
    <2>1. /\ reply' = [reply EXCEPT ![w] = None] /\ good' = [good EXCEPT ![w] = 0]
          /\ quiet' = [quiet EXCEPT ![w] = Ttl]
          /\ UNCHANGED <<crm, lost, snap, dirty>>
        BY DEF NotModified, Fetched, Succeeded
    <2>2. /\ reply \in [Workers -> Versions \union {None}]
          /\ good \in [Workers -> Age \union {None}] /\ quiet \in [Workers -> Nat]
        BY DEF IInv, TypeOK
    <2>. QED BY <1>1, <2>1, <2>2
<1>3. CASE NotModified(w, t)
    <2> DEFINE e == [entry[w] EXCEPT !.age = 0, !.fresh = Ttl, !.failed = FALSE]
    <2>1. entry[w] \in Entry /\ entry[w].ver = reply[w]
        BY <1>3 DEF NotModified, IInv, TypeOK
    <2>2. /\ e \in Entry /\ e.ver = reply[w] /\ e.age = 0 /\ e.fresh = Ttl /\ ~e.failed
        BY <1>1, <2>1, Renewed
    <2>3. entry' = [entry EXCEPT ![w] = e] /\ Return(w, t, entry[w].ver)
        BY <1>3 DEF NotModified
    <2>. HIDE DEF e
    <2>4. Fits(e) /\ lost[e.ver] < StaleMax + Retry
        BY <1>1, <2>2 DEF Fits
    <2>. QED BY <1>1, <1>2, <2>1, <2>2, <2>3, <2>4, EntryStep
<1>4. CASE Fetched(w, t)
    <2> DEFINE e == [ver |-> reply[w], age |-> 0, fresh |-> Ttl, retry |-> 0,
                     failed |-> FALSE]
    <2>1. /\ e \in Entry /\ e.ver = reply[w] /\ e.age = 0 /\ e.fresh = Ttl /\ ~e.failed
        BY <1>1 DEF Entry
    <2>2. /\ entry' = [entry EXCEPT ![w] = e]
          /\ \/ pc' = [pc EXCEPT ![w][t] = "saving"] /\ UNCHANGED <<holder, ret>>
             \/ Return(w, t, e.ver)
        BY <1>4 DEF Fetched
    <2>. HIDE DEF e
    <2>3. Fits(e) /\ lost[e.ver] < StaleMax + Retry /\ lost[e.ver] = 0
        BY <1>1, <2>1 DEF Fits
    <2>. QED BY <1>1, <1>2, <2>1, <2>2, <2>3, EntryStep
<1>. QED BY <1>3, <1>4

\* A task returns after a refresh; the copies are as they were, but perhaps the
\* snapshot of what the CRM just answered.
LEMMA ReturnStep ==
    ASSUME IInv, NEW w \in Workers, NEW t \in Tasks, NEW v \in Versions \union {None},
           Return(w, t, v), v \in Versions => lost[v] < StaleMax + Retry,
           \/ entry' = entry
           \/ entry' = [entry EXCEPT ![w] = None] /\ pc[w][t] \notin {"idle", "waiting"},
           snap' = snap \/ (snap' \in [ver : Versions, age : Age] /\ lost[snap'.ver] = 0),
           quiet' \in [Workers -> Nat], UNCHANGED <<crm, lost, reply, good, dirty>>
    PROVE  IInv'
<1>1. /\ pc' = [pc EXCEPT ![w][t] = "idle"]
      /\ holder' = [holder EXCEPT ![w] = IF @ = t THEN None ELSE @]
      /\ Result(v, w)
    BY DEF Return
<1>2. /\ pc' \in [Workers -> [Tasks -> Places]]
      /\ holder' \in [Workers -> Tasks \union {None}]
      /\ pc'[w][t] = "idle"
      /\ \A x \in Workers, u \in Tasks : x # w \/ u # t => pc'[x][u] = pc[x][u]
      /\ SingleFlight'
    BY <1>1, TaskMoves DEF IInv, Places
<1>3. ret' \in [ver : Versions \union {None}, outdated : Age \union {None}]
      /\ BoundedStaleness'
    BY <1>1, Returned DEF IInv
<1>4. /\ entry' \in [Workers -> Entry \union {None}]
      /\ \A x \in Workers \ {w} : entry'[x] = entry[x]
      /\ entry'[w] = entry[w] \/ (entry'[w] = None /\ pc[w][t] \notin {"idle", "waiting"})
    BY DEF IInv, TypeOK
<1>5. TypeOK'
    BY <1>2, <1>3, <1>4 DEF IInv, TypeOK, Places
<1>6. Answers'
    BY <1>2, <1>4, AnswersKept DEF IInv
<1>7. Copies'
    <2>1. \A x \in Workers : entry'[x] # None => Fits(entry'[x])
        BY <1>4 DEF IInv, Copies
    <2>2. snap' # None => lost[snap'.ver] <= snap'.age
        BY TimesAssumption DEF IInv, Copies, Age, Limit
    <2>. QED BY <2>1, <2>2 DEF IInv, Copies, Fits
<1>. QED BY <1>2, <1>3, <1>5, <1>6, <1>7 DEF IInv

LEMMA SavingStep ==
    ASSUME IInv, NEW w \in Workers, NEW t \in Tasks, Saved(w, t) \/ SaveFails(w, t)
    PROVE  IInv'
<1>1. /\ pc[w][t] = "saving" /\ entry[w] \in Entry /\ lost[entry[w].ver] = 0
      /\ Retry \in Nat \ {0} /\ StaleMax \in Nat /\ 0 \in Age
    BY TimesAssumption DEF Saved, SaveFails, IInv, Answers, Age, Limit
<1>2. entry[w].ver \in Versions
    BY <1>1 DEF Entry
<1>3. /\ Return(w, t, entry[w].ver)
      /\ snap' = snap \/ snap' = [ver |-> entry[w].ver, age |-> 0]
      /\ UNCHANGED <<crm, lost, entry, reply, good, quiet, dirty>>
    BY DEF Saved, SaveFails
<1>4. snap' = snap \/ (snap' \in [ver : Versions, age : Age] /\ lost[snap'.ver] = 0)
    BY <1>1, <1>2, <1>3
<1>5. quiet' \in [Workers -> Nat]
    BY <1>3 DEF IInv, TypeOK
<1>6. lost[entry[w].ver] < StaleMax + Retry
    BY <1>1
<1>7. UNCHANGED <<crm, lost, reply, good, dirty>> /\ entry' = entry
    BY <1>3
<1> DEFINE v == entry[w].ver
<1>8. v \in Versions \union {None} /\ Return(w, t, v) /\ lost[v] < StaleMax + Retry
    BY <1>2, <1>3, <1>6
<1>. HIDE DEF v
<1>. QED BY <1>4, <1>5, <1>7, <1>8, ReturnStep

\* A failed refresh falls back on a copy e, or on nothing.
LEMMA FallbackStep ==
    ASSUME IInv, NEW w \in Workers, NEW t \in Tasks, NEW e,
           pc[w][t] \in {"fetching", "loading"}, Fallback(w, t, e),
           e # None => e \in Entry /\ lost[e.ver] <= e.age
                       /\ (e.fresh > 0 => e.age + e.fresh <= Ttl),
           UNCHANGED <<crm, lost, snap, reply, good, dirty>>
    PROVE  IInv'
<1>1. quiet' \in [Workers -> Nat] /\ Retry \in Nat \ {0} /\ StaleMax \in Nat
    BY TimesAssumption DEF Fallback, ServeStale, GiveUp, IInv, TypeOK
<1>2. CASE ServeStale(w, t, e)
    <2> DEFINE new == [e EXCEPT !.failed = TRUE, !.retry = Retry]
    <2>1. /\ e \in Entry /\ lost[e.ver] <= e.age /\ e.age <= StaleMax
          /\ e.fresh > 0 => e.age + e.fresh <= Ttl
        BY <1>2 DEF ServeStale, Servable
    <2>2. /\ entry' = [entry EXCEPT ![w] = new] /\ Return(w, t, e.ver)
        BY <1>2 DEF ServeStale
    <2>3. /\ new \in Entry /\ new.ver = e.ver /\ new.age = e.age /\ new.fresh = e.fresh
          /\ new.retry = Retry
        <3>1. Retry \in 0..Retry
            BY <1>1
        <3>. QED BY <2>1, <3>1 DEF Entry
    <2>. HIDE DEF new
    <2>4. e.age \in Nat /\ lost[e.ver] \in Nat
        BY <1>1, <2>1 DEF IInv, TypeOK, Entry, Age, Limit
    <2>5. Fits(new) /\ lost[new.ver] < StaleMax + Retry
        BY <1>1, <2>1, <2>3, <2>4 DEF Fits
    <2>6. reply' \in [Workers -> Versions \union {None}]
          /\ good' \in [Workers -> Age \union {None}]
        BY DEF IInv, TypeOK
    <2>. QED BY <1>1, <2>2, <2>3, <2>5, <2>6, EntryStep
<1>3. CASE GiveUp(w, t, e)
    <2>1. entry' = [entry EXCEPT ![w] = None] /\ Return(w, t, None)
        BY <1>3 DEF GiveUp
    <2>2. None \notin Versions
        BY TimesAssumption
    <2>. QED BY <1>1, <2>1, <2>2, ReturnStep
<1>. QED BY <1>2, <1>3 DEF Fallback

LEMMA FailingStep ==
    ASSUME IInv, NEW w \in Workers, NEW t \in Tasks,
           FetchFails(w, t) \/ Loaded(w, t) \/ LoadFails(w, t)
    PROVE  IInv'
<1>0. UNCHANGED <<crm, lost, snap, reply, good, dirty>>
    BY DEF FetchFails, Loaded, LoadFails
<1>1. CASE FetchFails(w, t)
    <2>1. pc[w][t] = "fetching"
        BY <1>1 DEF FetchFails
    <2>2. CASE pc' = [pc EXCEPT ![w][t] = "loading"] /\ UNCHANGED <<entry, holder, ret, quiet>>
        <3>1. dirty' \in [Workers -> BOOLEAN]
            BY <1>0 DEF IInv, TypeOK
        <3>. QED BY <1>0, <2>1, <2>2, <3>1, QuietMove
    <2>3. CASE entry[w] # None /\ Fallback(w, t, entry[w])
        <3>1. entry[w] \in Entry /\ Fits(entry[w])
            BY <2>3 DEF IInv, TypeOK, Copies
        <3>. QED BY <1>0, <2>1, <2>3, <3>1, FallbackStep DEF Fits
    <2>. QED BY <1>1, <2>2, <2>3 DEF FetchFails
<1>2. CASE Loaded(w, t)
    <2> DEFINE e == FromSnapshot
    <2>1. pc[w][t] = "loading" /\ Fallback(w, t, e)
        BY <1>2 DEF Loaded
    <2>2. ASSUME e # None
          PROVE  e \in Entry /\ lost[e.ver] <= e.age /\ ~(e.fresh > 0)
        <3>1. /\ snap # None /\ snap \in [ver : Versions, age : Age]
              /\ e = [ver |-> snap.ver, age |-> snap.age, fresh |-> 0, retry |-> 0,
                      failed |-> FALSE]
            BY <2>2 DEF FromSnapshot, IInv, TypeOK
        <3>2. lost[snap.ver] <= snap.age /\ 0 \in 0..Ttl /\ 0 \in 0..Retry
            BY <3>1, TimesAssumption DEF IInv, Copies
        <3>. QED BY <3>1, <3>2 DEF Entry
    <2>. HIDE DEF e
    <2>. QED BY <1>0, <2>1, <2>2, FallbackStep
<1>3. CASE LoadFails(w, t)
    BY <1>0, <1>3, FallbackStep DEF LoadFails
<1>. QED BY <1>1, <1>2, <1>3

\* A cancelled task frees the lock it holds, and takes no entry with it.
LEMMA CancelStep ==
    ASSUME IInv, NEW w \in Workers, NEW t \in Tasks, CancelGet(w, t)
    PROVE  IInv'
<1>1. /\ pc' = [pc EXCEPT ![w][t] = "idle"]
      /\ holder' = [holder EXCEPT ![w] = IF @ = t THEN None ELSE @]
      /\ reply' = [reply EXCEPT ![w] = IF holder[w] = t THEN None ELSE @]
      /\ UNCHANGED <<crm, lost, snap, entry, ret, good, quiet, dirty>>
    BY DEF CancelGet
<1>2. /\ pc' \in [Workers -> [Tasks -> Places]]
      /\ holder' \in [Workers -> Tasks \union {None}]
      /\ pc'[w][t] = "idle"
      /\ \A x \in Workers, u \in Tasks : x # w \/ u # t => pc'[x][u] = pc[x][u]
      /\ SingleFlight'
    BY <1>1, TaskMoves DEF IInv, Places
<1>3. /\ reply' \in [Workers -> Versions \union {None}]
      /\ \A x \in Workers \ {w} : reply'[x] = reply[x]
      /\ reply'[w] = reply[w] \/ pc[w][t] \notin {"idle", "waiting"}
    BY <1>1 DEF IInv, TypeOK, SingleFlight
<1>4. TypeOK'
    BY <1>1, <1>2, <1>3 DEF IInv, TypeOK, Places
<1>5. Answers'
    BY <1>1, <1>2, <1>3, AnswersKept DEF IInv
<1>6. Copies' /\ BoundedStaleness'
    BY <1>1 DEF IInv, Copies, Fits, BoundedStaleness
<1>. QED BY <1>2, <1>4, <1>5, <1>6 DEF IInv

-----------------------------------------------------------------------------
(* The surroundings *)

\* An invalidated copy is as old as it was.
LEMMA InvalidateStep ==
    ASSUME IInv, NEW w \in Workers, Invalidate(w)
    PROVE  IInv'
<1> DEFINE e == [entry[w] EXCEPT !.fresh = 0, !.retry = 0]
<1>1. /\ entry[w] \in Entry /\ Fits(entry[w]) /\ entry' = [entry EXCEPT ![w] = e]
      /\ quiet' = [quiet EXCEPT ![w] = 0] /\ dirty' = [dirty EXCEPT ![w] = TRUE]
      /\ UNCHANGED <<crm, lost, snap, holder, pc, reply, ret, good>>
    BY DEF Invalidate, IInv, TypeOK, Copies
<1>2. /\ e \in Entry /\ e.ver = entry[w].ver /\ e.age = entry[w].age /\ e.fresh = 0
      /\ e.retry = 0
    <2>1. 0 \in 0..Ttl /\ 0 \in 0..Retry
        BY TimesAssumption
    <2>. QED BY <1>1, <2>1 DEF Entry
<1>. HIDE DEF e
<1>3. /\ entry' \in [Workers -> Entry \union {None}] /\ entry'[w] = e
      /\ \A x \in Workers \ {w} : entry'[x] = entry[x]
    BY <1>1, <1>2 DEF IInv, TypeOK
<1>4. TypeOK'
    BY <1>1, <1>3 DEF IInv, TypeOK
<1>5. SingleFlight' /\ BoundedStaleness'
    BY <1>1 DEF IInv, SingleFlight, BoundedStaleness
<1>6. Answers'
    BY <1>1, <1>2, <1>3 DEF IInv, Answers
<1>7. Copies'
    <2>1. \A x \in Workers : entry'[x] # None => Fits(entry'[x])
        BY <1>1, <1>2, <1>3 DEF IInv, Copies, Fits
    <2>. QED BY <1>1, <2>1 DEF IInv, Copies, Fits
<1>. QED BY <1>4, <1>5, <1>6, <1>7 DEF IInv

\* A new worker has nothing in memory.
LEMMA RestartStep ==
    ASSUME IInv, NEW w \in Workers, Restart(w)
    PROVE  IInv'
<1>1. /\ entry' = [entry EXCEPT ![w] = None] /\ holder' = [holder EXCEPT ![w] = None]
      /\ pc' = [pc EXCEPT ![w] = [t \in Tasks |-> "idle"]]
      /\ reply' = [reply EXCEPT ![w] = None] /\ good' = [good EXCEPT ![w] = None]
      /\ quiet' = [quiet EXCEPT ![w] = 0] /\ dirty' = [dirty EXCEPT ![w] = FALSE]
      /\ UNCHANGED <<crm, lost, snap, ret>>
    BY DEF Restart
<1>2. /\ pc' \in [Workers -> [Tasks -> Places]]
      /\ \A t \in Tasks : pc'[w][t] = "idle"
      /\ \A x \in Workers \ {w} : pc'[x] = pc[x]
    BY <1>1 DEF IInv, TypeOK, Places
<1>3. /\ holder' \in [Workers -> Tasks \union {None}] /\ holder'[w] = None
      /\ entry' \in [Workers -> Entry \union {None}] /\ entry'[w] = None
      /\ \A x \in Workers \ {w} : holder'[x] = holder[x] /\ entry'[x] = entry[x]
                                   /\ reply'[x] = reply[x]
    BY <1>1 DEF IInv, TypeOK
<1>4. TypeOK'
    BY <1>1, <1>2, <1>3 DEF IInv, TypeOK, Places
<1>5. SingleFlight'
    BY <1>2, <1>3, TimesAssumption DEF IInv, SingleFlight
<1>6. Answers'
    BY <1>1, <1>2, <1>3 DEF IInv, Answers
<1>7. Copies' /\ BoundedStaleness'
    <2>1. \A x \in Workers : entry'[x] # None => Fits(entry'[x])
        BY <1>3 DEF IInv, Copies
    <2>. QED BY <1>1, <2>1 DEF IInv, Copies, Fits, BoundedStaleness
<1>. QED BY <1>4, <1>5, <1>6, <1>7 DEF IInv

LEMMA DeployStep ==
    ASSUME IInv, Deploy
    PROVE  IInv'
<1>1. /\ crm' \in Versions /\ lost' = [lost EXCEPT ![crm'] = 0] /\ 0 \in Age
      /\ UNCHANGED <<snap, entry, holder, pc, reply, ret, good, quiet, dirty>>
    BY TimesAssumption DEF Deploy, Age, Limit
<1>2. /\ lost' \in [Versions -> Age] /\ lost'[crm'] = 0
      /\ \A v \in Versions : lost'[v] = 0 \/ lost'[v] = lost[v]
    BY <1>1 DEF IInv, TypeOK
<1>3. TypeOK' /\ SingleFlight' /\ BoundedStaleness'
    BY <1>1, <1>2 DEF IInv, TypeOK, SingleFlight, BoundedStaleness
<1>4. Answers'
    BY <1>1, <1>2 DEF IInv, Answers, Entry
<1>5. Copies'
    <2>1. ASSUME NEW x \in Workers, entry[x] # None
          PROVE  Fits(entry[x])'
        <3>1. /\ Fits(entry[x]) /\ entry[x].ver \in Versions /\ entry[x].age \in Nat
            BY <2>1, TimesAssumption DEF IInv, TypeOK, Copies, Entry, Age, Limit
        <3>. QED BY <1>1, <1>2, <3>1 DEF Fits
    <2>2. ASSUME snap # None
          PROVE  lost'[snap.ver] <= snap.age
        <3>1. snap.ver \in Versions /\ snap.age \in Nat /\ lost[snap.ver] <= snap.age
            BY <2>2, TimesAssumption DEF IInv, TypeOK, Copies, Age, Limit
        <3>. QED BY <1>2, <3>1
    <2>. QED BY <1>1, <1>2, <2>1, <2>2 DEF Copies, Fits
<1>. QED BY <1>3, <1>4, <1>5 DEF IInv

\* What was lost for less than a copy's age stays so as both grow older, also where
\* ages stop to be told apart.
LEMMA Aging ==
    /\ \A a \in Age : Older(a) \in Age
    /\ \A a, b \in Age : a <= b => Older(a) <= Older(b)
    /\ \A a \in Age : Older(a) <= a + 1
BY TimesAssumption DEF Older, Age, Limit

LEMMA TickStep ==
    ASSUME IInv, Tick
    PROVE  IInv'
<1>1. /\ ~Busy
      /\ lost' = [v \in Versions |-> IF v = crm THEN 0 ELSE Older(lost[v])]
      /\ snap' = IF snap = None THEN None ELSE [snap EXCEPT !.age = Older(@)]
      /\ entry' = [w \in Workers |->
                      IF entry[w] = None THEN None
                      ELSE [entry[w] EXCEPT !.age = Older(@), !.fresh = Less(@),
                                            !.retry = Less(@)]]
      /\ good' = [w \in Workers |-> IF good[w] = None THEN None ELSE Older(good[w])]
      /\ quiet' = [w \in Workers |-> Less(quiet[w])]
      /\ UNCHANGED <<crm, holder, pc, reply, ret, dirty>>
    BY DEF Tick
<1>2. /\ lost' \in [Versions -> Age] /\ lost'[crm] = 0
      /\ \A v \in Versions : lost'[v] <= Older(lost[v])
    <2>1. \A v \in Versions : lost[v] \in Age /\ Older(lost[v]) \in Age
        BY Aging DEF IInv, TypeOK
    <2>2. 0 \in Age /\ \A a \in Age : 0 <= a
        BY TimesAssumption DEF Age, Limit
    <2>3. crm \in Versions
        BY DEF IInv, TypeOK
    <2>4. \A v \in Versions : Older(lost[v]) <= Older(lost[v])
        BY <2>1, TimesAssumption DEF Age, Limit
    <2>. QED BY <1>1, <2>1, <2>2, <2>3, <2>4
<1>3. ASSUME NEW w \in Workers, entry[w] # None
      PROVE  entry'[w] \in Entry /\ Fits(entry[w])'
    <2> DEFINE e == entry[w]
               new == [e EXCEPT !.age = Older(@), !.fresh = Less(@), !.retry = Less(@)]
    <2>1. e \in Entry /\ Fits(e) /\ entry'[w] = new
        BY <1>1, <1>3 DEF IInv, TypeOK, Copies
    <2>2. /\ e.ver \in Versions /\ e.age \in Age /\ e.fresh \in 0..Ttl
          /\ e.retry \in 0..Retry /\ e.failed \in BOOLEAN
        BY <2>1 DEF Entry
    <2>3. /\ Older(e.age) \in Age /\ Older(e.age) <= e.age + 1
          /\ Less(e.fresh) \in 0..Ttl /\ Less(e.retry) \in 0..Retry
        BY <2>2, Aging, TimesAssumption DEF Less
    <2>4. /\ new \in Entry /\ new.ver = e.ver /\ new.age = Older(e.age)
          /\ new.fresh = Less(e.fresh) /\ new.retry = Less(e.retry)
          /\ new.failed = e.failed
        BY <2>1, <2>3 DEF Entry
    <2>. HIDE DEF e, new
    <2>5. lost'[new.ver] <= new.age
        <3>1. lost[e.ver] \in Age /\ lost[e.ver] <= e.age
            BY <2>1, <2>2 DEF IInv, TypeOK, Fits
        <3>2. Older(lost[e.ver]) <= Older(e.age) /\ Older(lost[e.ver]) \in Age
            BY <2>2, <3>1, Aging
        <3>3. lost'[e.ver] <= Older(lost[e.ver]) /\ lost'[e.ver] \in Age
            BY <1>2, <2>2
        <3>. QED BY <2>3, <2>4, <3>2, <3>3, TimesAssumption DEF Age, Limit
    <2>6. new.fresh > 0 => new.age + new.fresh <= Ttl
        BY <2>1, <2>2, <2>3, <2>4, TimesAssumption DEF Fits, Less, Age, Limit
    <2>7. new.failed /\ new.retry > 0 => new.age + new.retry <= StaleMax + Retry
        BY <2>1, <2>2, <2>3, <2>4, TimesAssumption DEF Fits, Less, Age, Limit
    <2>. QED BY <2>1, <2>4, <2>5, <2>6, <2>7 DEF Fits
<1>4. /\ snap' = None \/ snap' \in [ver : Versions, age : Age]
      /\ snap' # None => lost'[snap'.ver] <= snap'.age
    <2>1. CASE snap = None
        BY <1>1, <2>1
    <2>2. CASE snap # None
        <3>1. /\ snap \in [ver : Versions, age : Age] /\ lost[snap.ver] <= snap.age
              /\ snap.ver \in Versions /\ snap.age \in Age /\ lost[snap.ver] \in Age
            BY <2>2 DEF IInv, TypeOK, Copies
        <3>2. /\ Older(snap.age) \in Age /\ Older(lost[snap.ver]) \in Age
              /\ Older(lost[snap.ver]) <= Older(snap.age)
            BY <3>1, Aging
        <3>3. snap' = [snap EXCEPT !.age = Older(@)]
            BY <1>1, <2>2
        <3>4. /\ snap' \in [ver : Versions, age : Age] /\ snap'.ver = snap.ver
              /\ snap'.age = Older(snap.age)
            BY <3>1, <3>2, <3>3
        <3>5. lost'[snap.ver] <= Older(lost[snap.ver]) /\ lost'[snap.ver] \in Age
            BY <1>2, <3>1
        <3>6. lost'[snap.ver] <= Older(snap.age)
            BY <3>2, <3>5, TimesAssumption DEF Age, Limit
        <3>. QED BY <3>4, <3>6
    <2>. QED BY <2>1, <2>2
<1>5. \A w \in Workers : entry[w] = None => entry'[w] = None
    BY <1>1
<1>6. TypeOK'
    <2>1. entry' \in [Workers -> Entry \union {None}]
        BY <1>1, <1>3, <1>5
    <2>2. good' \in [Workers -> Age \union {None}]
        BY <1>1, Aging DEF IInv, TypeOK
    <2>3. quiet' \in [Workers -> Nat]
        <3>1. \A n \in Nat : Less(n) \in Nat
            BY DEF Less
        <3>. QED BY <1>1, <3>1 DEF IInv, TypeOK
    <2>. QED BY <1>1, <1>2, <1>4, <2>1, <2>2, <2>3 DEF IInv, TypeOK
<1>7. SingleFlight' /\ BoundedStaleness'
    BY <1>1 DEF IInv, SingleFlight, BoundedStaleness
<1>8. Answers'
    BY <1>1 DEF Answers, Busy
<1>9. Copies'
    <2>1. \A w \in Workers : entry'[w] # None => Fits(entry[w])'
        BY <1>3, <1>5
    <2>. QED BY <1>1, <1>2, <1>4, <2>1 DEF Copies, Fits
<1>. QED BY <1>6, <1>7, <1>8, <1>9 DEF IInv

-----------------------------------------------------------------------------
(* What a worker remembers *)

\* A worker's copy is no older than its last good answer; it has none only if it
\* never had that answer, or had it too long ago.
Remembers(w) ==
    /\ entry[w] = None => good[w] = None \/ good[w] > StaleMax
    /\ entry[w] # None /\ good[w] # None => entry[w].age <= good[w]

\* While it should not fetch again, its copy can be used without a refresh.
Spaced(w) ==
    entry[w] # None => \/ quiet[w] <= entry[w].fresh
                       \/ entry[w].failed /\ quiet[w] <= entry[w].retry

\* Only a worker without a copy looks for the snapshot.
Memory ==
    /\ \A w \in Workers : Remembers(w) /\ Spaced(w)
    /\ \A w \in Workers, t \in Tasks : pc[w][t] = "loading" => entry[w] = None

MInv == IInv /\ Memory /\ NoneOnlyWhenTooOld

\* A step of one task of one worker.
LEMMA MemoryKept ==
    ASSUME SingleFlight, Memory, NEW w \in Workers, NEW t \in Tasks,
           \A x \in Workers \ {w} :
               entry'[x] = entry[x] /\ good'[x] = good[x] /\ quiet'[x] = quiet[x],
           \A x \in Workers, u \in Tasks : x # w \/ u # t => pc'[x][u] = pc[x][u],
           entry'[w] = entry[w] \/ pc[w][t] \notin {"idle", "waiting"},
           pc'[w][t] = "loading" => entry'[w] = None,
           Remembers(w)', Spaced(w)'
    PROVE  Memory'
<1>1. ASSUME NEW x \in Workers
      PROVE  Remembers(x)' /\ Spaced(x)'
    <2>1. CASE x = w
        BY <2>1
    <2>2. CASE x # w
        BY <2>2 DEF Memory, Remembers, Spaced
    <2>. QED BY <2>1, <2>2
<1>2. ASSUME NEW x \in Workers, NEW u \in Tasks, pc'[x][u] = "loading"
      PROVE  entry'[x] = None
    <2>1. CASE x # w
        BY <1>2, <2>1 DEF Memory
    <2>2. CASE x = w /\ u = t
        BY <1>2, <2>2
    <2>3. CASE x = w /\ u # t
        <3>1. pc[w][u] = "loading" /\ entry[w] = None
            BY <1>2, <2>3 DEF Memory
        <3>2. pc[w][t] \in {"idle", "waiting"}
            BY <2>3, <3>1 DEF SingleFlight
        <3>. QED BY <2>3, <3>1, <3>2
    <2>. QED BY <2>1, <2>2, <2>3
<1>. QED BY <1>1, <1>2 DEF Memory

\* Where a task of a worker is.
LEMMA PlaceOf ==
    ASSUME TypeOK, NEW w \in Workers, NEW t \in Tasks, NEW next \in Places,
           pc' = [pc EXCEPT ![w][t] = next]
    PROVE  /\ pc'[w][t] = next
           /\ \A x \in Workers, u \in Tasks : x # w \/ u # t => pc'[x][u] = pc[x][u]
BY DEF TypeOK

\* A task moves on and touches no copy.
LEMMA MemoryUntouched ==
    ASSUME MInv, NEW w \in Workers, NEW t \in Tasks, NEW next \in Places,
           pc' = [pc EXCEPT ![w][t] = next], next = "loading" => entry[w] = None,
           UNCHANGED <<entry, good, quiet>>
    PROVE  Memory'
<1>1. /\ pc'[w][t] = next
      /\ \A x \in Workers, u \in Tasks : x # w \/ u # t => pc'[x][u] = pc[x][u]
    <2>1. pc \in [Workers -> [Tasks -> Places]] /\ pc' = [pc EXCEPT ![w][t] = next]
        BY DEF MInv, IInv, TypeOK, Places
    <2>. QED BY <2>1
<1>2. Remembers(w)' /\ Spaced(w)'
    BY DEF MInv, Memory, Remembers, Spaced
<1>. QED BY <1>1, <1>2, MemoryKept DEF MInv, IInv

\* What is handed out is a manifest, or nothing because the worker has none.
LEMMA NoneReturned ==
    ASSUME NEW w \in Workers, NEW v \in Versions \union {None}, Result(v, w),
           v = None => good[w] = None \/ good[w] > StaleMax
    PROVE  NoneOnlyWhenTooOld'
BY DEF Result, NoneOnlyWhenTooOld

LEMMA ServedMemory ==
    ASSUME MInv, NEW w \in Workers, NEW t \in Tasks,
           GetCached(w, t) \/ LockedHit(w, t) \/ Saved(w, t) \/ SaveFails(w, t)
    PROVE  Memory' /\ NoneOnlyWhenTooOld'
<1>1. /\ Result(entry[w].ver, w) /\ pc' = [pc EXCEPT ![w][t] = "idle"]
      /\ UNCHANGED <<entry, good, quiet>>
    BY DEF GetCached, LockedHit, Saved, SaveFails, Return
<1>2. entry[w] \in Entry
    BY DEF GetCached, LockedHit, Saved, SaveFails, UsableWithoutRefresh, MInv, IInv,
           TypeOK, Answers
<1>3. entry[w].ver \in Versions /\ entry[w].ver # None
    BY <1>2, TimesAssumption DEF Entry
<1>4. NoneOnlyWhenTooOld'
    BY <1>1, <1>3, NoneReturned
<1>5. Memory'
    BY <1>1, MemoryUntouched DEF Places
<1>. QED BY <1>4, <1>5

LEMMA WaitingMemory ==
    ASSUME MInv, NEW w \in Workers, NEW t \in Tasks,
           GetWaits(w, t) \/ StartFetch(w, t) \/ CrmReplies(w, t) \/ CancelGet(w, t)
    PROVE  Memory' /\ NoneOnlyWhenTooOld'
<1>1. /\ \E next \in {"waiting", "fetching", "answered", "idle"} :
             pc' = [pc EXCEPT ![w][t] = next]
      /\ UNCHANGED <<entry, good, quiet, ret>>
    BY DEF GetWaits, StartFetch, CrmReplies, CancelGet
<1>2. PICK next \in {"waiting", "fetching", "answered", "idle"} :
          pc' = [pc EXCEPT ![w][t] = next]
    BY <1>1
<1>3. next \in Places /\ next # "loading"
    BY DEF Places
<1>4. Memory'
    BY <1>1, <1>2, <1>3, MemoryUntouched
<1>. QED BY <1>1, <1>4 DEF NoneOnlyWhenTooOld, MInv

\* A good answer makes a new copy, to be used for Ttl.
LEMMA AnsweredMemory ==
    ASSUME MInv, NEW w \in Workers, NEW t \in Tasks, NotModified(w, t) \/ Fetched(w, t)
    PROVE  Memory' /\ NoneOnlyWhenTooOld'
<1>1. /\ pc[w][t] = "answered" /\ reply[w] \in Versions /\ reply[w] # None
      /\ good' = [good EXCEPT ![w] = 0] /\ quiet' = [quiet EXCEPT ![w] = Ttl]
    BY TimesAssumption DEF NotModified, Fetched, Succeeded, MInv, IInv, Answers
<1>2. \E e \in Entry :
         /\ entry' = [entry EXCEPT ![w] = e] /\ e.age = 0 /\ e.fresh = Ttl
         /\ e.ver = reply[w]
    <2>1. CASE NotModified(w, t)
        <3> DEFINE e == [entry[w] EXCEPT !.age = 0, !.fresh = Ttl, !.failed = FALSE]
        <3>1. /\ entry[w] \in Entry /\ entry[w].ver = reply[w]
              /\ entry' = [entry EXCEPT ![w] = e]
            BY <2>1 DEF NotModified, MInv, IInv, TypeOK
        <3>2. e \in Entry /\ e.ver = reply[w] /\ e.age = 0 /\ e.fresh = Ttl
            BY <3>1, Renewed
        <3>. HIDE DEF e
        <3>. QED BY <3>1, <3>2
    <2>2. CASE Fetched(w, t)
        <3> DEFINE e == [ver |-> reply[w], age |-> 0, fresh |-> Ttl, retry |-> 0,
                         failed |-> FALSE]
        <3>1. e \in Entry /\ e.ver = reply[w] /\ e.age = 0 /\ e.fresh = Ttl
            BY <1>1, TimesAssumption DEF Entry, Age, Limit
        <3>2. entry' = [entry EXCEPT ![w] = e]
            BY <2>2 DEF Fetched
        <3>. HIDE DEF e
        <3>. QED BY <3>1, <3>2
    <2>. QED BY <2>1, <2>2
<1>3. PICK e \in Entry : /\ entry' = [entry EXCEPT ![w] = e] /\ e.age = 0
                         /\ e.fresh = Ttl /\ e.ver = reply[w]
    BY <1>2
<1>4. /\ entry'[w] = e /\ entry'[w] # None /\ good'[w] = 0 /\ quiet'[w] = Ttl
      /\ \A x \in Workers \ {w} :
             entry'[x] = entry[x] /\ good'[x] = good[x] /\ quiet'[x] = quiet[x]
    BY <1>1, <1>3, EntryAssumption DEF MInv, IInv, TypeOK
<1>5. Remembers(w)' /\ Spaced(w)'
    BY <1>3, <1>4, TimesAssumption DEF Remembers, Spaced
<1>6. \/ pc' = [pc EXCEPT ![w][t] = "saving"] /\ ret' = ret
      \/ pc' = [pc EXCEPT ![w][t] = "idle"] /\ Result(reply[w], w)
    BY DEF NotModified, Fetched, Return
<1>7. /\ pc'[w][t] # "loading"
      /\ \A x \in Workers, u \in Tasks : x # w \/ u # t => pc'[x][u] = pc[x][u]
    BY <1>6, PlaceOf DEF MInv, IInv, Places
<1>8. Memory'
    BY <1>1, <1>4, <1>5, <1>7, MemoryKept DEF MInv, IInv
<1>9. NoneOnlyWhenTooOld'
    BY <1>1, <1>6, NoneReturned DEF NoneOnlyWhenTooOld, MInv
<1>. QED BY <1>8, <1>9

\* The last good copy is served, and the CRM left alone for Retry, or it is too old.
LEMMA FallbackMemory ==
    ASSUME MInv, NEW w \in Workers, NEW t \in Tasks, NEW e \in Entry \union {None},
           Fallback(w, t, e), pc[w][t] \notin {"idle", "waiting"}, good' = good,
           e = None => good[w] = None \/ good[w] > StaleMax,
           e # None => \/ good[w] = None \/ good[w] > StaleMax
                       \/ e.age <= good[w]
    PROVE  Memory' /\ NoneOnlyWhenTooOld'
<1>1. good[w] \in Age \union {None} /\ \A a \in Age : a \in Nat
    BY TimesAssumption DEF MInv, IInv, TypeOK, Age, Limit
<1>2. pc' = [pc EXCEPT ![w][t] = "idle"] /\ quiet' = [quiet EXCEPT ![w] = Retry]
    BY DEF Fallback, ServeStale, GiveUp, Return
<1>3. /\ pc'[w][t] # "loading" /\ quiet'[w] = Retry
      /\ \A x \in Workers, u \in Tasks : x # w \/ u # t => pc'[x][u] = pc[x][u]
      /\ \A x \in Workers \ {w} : quiet'[x] = quiet[x]
    BY <1>2, PlaceOf DEF MInv, IInv, Places, TypeOK
<1>4. CASE ServeStale(w, t, e)
    <2> DEFINE new == [e EXCEPT !.failed = TRUE, !.retry = Retry]
    <2>1. e \in Entry /\ e.age <= StaleMax /\ e # None
        BY <1>4 DEF ServeStale, Servable
    <2>2. /\ new \in Entry /\ new # None /\ new.age = e.age /\ new.failed
          /\ new.retry = Retry
        <3>1. Retry \in 0..Retry
            BY TimesAssumption
        <3>. QED BY <2>1, <3>1, EntryAssumption DEF Entry
    <2>3. entry' = [entry EXCEPT ![w] = new] /\ Result(e.ver, w)
        BY <1>4 DEF ServeStale, Return
    <2>. HIDE DEF new
    <2>4. entry'[w] = new /\ \A x \in Workers \ {w} : entry'[x] = entry[x]
        BY <2>3 DEF MInv, IInv, TypeOK
    <2>5. e.age \in Nat /\ e.ver \in Versions /\ e.ver # None
        BY <1>1, <2>1, TimesAssumption DEF Entry
    <2>6. Remembers(w)'
        BY <1>1, <2>1, <2>2, <2>4, <2>5, TimesAssumption DEF Remembers
    <2>7. Spaced(w)'
        BY <1>3, <2>2, <2>4, TimesAssumption DEF Spaced
    <2>8. Memory'
        BY <1>3, <2>4, <2>6, <2>7, MemoryKept DEF MInv, IInv
    <2>. QED BY <2>3, <2>5, <2>8, NoneReturned
<1>5. CASE GiveUp(w, t, e)
    <2>1. ~Servable(e) /\ entry' = [entry EXCEPT ![w] = None] /\ Result(None, w)
        BY <1>5 DEF GiveUp, Return
    <2>2. entry'[w] = None /\ \A x \in Workers \ {w} : entry'[x] = entry[x]
        BY <2>1 DEF MInv, IInv, TypeOK
    <2>3. good[w] = None \/ good[w] > StaleMax
        <3>1. CASE e = None
            BY <3>1
        <3>2. CASE e # None
            <4>1. e.age \in Nat /\ e.age > StaleMax
                BY <1>1, <2>1, <3>2, TimesAssumption DEF Servable, Entry
            <4>. QED BY <1>1, <3>2, <4>1, TimesAssumption
        <3>. QED BY <3>1, <3>2
    <2>4. Remembers(w)' /\ Spaced(w)'
        BY <2>2, <2>3 DEF Remembers, Spaced
    <2>5. Memory'
        BY <1>3, <2>2, <2>4, MemoryKept DEF MInv, IInv
    <2>. QED BY <2>1, <2>3, <2>5, NoneReturned
<1>. QED BY <1>4, <1>5 DEF Fallback

LEMMA FailingMemory ==
    ASSUME MInv, NEW w \in Workers, NEW t \in Tasks,
           FetchFails(w, t) \/ Loaded(w, t) \/ LoadFails(w, t)
    PROVE  Memory' /\ NoneOnlyWhenTooOld'
<1>1. Remembers(w) /\ good' = good
    BY DEF FetchFails, Loaded, LoadFails, MInv, Memory
<1>2. CASE FetchFails(w, t) /\ entry[w] = None
    <2>1. pc' = [pc EXCEPT ![w][t] = "loading"] /\ UNCHANGED <<entry, ret, quiet>>
        BY <1>2 DEF FetchFails
    <2>2. Memory'
        BY <1>1, <1>2, <2>1, MemoryUntouched DEF Places
    <2>. QED BY <2>1, <2>2 DEF NoneOnlyWhenTooOld, MInv
<1>3. CASE FetchFails(w, t) /\ entry[w] # None
    <2>1. Fallback(w, t, entry[w]) /\ pc[w][t] = "fetching" /\ entry[w] \in Entry
        BY <1>3 DEF FetchFails, MInv, IInv, TypeOK
    <2>. QED BY <1>1, <1>3, <2>1, FallbackMemory DEF Remembers
<1>4. CASE Loaded(w, t) \/ LoadFails(w, t)
    <2>1. pc[w][t] = "loading" /\ entry[w] = None
        BY <1>4 DEF Loaded, LoadFails, MInv, Memory
    <2>2. good[w] = None \/ good[w] > StaleMax
        BY <1>1, <2>1 DEF Remembers
    <2>3. FromSnapshot \in Entry \union {None}
        <3>1. ASSUME snap # None
              PROVE  FromSnapshot \in Entry
            <4>1. snap.ver \in Versions /\ snap.age \in Age
                BY <3>1 DEF MInv, IInv, TypeOK
            <4>. QED BY <3>1, <4>1, TimesAssumption DEF FromSnapshot, Entry
        <3>. QED BY <3>1 DEF FromSnapshot
    <2>4. \E e \in Entry \union {None} : Fallback(w, t, e)
        BY <1>4, <2>3 DEF Loaded, LoadFails
    <2>. QED BY <1>1, <2>1, <2>2, <2>4, FallbackMemory
<1>. QED BY <1>2, <1>3, <1>4

\* An invalidated copy stays, to be served should the refresh fail.
LEMMA InvalidateMemory ==
    ASSUME MInv, NEW w \in Workers, Invalidate(w)
    PROVE  Memory' /\ NoneOnlyWhenTooOld'
<1> DEFINE e == [entry[w] EXCEPT !.fresh = 0, !.retry = 0]
<1>1. /\ entry[w] \in Entry /\ Remembers(w) /\ entry[w] # None
      /\ entry' = [entry EXCEPT ![w] = e] /\ quiet' = [quiet EXCEPT ![w] = 0]
      /\ UNCHANGED <<pc, ret, good>>
    BY DEF Invalidate, MInv, IInv, TypeOK, Memory
<1>2. e \in Entry /\ e # None /\ e.age = entry[w].age /\ e.fresh = 0
    <2>1. 0 \in 0..Ttl /\ 0 \in 0..Retry
        BY TimesAssumption
    <2>. QED BY <1>1, <2>1, EntryAssumption DEF Entry
<1>. HIDE DEF e
<1>3. /\ entry'[w] = e /\ quiet'[w] = 0
      /\ \A x \in Workers \ {w} : entry'[x] = entry[x] /\ quiet'[x] = quiet[x]
    BY <1>1 DEF MInv, IInv, TypeOK
<1>4. Remembers(w)' /\ Spaced(w)'
    BY <1>1, <1>2, <1>3 DEF Remembers, Spaced
<1>5. \A x \in Workers : Remembers(x)' /\ Spaced(x)'
    <2>1. ASSUME NEW x \in Workers, x # w
          PROVE  Remembers(x)' /\ Spaced(x)'
        BY <1>1, <1>3, <2>1 DEF MInv, Memory, Remembers, Spaced
    <2>. QED BY <1>4, <2>1
<1>6. ASSUME NEW x \in Workers, NEW t \in Tasks, pc'[x][t] = "loading"
      PROVE  entry'[x] = None
    BY <1>1, <1>3, <1>6 DEF MInv, Memory
<1>. QED BY <1>1, <1>5, <1>6 DEF Memory, MInv, NoneOnlyWhenTooOld

LEMMA RestartMemory ==
    ASSUME MInv, NEW w \in Workers, Restart(w)
    PROVE  Memory' /\ NoneOnlyWhenTooOld'
<1>1. /\ entry'[w] = None /\ good'[w] = None
      /\ \A x \in Workers \ {w} : /\ entry'[x] = entry[x] /\ good'[x] = good[x]
                                  /\ quiet'[x] = quiet[x] /\ pc'[x] = pc[x]
      /\ ret' = ret
    BY DEF Restart, MInv, IInv, TypeOK
<1>2. ASSUME NEW x \in Workers
      PROVE  Remembers(x)' /\ Spaced(x)'
    BY <1>1 DEF MInv, Memory, Remembers, Spaced
<1>3. ASSUME NEW x \in Workers, NEW t \in Tasks, pc'[x][t] = "loading"
      PROVE  entry'[x] = None
    BY <1>1, <1>3 DEF MInv, Memory
<1>. QED BY <1>1, <1>2, <1>3 DEF Memory, MInv, NoneOnlyWhenTooOld

\* The copy and the last good answer grow old together.
LEMMA TickMemory ==
    ASSUME MInv, Tick
    PROVE  Memory' /\ NoneOnlyWhenTooOld'
<1>1. UNCHANGED <<pc, ret>>
    BY DEF Tick
<1>2. ASSUME NEW w \in Workers
      PROVE  /\ entry[w] = None <=> entry'[w] = None
             /\ Remembers(w)' /\ Spaced(w)'
    <2>1. /\ Remembers(w) /\ Spaced(w) /\ good[w] \in Age \union {None}
          /\ quiet[w] \in Nat /\ entry[w] \in Entry \union {None}
        BY DEF MInv, Memory, IInv, TypeOK
    <2>2. /\ entry'[w] = IF entry[w] = None THEN None
                         ELSE [entry[w] EXCEPT !.age = Older(@), !.fresh = Less(@),
                                               !.retry = Less(@)]
          /\ good'[w] = IF good[w] = None THEN None ELSE Older(good[w])
          /\ quiet'[w] = Less(quiet[w])
        BY DEF Tick
    <2>3. \A a, b \in Nat : a <= b => Less(a) <= Less(b)
        BY DEF Less
    <2>4. \A a \in Age : Older(a) \in Nat /\ a \in Nat /\ (a > StaleMax => Older(a) > StaleMax)
        BY TimesAssumption DEF Older, Age, Limit
    <2>5. CASE entry[w] = None
        <3>1. entry'[w] = None /\ (good'[w] = None \/ good'[w] > StaleMax)
            BY <2>1, <2>2, <2>4, <2>5 DEF Remembers
        <3>. QED BY <2>5, <3>1 DEF Remembers, Spaced
    <2>6. CASE entry[w] # None
        <3> DEFINE new == [entry[w] EXCEPT !.age = Older(@), !.fresh = Less(@),
                                           !.retry = Less(@)]
        <3>1. /\ entry[w] \in Entry /\ entry[w].age \in Age /\ entry[w].fresh \in 0..Ttl
              /\ entry[w].retry \in 0..Retry /\ entry'[w] = new
            BY <2>1, <2>2, <2>6 DEF Entry
        <3>2. /\ Older(entry[w].age) \in Age /\ Less(entry[w].fresh) \in 0..Ttl
              /\ Less(entry[w].retry) \in 0..Retry
            BY <3>1, Aging, TimesAssumption DEF Less
        <3>3. /\ new \in Entry /\ new # None /\ new.age = Older(entry[w].age)
              /\ new.fresh = Less(entry[w].fresh) /\ new.retry = Less(entry[w].retry)
              /\ new.failed = entry[w].failed
            BY <3>1, <3>2, EntryAssumption DEF Entry
        <3>. HIDE DEF new
        <3>4. good'[w] # None => new.age <= good'[w]
            BY <2>1, <2>2, <2>6, <3>1, <3>3, Aging DEF Remembers
        <3>5. \/ Less(quiet[w]) <= new.fresh
              \/ new.failed /\ Less(quiet[w]) <= new.retry
            BY <2>1, <2>3, <2>6, <3>1, <3>3, TimesAssumption DEF Spaced
        <3>. QED BY <2>2, <2>6, <3>1, <3>3, <3>4, <3>5 DEF Remembers, Spaced
    <2>. QED BY <2>5, <2>6
<1>. QED BY <1>1, <1>2 DEF Memory, MInv, NoneOnlyWhenTooOld

-----------------------------------------------------------------------------
(* The theorems *)

LEMMA InitIInv == Init => IInv
<1>. SUFFICES ASSUME Init PROVE IInv
    OBVIOUS
<1>1. 0 \in Age /\ Limit \in Age /\ StaleMax + Retry > 0
    BY TimesAssumption DEF Age, Limit
<1>2. lost = [v \in Versions |-> IF v = crm THEN 0 ELSE Limit] /\ crm \in Versions
    BY DEF Init
<1>3. lost \in [Versions -> Age] /\ lost[crm] = 0
    BY <1>1, <1>2
<1>4. TypeOK
    BY <1>1, <1>3 DEF Init, TypeOK
<1>5. SingleFlight
    BY TimesAssumption DEF Init, SingleFlight
<1>6. Answers /\ Copies /\ BoundedStaleness
    BY <1>1, <1>3 DEF Init, Answers, Copies, BoundedStaleness
<1>. QED BY <1>4, <1>5, <1>6 DEF IInv

LEMMA IInvStep == IInv /\ [Next]_vars => IInv'
<1>. SUFFICES ASSUME IInv, [Next]_vars PROVE IInv'
    OBVIOUS
<1>1. CASE Tick
    BY <1>1, TickStep
<1>2. CASE Deploy
    BY <1>2, DeployStep
<1>3. ASSUME NEW w \in Workers, Invalidate(w) \/ Restart(w)
      PROVE  IInv'
    BY <1>3, InvalidateStep, RestartStep
<1>4. ASSUME NEW w \in Workers, NEW t \in Tasks, GetCached(w, t) \/ LockedHit(w, t)
      PROVE  IInv'
    BY <1>4, ServedStep DEF GetCached, LockedHit
<1>5. ASSUME NEW w \in Workers, NEW t \in Tasks, GetWaits(w, t)
      PROVE  IInv'
    <2>1. dirty' \in [Workers -> BOOLEAN]
        BY <1>5 DEF GetWaits, IInv, TypeOK
    <2>. QED BY <1>5, <2>1, QuietMove DEF GetWaits
<1>6. ASSUME NEW w \in Workers, NEW t \in Tasks, StartFetch(w, t)
      PROVE  IInv'
    <2>1. dirty' \in [Workers -> BOOLEAN]
        BY <1>6 DEF StartFetch, IInv, TypeOK
    <2>. QED BY <1>6, <2>1, QuietMove DEF StartFetch
<1>7. ASSUME NEW w \in Workers, NEW t \in Tasks, CrmReplies(w, t)
      PROVE  IInv'
    BY <1>7, RepliesStep
<1>8. ASSUME NEW w \in Workers, NEW t \in Tasks, NotModified(w, t) \/ Fetched(w, t)
      PROVE  IInv'
    BY <1>8, AnsweredStep
<1>9. ASSUME NEW w \in Workers, NEW t \in Tasks, Saved(w, t) \/ SaveFails(w, t)
      PROVE  IInv'
    BY <1>9, SavingStep
<1>10. ASSUME NEW w \in Workers, NEW t \in Tasks,
              FetchFails(w, t) \/ Loaded(w, t) \/ LoadFails(w, t)
       PROVE  IInv'
    BY <1>10, FailingStep
<1>11. ASSUME NEW w \in Workers, NEW t \in Tasks, CancelGet(w, t)
       PROVE  IInv'
    BY <1>11, CancelStep
<1>12. CASE UNCHANGED vars
    <2>1. TypeOK' /\ SingleFlight' /\ Answers' /\ BoundedStaleness'
        BY <1>12 DEF vars, IInv, TypeOK, SingleFlight, Answers, BoundedStaleness
    <2>2. Copies'
        BY <1>12 DEF vars, IInv, Copies, Fits
    <2>. QED BY <2>1, <2>2 DEF IInv
<1>. QED BY <1>1, <1>2, <1>3, <1>4, <1>5, <1>6, <1>7, <1>8, <1>9, <1>10, <1>11, <1>12
         DEF Next, Progress

LEMMA InitMInv == Init => MInv
<1>. SUFFICES ASSUME Init PROVE MInv
    OBVIOUS
<1>1. IInv
    BY InitIInv
<1>2. Memory
    BY DEF Init, Memory, Remembers, Spaced
<1>3. ret.ver # None
    BY TimesAssumption DEF Init
<1>. QED BY <1>1, <1>2, <1>3 DEF MInv, NoneOnlyWhenTooOld

LEMMA MInvStep == MInv /\ [Next]_vars => MInv'
<1>. SUFFICES ASSUME MInv, [Next]_vars PROVE Memory' /\ NoneOnlyWhenTooOld'
    BY IInvStep DEF MInv
<1>1. CASE Tick
    BY <1>1, TickMemory
<1>2. CASE Deploy \/ UNCHANGED vars
    <2>1. UNCHANGED <<pc, ret, entry, good, quiet>>
        BY <1>2 DEF Deploy, vars
    <2>. QED BY <2>1 DEF MInv, Memory, Remembers, Spaced, NoneOnlyWhenTooOld
<1>3. ASSUME NEW w \in Workers, Invalidate(w) \/ Restart(w)
      PROVE  Memory' /\ NoneOnlyWhenTooOld'
    BY <1>3, InvalidateMemory, RestartMemory
<1>4. ASSUME NEW w \in Workers, NEW t \in Tasks,
             GetCached(w, t) \/ GetWaits(w, t) \/ Progress(w, t) \/ CancelGet(w, t)
      PROVE  Memory' /\ NoneOnlyWhenTooOld'
    BY <1>4, ServedMemory, WaitingMemory, AnsweredMemory, FailingMemory DEF Progress
<1>. QED BY <1>1, <1>2, <1>3, <1>4 DEF Next

LEMMA Safe == Spec => []IInv
BY InitIInv, IInvStep, PTL DEF Spec

\* The types, entries and snapshots included, whatever fails.
THEOREM TypeCorrect == Spec => []TypeOK
<1>1. IInv => TypeOK
    BY DEF IInv
<1>. QED BY <1>1, Safe, PTL

\* No get hands out a manifest the CRM stopped publishing stale_max_seconds and one
\* retry interval ago: not after failed refreshes, deploys during a fetch, a restart
\* or snapshots that arrive late from other workers.
THEOREM StalenessBounded == Spec => []BoundedStaleness
<1>1. IInv => BoundedStaleness
    BY DEF IInv
<1>. QED BY <1>1, Safe, PTL

\* A worker has one fetch under way at most, the one of the task that holds its lock.
THEOREM FetchesAreSingle == Spec => []SingleFlight
<1>1. IInv => SingleFlight
    BY DEF IInv
<1>. QED BY <1>1, Safe, PTL

\* A turn goes without CRM tools only if its worker had no good answer of the CRM for
\* stale_max_seconds: no invalidation, cancelled refresh, failed database call or
\* refused fetch loses a copy that could still be served.
THEOREM LastGoodCopyKept == Spec => []NoneOnlyWhenTooOld
<1>1. MInv => NoneOnlyWhenTooOld
    BY DEF MInv
<1>. QED BY <1>1, InitMInv, MInvStep, PTL DEF Spec

\* A worker that has a copy leaves the CRM alone until the copy expires, the retry
\* interval after a failure passes or the copy is invalidated.
THEOREM FetchesSpaced == Spec => FetchSpaced
<1> DEFINE Again == \A w \in Workers :
                       (\E t \in Tasks : pc[w][t] = "waiting" /\ pc'[w][t] = "fetching")
                           => quiet[w] = 0 \/ entry[w] = None
<1>1. MInv /\ [Next]_vars => [Again]_vars
    <2>. SUFFICES ASSUME MInv, Next, NEW w \in Workers, NEW t \in Tasks,
                         pc[w][t] = "waiting", pc'[w][t] = "fetching", entry[w] # None
         PROVE  quiet[w] = 0
        OBVIOUS
    <2>1. pc \in [Workers -> [Tasks -> Places]]
        BY DEF MInv, IInv, TypeOK, Places
    <2>2. PICK x \in Workers, u \in Tasks : StartFetch(x, u)
        <3>1. ~(Tick \/ Deploy)
            BY DEF Tick, Deploy
        <3>2. ASSUME NEW x \in Workers
              PROVE  ~(Invalidate(x) \/ Restart(x))
            BY <2>1 DEF Invalidate, Restart
        <3>3. ASSUME NEW x \in Workers, NEW u \in Tasks,
                     GetCached(x, u) \/ GetWaits(x, u) \/ Progress(x, u) \/ CancelGet(x, u)
              PROVE  StartFetch(x, u)
            <4>1. CASE StartFetch(x, u)
                BY <4>1
            <4>2. ASSUME NEW next \in Places, next # "fetching",
                         pc' = [pc EXCEPT ![x][u] = next]
                  PROVE  FALSE
                BY <2>1, <4>2
            <4>3. ASSUME ~StartFetch(x, u)
                  PROVE  \E next \in {"idle", "waiting", "answered", "saving", "loading"} :
                             pc' = [pc EXCEPT ![x][u] = next]
                BY <3>3, <4>3 DEF GetCached, GetWaits, Progress, CancelGet, LockedHit,
                   CrmReplies, FetchFails, NotModified, Fetched, Saved, SaveFails, Loaded,
                   LoadFails, Fallback, ServeStale, GiveUp, Return
            <4>. QED BY <4>1, <4>2, <4>3 DEF Places
        <3>. QED BY <3>1, <3>2, <3>3 DEF Next
    <2>3. x = w
        BY <2>1, <2>2 DEF StartFetch
    <2>4. ~UsableWithoutRefresh(entry[w]) /\ Spaced(w) /\ quiet[w] \in Nat
        BY <2>2, <2>3 DEF StartFetch, MInv, Memory, IInv, TypeOK
    <2>5. entry[w].fresh \in Nat /\ entry[w].retry \in Nat
        BY TimesAssumption DEF MInv, IInv, TypeOK, Entry
    <2>. QED BY <2>4, <2>5 DEF Spaced, UsableWithoutRefresh
<1>2. Spec => []MInv
    BY InitMInv, MInvStep, PTL DEF Spec
<1>. QED BY <1>1, <1>2, PTL DEF Spec, FetchSpaced
=============================================================================
