---------------------------- MODULE ManifestCache ----------------------------
(***************************************************************************)
(* The cache of one tenant's CRM tool manifest: ManifestCache of           *)
(* app/tools/manifest_cache.py in every worker process, over the snapshot  *)
(* table the workers share (app/tools/snapshots.py).                       *)
(*                                                                         *)
(* A worker runs several turns at once as tasks; each asks the cache for   *)
(* the manifest (get).  A task holds the worker's lock from the decision   *)
(* to refresh until it returns, and other tasks run while it awaits the    *)
(* CRM or the database.  Times are kept as ages and remaining times, in    *)
(* ticks: an age stops growing at Limit, past which no comparison of the   *)
(* code tells ages apart, so time itself is unbounded.  A fetch may take   *)
(* any number of ticks; from the CRM's answer to the end of get, database  *)
(* calls included, is less than one.                                       *)
(***************************************************************************)
EXTENDS Naturals

CONSTANTS
    Workers,    \* gateway worker processes
    Tasks,      \* turns a worker runs at once
    Versions,   \* manifests the CRM may publish, named by their hashes
    Ttl,        \* ttl_seconds, in ticks
    Retry,      \* retry_seconds
    StaleMax,   \* stale_max_seconds
    Faults,     \* which of the faults "database" and "cancel" may occur
    None        \* no entry, no snapshot, no manifest

ASSUME TimesAssumption ==
    /\ Ttl \in Nat \ {0} /\ Retry \in Nat \ {0} /\ StaleMax \in Nat
    /\ Ttl <= StaleMax + Retry
    /\ None \notin Versions \union Tasks
    /\ Faults \subseteq {"database", "cancel"}

VARIABLES
    crm,       \* the manifest the CRM publishes now
    lost,      \* for each manifest, for how long the CRM has not published it
    snap,      \* row of tenant_tool_manifests: manifest and age, or None
    entry,     \* each worker's _entries[tenant]
    holder,    \* the task holding each worker's lock, or None
    pc,        \* where each task of each worker stands in get
    reply,     \* what the CRM answered the worker's fetch with
    ret,       \* the last result of a get: manifest, and how outdated it is
    good,      \* history: age of the worker's last successful fetch, or None
    quiet,     \* history: for how long the worker should not fetch again
    dirty      \* history: invalidate was called and no fetch began since

vars == <<crm, lost, snap, entry, holder, pc, reply, ret, good, quiet, dirty>>

Limit == StaleMax + Retry + 1
Age == 0..Limit
Older(age) == IF age < Limit THEN age + 1 ELSE age
Less(left) == IF left > 0 THEN left - 1 ELSE 0

Entry == [ver : Versions, age : Age, fresh : 0..Ttl, retry : 0..Retry,
          failed : BOOLEAN]

ASSUME EntryAssumption == None \notin Entry

Init ==
    /\ crm \in Versions
    /\ lost = [v \in Versions |-> IF v = crm THEN 0 ELSE Limit]
    /\ snap = None
    /\ entry = [w \in Workers |-> None]
    /\ holder = [w \in Workers |-> None]
    /\ pc = [w \in Workers |-> [t \in Tasks |-> "idle"]]
    /\ reply = [w \in Workers |-> None]
    /\ ret = [ver |-> crm, outdated |-> 0]
    /\ good = [w \in Workers |-> None]
    /\ quiet = [w \in Workers |-> 0]
    /\ dirty = [w \in Workers |-> FALSE]

-----------------------------------------------------------------------------
(* Time and the CRM *)

Busy == \E w \in Workers, t \in Tasks :
            pc[w][t] \in {"answered", "loading", "saving"}

Tick ==
    /\ ~Busy
    /\ lost' = [v \in Versions |-> IF v = crm THEN 0 ELSE Older(lost[v])]
    /\ snap' = IF snap = None THEN None ELSE [snap EXCEPT !.age = Older(@)]
    /\ entry' = [w \in Workers |->
                    IF entry[w] = None THEN None
                    ELSE [entry[w] EXCEPT !.age = Older(@), !.fresh = Less(@),
                                          !.retry = Less(@)]]
    /\ good' = [w \in Workers |->
                    IF good[w] = None THEN None ELSE Older(good[w])]
    /\ quiet' = [w \in Workers |-> Less(quiet[w])]
    /\ UNCHANGED <<crm, holder, pc, reply, ret, dirty>>

\* A deploy or a rollback of the CRM publishes another manifest.
Deploy ==
    /\ crm' \in Versions \ {crm}
    /\ lost' = [lost EXCEPT ![crm'] = 0]
    /\ UNCHANGED <<snap, entry, holder, pc, reply, ret, good, quiet, dirty>>

-----------------------------------------------------------------------------
(* ManifestCache.get *)

UsableWithoutRefresh(e) == e # None /\ (e.fresh > 0 \/ (e.failed /\ e.retry > 0))

Result(v, w) ==
    ret' = [ver |-> v,
            outdated |-> IF v = None THEN good[w] ELSE lost[v]]

\* Bug: the lock is not freed.
ReturnLocked(w, t, v) ==
    /\ Result(v, w)
    /\ pc' = [pc EXCEPT ![w][t] = "idle"]
    /\ UNCHANGED holder

\* The task leaves get with manifest v, freeing the lock if it holds it.
Return(w, t, v) ==
    /\ Result(v, w)
    /\ pc' = [pc EXCEPT ![w][t] = "idle"]
    /\ holder' = [holder EXCEPT ![w] = IF @ = t THEN None ELSE @]

GetCached(w, t) ==
    /\ pc[w][t] = "idle"
    /\ UsableWithoutRefresh(entry[w])
    /\ Return(w, t, entry[w].ver)
    /\ UNCHANGED <<crm, lost, snap, entry, reply, good, quiet, dirty>>

GetWaits(w, t) ==
    /\ pc[w][t] = "idle"
    /\ ~UsableWithoutRefresh(entry[w])
    /\ pc' = [pc EXCEPT ![w][t] = "waiting"]
    /\ UNCHANGED <<crm, lost, snap, entry, holder, reply, ret, good, quiet, dirty>>

\* The lock is free: look at the entry again, and refresh only if still needed.
LockedHit(w, t) ==
    /\ pc[w][t] = "waiting" /\ holder[w] = None
    /\ UsableWithoutRefresh(entry[w])
    /\ Return(w, t, entry[w].ver)
    /\ UNCHANGED <<crm, lost, snap, entry, reply, good, quiet, dirty>>

\* Bug: the entry is not looked at again under the lock.
StartFetchUnchecked(w, t) ==
    /\ pc[w][t] = "waiting" /\ holder[w] = None
    /\ holder' = [holder EXCEPT ![w] = t]
    /\ pc' = [pc EXCEPT ![w][t] = "fetching"]
    /\ dirty' = [dirty EXCEPT ![w] = FALSE]
    /\ UNCHANGED <<crm, lost, snap, entry, reply, ret, good, quiet>>

StartFetch(w, t) ==
    /\ pc[w][t] = "waiting" /\ holder[w] = None
    /\ ~UsableWithoutRefresh(entry[w])
    /\ holder' = [holder EXCEPT ![w] = t]
    /\ pc' = [pc EXCEPT ![w][t] = "fetching"]
    /\ dirty' = [dirty EXCEPT ![w] = FALSE]
    /\ UNCHANGED <<crm, lost, snap, entry, reply, ret, good, quiet>>

CrmReplies(w, t) ==
    /\ pc[w][t] = "fetching"
    /\ reply' = [reply EXCEPT ![w] = crm]
    /\ pc' = [pc EXCEPT ![w][t] = "answered"]
    /\ UNCHANGED <<crm, lost, snap, entry, holder, ret, good, quiet, dirty>>

\* A successful fetch or revalidation, seen by the history variables.
Succeeded(w) ==
    /\ good' = [good EXCEPT ![w] = 0]
    /\ quiet' = [quiet EXCEPT ![w] = Ttl]

\* 304: the CRM still publishes what the entry's hash names.
NotModified(w, t) ==
    /\ pc[w][t] = "answered"
    /\ entry[w] # None /\ entry[w].ver = reply[w]
    /\ entry' = [entry EXCEPT ![w].age = 0, ![w].fresh = Ttl,
                              ![w].failed = FALSE]
    /\ reply' = [reply EXCEPT ![w] = None]
    /\ Return(w, t, entry[w].ver)
    /\ Succeeded(w)
    /\ UNCHANGED <<crm, lost, snap, dirty>>

Changed(w) == IF entry[w] = None THEN TRUE ELSE entry[w].ver # reply[w]

\* 200: a new entry; its snapshot is saved only if the hash changed.
Fetched(w, t) ==
    LET new == [ver |-> reply[w], age |-> 0, fresh |-> Ttl, retry |-> 0,
                failed |-> FALSE]
    IN  /\ pc[w][t] = "answered"
        /\ entry' = [entry EXCEPT ![w] = new]
        /\ reply' = [reply EXCEPT ![w] = None]
        /\ Succeeded(w)
        /\ \/ /\ Changed(w)
              /\ pc' = [pc EXCEPT ![w][t] = "saving"]
              /\ UNCHANGED <<holder, ret>>
           \/ /\ ~Changed(w)
              /\ Return(w, t, new.ver)
        /\ UNCHANGED <<crm, lost, snap, dirty>>

Saved(w, t) ==
    /\ pc[w][t] = "saving"
    /\ snap' = [ver |-> entry[w].ver, age |-> 0]
    /\ Return(w, t, entry[w].ver)
    /\ UNCHANGED <<crm, lost, entry, reply, good, quiet, dirty>>

SaveFails(w, t) ==
    /\ "database" \in Faults
    /\ pc[w][t] = "saving"
    /\ Return(w, t, entry[w].ver)
    /\ UNCHANGED <<crm, lost, snap, entry, reply, good, quiet, dirty>>

\* Bug: the age of the last good copy is not checked.
ServableAtAnyAge(e) == e # None

Servable(e) == e # None /\ e.age <= StaleMax

\* _fallback with the last good copy e, if there is one.
ServeStale(w, t, e) ==
    /\ Servable(e)
    /\ entry' = [entry EXCEPT ![w] = [e EXCEPT !.failed = TRUE, !.retry = Retry]]
    /\ quiet' = [quiet EXCEPT ![w] = Retry]
    /\ Return(w, t, e.ver)

GiveUp(w, t, e) ==
    /\ ~Servable(e)
    /\ entry' = [entry EXCEPT ![w] = None]
    /\ quiet' = [quiet EXCEPT ![w] = Retry]
    /\ Return(w, t, None)

Fallback(w, t, e) == ServeStale(w, t, e) \/ GiveUp(w, t, e)

\* The CRM is down, times out or publishes an unsupported protocol.
FetchFails(w, t) ==
    /\ pc[w][t] = "fetching"
    /\ \/ /\ entry[w] = None
          /\ pc' = [pc EXCEPT ![w][t] = "loading"]
          /\ UNCHANGED <<entry, holder, ret, quiet>>
       \/ /\ entry[w] # None
          /\ Fallback(w, t, entry[w])
    /\ UNCHANGED <<crm, lost, snap, reply, good, dirty>>

FromSnapshot == IF snap = None THEN None
                ELSE [ver |-> snap.ver, age |-> snap.age, fresh |-> 0,
                      retry |-> 0, failed |-> FALSE]

Loaded(w, t) ==
    /\ pc[w][t] = "loading"
    /\ Fallback(w, t, FromSnapshot)
    /\ UNCHANGED <<crm, lost, snap, reply, good, dirty>>

LoadFails(w, t) ==
    /\ "database" \in Faults
    /\ pc[w][t] = "loading"
    /\ Fallback(w, t, None)
    /\ UNCHANGED <<crm, lost, snap, reply, good, dirty>>

\* The turn is cancelled where it awaits; async with frees the lock.
CancelGet(w, t) ==
    /\ "cancel" \in Faults
    /\ pc[w][t] # "idle"
    /\ pc' = [pc EXCEPT ![w][t] = "idle"]
    /\ holder' = [holder EXCEPT ![w] = IF @ = t THEN None ELSE @]
    /\ reply' = [reply EXCEPT ![w] = IF holder[w] = t THEN None ELSE @]
    /\ UNCHANGED <<crm, lost, snap, entry, ret, good, quiet, dirty>>

-----------------------------------------------------------------------------
(* A tool call got 404 (CrmToolProvider._http_error) *)

\* Bug: invalidating drops the entry, and with it the stale fallback.
InvalidatePops(w) ==
    /\ entry[w] # None /\ holder[w] = None
    /\ entry' = [entry EXCEPT ![w] = None]
    /\ quiet' = [quiet EXCEPT ![w] = 0]
    /\ dirty' = [dirty EXCEPT ![w] = TRUE]
    /\ UNCHANGED <<crm, lost, snap, holder, pc, reply, ret, good>>

Invalidate(w) ==
    /\ entry[w] # None
    /\ entry' = [entry EXCEPT ![w].fresh = 0, ![w].retry = 0]
    /\ quiet' = [quiet EXCEPT ![w] = 0]
    /\ dirty' = [dirty EXCEPT ![w] = TRUE]
    /\ UNCHANGED <<crm, lost, snap, holder, pc, reply, ret, good>>

\* The worker process dies and a new one takes its place.
Restart(w) ==
    /\ entry' = [entry EXCEPT ![w] = None]
    /\ holder' = [holder EXCEPT ![w] = None]
    /\ pc' = [pc EXCEPT ![w] = [t \in Tasks |-> "idle"]]
    /\ reply' = [reply EXCEPT ![w] = None]
    /\ good' = [good EXCEPT ![w] = None]
    /\ quiet' = [quiet EXCEPT ![w] = 0]
    /\ dirty' = [dirty EXCEPT ![w] = FALSE]
    /\ UNCHANGED <<crm, lost, snap, ret>>

-----------------------------------------------------------------------------

Progress(w, t) ==
    \/ LockedHit(w, t) \/ StartFetch(w, t)
    \/ CrmReplies(w, t) \/ FetchFails(w, t)
    \/ NotModified(w, t) \/ Fetched(w, t) \/ Saved(w, t) \/ SaveFails(w, t)
    \/ Loaded(w, t) \/ LoadFails(w, t)

Next ==
    \/ Tick
    \/ Deploy
    \/ \E w \in Workers : Invalidate(w) \/ Restart(w)
    \/ \E w \in Workers, t \in Tasks :
          GetCached(w, t) \/ GetWaits(w, t) \/ Progress(w, t) \/ CancelGet(w, t)

Spec == Init /\ [][Next]_vars

\* asyncio.Lock serves its waiters in order, so none of them is passed over for
\* ever; a fetch is cut off by its 15 second timeout, a database call ends.
Fairness ==
    \A w \in Workers, t \in Tasks :
        /\ SF_vars(LockedHit(w, t) \/ StartFetch(w, t))
        /\ WF_vars(CrmReplies(w, t) \/ FetchFails(w, t))
        /\ WF_vars(NotModified(w, t) \/ Fetched(w, t) \/ Saved(w, t)
                     \/ SaveFails(w, t) \/ Loaded(w, t) \/ LoadFails(w, t))

FairSpec == Spec /\ Fairness

-----------------------------------------------------------------------------
(* Properties *)

TypeOK ==
    /\ crm \in Versions
    /\ lost \in [Versions -> Age]
    /\ snap = None \/ snap \in [ver : Versions, age : Age]
    /\ entry \in [Workers -> Entry \union {None}]
    /\ holder \in [Workers -> Tasks \union {None}]
    /\ pc \in [Workers -> [Tasks -> {"idle", "waiting", "fetching", "answered",
                                     "loading", "saving"}]]
    /\ reply \in [Workers -> Versions \union {None}]
    /\ ret \in [ver : Versions \union {None}, outdated : Age \union {None}]
    /\ good \in [Workers -> Age \union {None}]
    /\ quiet \in [Workers -> Nat]
    /\ dirty \in [Workers -> BOOLEAN]

\* No turn is ever handed a manifest the CRM stopped publishing more than
\* stale_max_seconds and one retry interval ago, over failed refreshes, deploys
\* during a fetch, worker restarts and snapshots written by other workers.
BoundedStaleness ==
    ret.ver # None => ret.outdated < StaleMax + Retry

\* A turn goes without CRM tools only if its worker has not had a good answer
\* from the CRM for stale_max_seconds: an invalidation, a cancelled refresh or a
\* failed snapshot write never loses the last good copy.
NoneOnlyWhenTooOld ==
    ret.ver = None => ret.outdated = None \/ ret.outdated > StaleMax

\* One fetch at a time: the answer awaited by a worker belongs to the task that
\* holds its lock, and nobody else of that worker talks to the CRM.
SingleFlight ==
    \A w \in Workers, t \in Tasks :
        pc[w][t] \notin {"idle", "waiting"} <=> holder[w] = t

\* A worker that has a manifest asks the CRM again only when the copy expired,
\* the retry interval after a failure passed, or the copy was invalidated: turns
\* that waited for a refresh share its result, good or bad.
FetchSpaced ==
    [][\A w \in Workers :
          (\E t \in Tasks : pc[w][t] = "waiting" /\ pc'[w][t] = "fetching")
             => quiet[w] = 0 \/ entry[w] = None]_vars

\* Every get returns, however refreshes fail and waiters are cancelled.
EveryGetReturns ==
    \A w \in Workers, t \in Tasks : pc[w][t] # "idle" ~> pc[w][t] = "idle"

\* The docstring of invalidate: "Next get() refetches".
InvalidateRefetches ==
    [][\A w \in Workers, t \in Tasks :
          (GetCached(w, t) \/ LockedHit(w, t)) => ~dirty[w]]_vars
=============================================================================
