----------------------------- MODULE TenantCaches -----------------------------
(***************************************************************************)
(* What a worker remembers of a tenant between requests, each for          *)
(* tenant_cache_ttl_seconds: its credentials (TenantManager of             *)
(* app/services/tenant_manager.py), its language model                     *)
(* (app/services/tenant_llm.py) and a user's CRM modules                   *)
(* (app/services/module_catalog.py).  The three caches share no entry, so  *)
(* a behaviour is about one of them.                                       *)
(*                                                                         *)
(* A lookup that misses awaits the database or the CRM and then stores     *)
(* what it got; lookups overlap and their stores come in any order.  Times *)
(* are kept as ages, in ticks; a load takes at most LoadMax of them.       *)
(***************************************************************************)
EXTENDS Naturals

CONSTANTS
    Lookups,   \* lookups of the worker at once
    Values,    \* contents of the tenant's row, module lists
    Missing,   \* an inactive tenant; no answer or an empty one from the CRM
    Ttl,       \* tenant_cache_ttl_seconds, in ticks
    LoadMax,   \* bound on the ticks a load takes
    Nothing    \* no entry

ASSUME CacheAssumption ==
    /\ Ttl \in Nat /\ LoadMax \in Nat
    /\ Missing \notin Values /\ Nothing \notin Values \union {Missing}

VARIABLES
    kind,     \* which cache
    source,   \* what a load would find now
    gone,     \* for each value, for how long it has not been the source's
    cache,    \* the worker's entry: value and ticks left
    lookup,   \* each lookup under way
    outdated  \* for how long the last answer had not been the source's

cacheVars == <<kind, source, gone, cache, lookup, outdated>>

Kinds == {"credentials", "llm", "catalog"}
Found == Values \union {Missing}
Oldest == Ttl + LoadMax + 1
Aged(n) == IF n < Oldest THEN n + 1 ELSE n
NoLookup == [pc |-> "idle", value |-> Missing, took |-> 0]

CacheInit ==
    /\ kind \in Kinds
    /\ source \in Found
    /\ gone = [v \in Found |-> IF v = source THEN 0 ELSE Oldest]
    /\ cache = Nothing
    /\ lookup = [l \in Lookups |-> NoLookup]
    /\ outdated = 0

-----------------------------------------------------------------------------
(* A lookup: get_credentials, resolve_llm_config, get_module_catalog *)

Hit(l) ==
    /\ lookup[l].pc = "idle"
    /\ cache # Nothing /\ cache.left > 0
    /\ outdated' = gone[cache.value]
    /\ UNCHANGED <<kind, source, gone, cache, lookup>>

Miss(l) ==
    /\ lookup[l].pc = "idle"
    /\ IF cache = Nothing THEN TRUE ELSE cache.left = 0
    /\ lookup' = [lookup EXCEPT ![l].pc = "loading"]
    /\ UNCHANGED <<kind, source, gone, cache, outdated>>

\* The query or the CRM's answer is made from what is there at this moment.
Reads(l) ==
    /\ lookup[l].pc = "loading"
    /\ lookup' = [lookup EXCEPT ![l].pc = "read", ![l].value = source]
    /\ UNCHANGED <<kind, source, gone, cache, outdated>>

\* Bug: an entry lives on for the time its load took.
LeftLonger(q) == Ttl + q.took

\* The catalog's entry counts from the start of its load, the others from its end.
Left(q) ==
    IF kind # "catalog" THEN Ttl ELSE IF q.took < Ttl THEN Ttl - q.took ELSE 0

\* Inactive credentials are an error and kept by none.  The catalog keeps the
\* static module sets where there was no answer, and a tenant without a row the
\* default model.
Stores(l) ==
    LET q == lookup[l]
    IN  /\ q.pc = "read"
        /\ outdated' = gone[q.value]
        /\ cache' = IF kind = "credentials" /\ q.value = Missing THEN cache
                    ELSE [value |-> q.value, left |-> Left(q)]
        /\ lookup' = [lookup EXCEPT ![l] = NoLookup]
        /\ UNCHANGED <<kind, source, gone>>

\* The database raises, or the request is gone: nothing is stored.
LookupFails(l) ==
    /\ lookup[l].pc # "idle"
    /\ lookup' = [lookup EXCEPT ![l] = NoLookup]
    /\ UNCHANGED <<kind, source, gone, cache, outdated>>

\* invalidate_tenant_cache, called in this process.
Invalidate ==
    /\ kind # "catalog"
    /\ cache' = Nothing
    /\ UNCHANGED <<kind, source, gone, lookup, outdated>>

-----------------------------------------------------------------------------

\* The tenant's row is edited, the tenant deactivated, the CRM fails or recovers.
SourceChanges ==
    /\ source' \in Found \ {source}
    /\ gone' = [gone EXCEPT ![source'] = 0]
    /\ UNCHANGED <<kind, cache, lookup, outdated>>

CacheTick ==
    /\ \A l \in Lookups : lookup[l].took < LoadMax
    /\ gone' = [v \in Found |-> IF v = source THEN 0 ELSE Aged(gone[v])]
    /\ cache' = IF cache = Nothing THEN Nothing
                ELSE [cache EXCEPT !.left = IF @ > 0 THEN @ - 1 ELSE 0]
    /\ lookup' = [l \in Lookups |->
                    IF lookup[l].pc = "idle" THEN lookup[l]
                    ELSE [lookup[l] EXCEPT !.took = @ + 1]]
    /\ UNCHANGED <<kind, source, outdated>>

CacheNext ==
    \/ CacheTick \/ Invalidate \/ SourceChanges
    \/ \E l \in Lookups : Hit(l) \/ Miss(l) \/ Reads(l) \/ Stores(l) \/ LookupFails(l)

CacheSpec == CacheInit /\ [][CacheNext]_cacheVars

-----------------------------------------------------------------------------
(* Properties *)

\* How outdated an answer may be: an entry's life, and for what is kept from the
\* end of its load the load too.
Bound == IF kind # "catalog" THEN Ttl + LoadMax ELSE IF Ttl > LoadMax THEN Ttl ELSE LoadMax

\* A tenant that was deactivated, a secret or a model that was replaced, rights
\* that were taken away, and the static modules once the CRM answers again, are
\* served no longer than that, whatever loads were under way meanwhile.
ServedRecently == outdated <= Bound
=============================================================================
