------------------------------ MODULE RagIngest ------------------------------
(***************************************************************************)
(* Ingest of one CRM module of one tenant into the vector store:           *)
(* ingest_from_crm_paginated, ingest_records and what they read of the     *)
(* store (app/engine/rag.py), run by requests and by background tasks.     *)
(*                                                                         *)
(* An ingest takes the newest modification time it finds in the store as   *)
(* its watermark and lists the CRM's records page by page, newest first.   *)
(* It stops at the first page with a record older than the watermark,      *)
(* trusting that what is behind that page was stored before.  Meanwhile    *)
(* users edit, create and delete records, another ingest may run, and any  *)
(* remote call may fail.                                                   *)
(***************************************************************************)
EXTENDS Integers, FiniteSets

CONSTANTS
    Records,    \* ids of the module's records; the smaller comes first in a tie
    Undated,    \* those without a usable modification time
    Ingests,    \* ingests that may run at once
    PageSizes,  \* values of page_size
    BatchSize,  \* rag_upsert_batch_size
    Limits,     \* values of record_limit, None among them
    Faults,     \* which of "remote", "delete" and "drop" may occur
    MaxTime,    \* bound of the clock
    MaxVer,     \* bound of the edits of a record
    None,       \* not there (yet), no limit
    Gone        \* deleted in the CRM

ASSUME IngestAssumption ==
    /\ Records \subseteq Nat /\ IsFiniteSet(Records) /\ Undated \subseteq Records
    /\ PageSizes \subseteq Nat \ {0} /\ BatchSize \in Nat \ {0}
    /\ None \in Limits /\ Limits \ {None} \subseteq Nat
    /\ MaxTime \in Nat \ {0} /\ MaxVer \in Nat \ {0}
    /\ None \notin Nat /\ Gone \notin Nat /\ None # Gone
    /\ {None, Gone} \intersect [ver : Nat, at : Nat] = {}

VARIABLES
    now,     \* the CRM's clock, in the seconds of its time stamps
    crm,     \* each record's version in the CRM, and when that was made
    store,   \* each record's point: version (the hash) and modified_at
    pc,      \* where each ingest stands; "done" and "failed" are at rest
    job,     \* its local variables
    whole,   \* history: the store misses nothing from behind its watermark
    clean,   \* history: ingests that nothing disturbed so far, as below
    calm     \* history: ingests during which no record was edited or created

vars == <<now, crm, store, pc, job, whole, clean, calm>>

AtRest == {"done", "failed"}
Running == {i \in Ingests : pc[i] \notin AtRest}

\* An unused job: no watermark, no limit, nothing fetched.
NoJob == [size |-> 0, mark |-> 0, offset |-> 0, left |-> None, todo |-> <<>>, last |-> FALSE]

Init ==
    /\ now = 1
    /\ crm = [r \in Records |-> None]
    /\ store = [r \in Records |-> None]
    /\ pc = [i \in Ingests |-> "done"]
    /\ job = [i \in Ingests |-> NoJob]
    /\ whole = TRUE
    /\ clean = {}
    /\ calm = {}

-----------------------------------------------------------------------------
(* The CRM.  A time stamp of 0 stands for a record without one.             *)

Present == {r \in Records : crm[r] \notin {None, Gone}}
Stamp(r) == IF r \in Undated THEN 0 ELSE now

\* The order of the CRM's list: by time, newest first, then by id; records without
\* a time come last.
Before(r, v, s, w) == v.at > w.at \/ (v.at = w.at /\ r < s)
Position(r) == Cardinality({s \in Present : Before(s, crm[s], r, crm[r])})
Page(offset, size) == {r \in Present : Position(r) \in offset..(offset + size - 1)}

Changed(r, v) ==
    /\ crm' = [crm EXCEPT ![r] = v]
    /\ calm' = {}
    /\ UNCHANGED <<now, store, pc, job, whole>>

\* Of two ingests one may hold the record's old version and write it last.
Saved(r, v) ==
    /\ Changed(r, v)
    /\ clean' = IF Cardinality(Running) > 1 THEN {} ELSE clean

Tick ==
    /\ now < MaxTime
    /\ now' = now + 1
    /\ UNCHANGED <<crm, store, pc, job, whole, clean, calm>>

Create(r) ==
    /\ crm[r] = None
    /\ Saved(r, [ver |-> 1, at |-> Stamp(r)])

Edit(r) ==
    /\ r \in Present
    /\ crm[r].ver < MaxVer
    /\ Saved(r, [ver |-> crm[r].ver + 1, at |-> Stamp(r)])

\* The records behind a deleted one move up: an ingest that is between two pages
\* misses one of them.
Delete(r) ==
    /\ "delete" \in Faults
    /\ r \in Present
    /\ Changed(r, Gone)
    /\ clean' = {}

-----------------------------------------------------------------------------
(* The vector store *)

\* The newest modified_at among the points, 0 without a dated one.
Watermark(points) ==
    LET times == {points[r].at : r \in {s \in Records : points[s] # None}} \union {0}
    IN  CHOOSE t \in times : \A u \in times : u <= t

\* The collection is dropped, and created anew by the next use.
DropCollection ==
    /\ "drop" \in Faults
    /\ store' = [r \in Records |-> None]
    /\ whole' = TRUE
    /\ clean' = {}
    /\ UNCHANGED <<now, crm, pc, job, calm>>

-----------------------------------------------------------------------------
(* An ingest *)

Begin(i, incremental, limit, size) ==
    /\ pc[i] \in AtRest
    /\ pc' = [pc EXCEPT ![i] = IF incremental THEN "scan" ELSE "list"]
    /\ job' = [job EXCEPT ![i] = [NoJob EXCEPT !.left = limit, !.size = size]]
    /\ clean' = IF IF Running = {} THEN whole \/ ~incremental ELSE Running \subseteq clean \intersect calm
                THEN clean \union {i}
                ELSE {}
    /\ calm' = calm \union {i}
    /\ UNCHANGED <<now, crm, store, whole>>

Scan(i) ==
    /\ pc[i] = "scan"
    /\ pc' = [pc EXCEPT ![i] = "list"]
    /\ job' = [job EXCEPT ![i].mark = Watermark(store)]
    /\ UNCHANGED <<now, crm, store, whole, clean, calm>>

SelectedStrictly(mark, v) == mark = 0 \/ v.at = 0 \/ v.at > mark

\* A page's records that are ingested: all without a watermark, else those without
\* a time and those not older than the watermark.
Selected(mark, v) == mark = 0 \/ v.at = 0 \/ v.at >= mark

\* The end of an ingest, complete or at its limit.  Others that run may rely on
\* what it stored.
Done(i, complete) ==
    /\ pc' = [pc EXCEPT ![i] = "done"] /\ job' = [job EXCEPT ![i] = NoJob]
    /\ whole' = IF complete /\ i \in clean THEN whole \/ Running = {i} ELSE FALSE
    /\ clean' = IF complete THEN clean \ {i} ELSE {}
    /\ calm' = calm \ {i}

\* What follows the last record of a page.
Continue(i, after) ==
    IF after.last
    THEN Done(i, TRUE)
    ELSE /\ pc' = [pc EXCEPT ![i] = "list"] /\ job' = [job EXCEPT ![i] = after]
         /\ UNCHANGED <<whole, clean, calm>>

\* The number of records asked for: a page, but no more than the limit leaves.
AskFor(m, n) == IF n # None /\ n < m THEN n ELSE m

NotAdvanced(offset, fetched) == offset
Advanced(offset, fetched) == offset + fetched

\* The limit is used up, or the list is at its end.
ListEnds(i) ==
    /\ pc[i] = "list"
    /\ \/ job[i].left = 0 /\ Done(i, FALSE)
       \/ job[i].left # 0 /\ Page(job[i].offset, 1) = {} /\ Done(i, TRUE)
    /\ UNCHANGED <<now, crm, store>>

List(i) ==
    LET size == AskFor(job[i].size, job[i].left)
        page == Page(job[i].offset, size)
        selected == {r \in page : Selected(job[i].mark, crm[r])}
    IN  /\ pc[i] = "list"
        /\ job[i].left # 0 /\ page # {}
        /\ pc' = [pc EXCEPT ![i] = "compare"]
        /\ job' = [job EXCEPT ![i] =
               [job[i] EXCEPT !.todo = [r \in selected |-> crm[r]],
                              !.offset = Advanced(@, Cardinality(page)),
                              !.last = selected # page \/ Cardinality(page) < size]]
        /\ UNCHANGED <<now, crm, store, whole, clean, calm>>

SameTime(point, v) == point # None /\ point.at = v.at
SameHash(point, v) == point = v

\* Records whose hash is known are skipped.  When the hashes cannot be read, those
\* read so far count.
Compare(i) ==
    \E read \in SUBSET DOMAIN job[i].todo :
        LET known == {r \in read : SameHash(store[r], job[i].todo[r])}
            changed == DOMAIN job[i].todo \ known
            after == [job[i] EXCEPT !.todo = [r \in changed |-> @[r]]]
        IN  /\ pc[i] = "compare"
            /\ read = DOMAIN job[i].todo \/ "remote" \in Faults
            /\ IF changed = {}
               THEN Continue(i, after)
               ELSE /\ pc' = [pc EXCEPT ![i] = "write"] /\ job' = [job EXCEPT ![i] = after]
                    /\ UNCHANGED <<whole, clean, calm>>
            /\ UNCHANGED <<now, crm, store>>

\* The first records of a page still to be written, in the order of the page.
Batch(todo) ==
    {r \in DOMAIN todo :
        Cardinality({s \in DOMAIN todo : Before(s, todo[s], r, todo[r])}) < BatchSize}

Write(i) ==
    LET todo == job[i].todo
        batch == Batch(todo)
        rest == DOMAIN todo \ batch
        after == [job[i] EXCEPT !.todo = [r \in rest |-> todo[r]],
                                !.left = IF @ = None THEN @ ELSE @ - Cardinality(batch)]
    IN  /\ pc[i] = "write"
        /\ store' = [r \in Records |-> IF r \in batch THEN todo[r] ELSE store[r]]
        /\ IF rest = {}
           THEN Continue(i, after)
           ELSE job' = [job EXCEPT ![i] = after] /\ UNCHANGED <<pc, whole, clean, calm>>
        /\ UNCHANGED <<now, crm>>

\* The CRM or the store fails, or the worker ends.  Nothing was written yet
\* before the first page is stored.
Fail(i) ==
    /\ "remote" \in Faults
    /\ i \in Running
    /\ pc' = [pc EXCEPT ![i] = "failed"] /\ job' = [job EXCEPT ![i] = NoJob]
    /\ whole' = (whole /\ job[i].offset = 0)
    /\ clean' = IF whole' THEN clean \ {i} ELSE {}
    /\ calm' = calm \ {i}
    /\ UNCHANGED <<now, crm, store>>

-----------------------------------------------------------------------------
Works(i) == Scan(i) \/ ListEnds(i) \/ List(i) \/ Compare(i) \/ Write(i)

Next ==
    \/ Tick
    \/ \E r \in Records : Create(r) \/ Edit(r) \/ Delete(r)
    \/ DropCollection
    \/ \E i \in Ingests :
        \/ \E incremental \in BOOLEAN, limit \in Limits, size \in PageSizes :
              Begin(i, incremental, limit, size)
        \/ Works(i)
        \/ Fail(i)

Spec == Init /\ [][Next]_vars

\* The CRM, the embedder and the store answer or time out.
FairSpec == Spec /\ \A i \in Ingests : WF_vars(Works(i))

-----------------------------------------------------------------------------
(* Properties *)

\* What the watermark stands for: each dated record that is not stored as the CRM
\* has it is at least as new as the watermark, so the next incremental ingest will
\* come to it.  It holds although records are edited and created between the pages,
\* until an ingest is broken off or stopped by its limit, a record is deleted during
\* one, or a record is saved during two that overlap; a full ingest restores it.
NothingBehind ==
    whole /\ Running = {} =>
        \A r \in Present \ Undated :
            store[r] = crm[r] \/ crm[r].at >= Watermark(store)

\* An undisturbed ingest during which nobody edited leaves the store as the CRM has
\* it, edits of the watermark's own second included; records without a time are
\* certain to be seen by a full ingest only.
CaughtUp ==
    [][\A i \in clean \intersect calm :
          pc'[i] = "done" /\ whole' /\ Running = {i} =>
              \A r \in Present : (r \in Undated => job[i].mark = 0) =>
                  store'[r] = crm[r]]_vars

\* Every ingest ends, also while the list grows and moves under it.
EveryIngestEnds == \A i \in Ingests : i \in Running ~> i \notin Running
=============================================================================
