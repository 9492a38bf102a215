---------------------------- MODULE MCRagIngest ----------------------------
(* Two kinds of behaviours of RagIngest: one ingest after the other, with pages *)
(* of two records and every fault, and two ingests at once, with pages of one.  *)
EXTENDS RagIngest

CONSTANTS i1, i2
VARIABLE pair

IngestInit == Init /\ pair \in BOOLEAN

\* Two ingests: of two records that nobody deletes, one of which is edited.  The
\* second one begins while the first one runs, or after that failed.
Paired ==
    /\ \A r \in Records : crm'[r] # Gone
    /\ crm'[3] = None /\ (crm'[2] # None => crm'[2].ver = 1)
    /\ \A r \in Records : store'[r] = None => store[r] = None
    /\ \A i \in Ingests : job'[i].size < 2 /\ job'[i].left = None
    /\ pc[i1] = "done" => pc'[i2] = pc[i2] \/ pc[i2] # "done"

\* The record without a time is not edited.
OneByOne ==
    /\ pc'[i2] = "done" /\ job'[i1].size # 1
    /\ crm'[3] \notin {None, Gone} => crm'[3].ver = 1

IngestNext == Next /\ UNCHANGED pair /\ IF pair THEN Paired ELSE OneByOne

IngestSpec ==
    /\ IngestInit /\ [][IngestNext]_<<vars, pair>>
    /\ \A i \in Ingests : WF_vars(Works(i))
=============================================================================
