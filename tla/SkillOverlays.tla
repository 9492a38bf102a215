---------------------------- MODULE SkillOverlays ----------------------------
(***************************************************************************)
(* The rules a tenant and its users add to the agent's prompt              *)
(* (app/services/skill_service.py, app/services/skill_capture_service.py)  *)
(* and the requests that change them at the same time: administrators and  *)
(* users through the API (app/api/endpoints.py), and the background tasks  *)
(* that capture a correction after a turn (app/engine/agent.py).           *)
(*                                                                         *)
(* A request reads its row, awaits, and commits; other requests run in     *)
(* between.  The session writes only the columns the request changed from  *)
(* what it had read, by primary key, and rows are never deleted.           *)
(***************************************************************************)
EXTENDS Naturals, FiniteSets, Sequences

CONSTANTS
    Requests,   \* API requests and capture tasks under way at once
    Users,      \* users of the tenant
    Names,      \* names of overlays
    Texts,      \* rule texts
    Tenant,     \* the owner of an overlay that every user gets
    MaxServed,  \* skills_max_per_context
    None        \* no row

Row == [text : Texts, status : {"pending", "approved"}, active : BOOLEAN]

ASSUME OverlayAssumption ==
    /\ Tenant \notin Users /\ None \notin Row
    /\ Texts \cap {"undecided", "retired"} = {}
    /\ MaxServed \in Nat \ {0}

VARIABLES
    table,      \* both overlay tables: rows by owner and name
    created,    \* the keys of the rows by created_at
    request,    \* what each request under way has read and wants
    decided,    \* history: what the owner last decided about each overlay
    raced       \* history: overlays a request changed while another held the row

overlayVars == <<table, created, request, decided, raced>>

Owners == Users \union {Tenant}
Keys == Owners \X Names

\* "undecided": nobody but a capture has touched it; "retired": deactivated.
Decision == Texts \union {"undecided", "retired"}

Idle == [op |-> "idle"]

\* Whom a captured rule is for follows from its type alone.
TenantTypes == {"business_rule", "field_mapping", "entity_alias", "tool_usage_rule",
                "safety_rule"}
UserTypes == {"workflow_default", "response_preference"}

Scope(type, u) == IF type \in TenantTypes THEN Tenant ELSE u

OverlayInit ==
    /\ table = [k \in Keys |-> None]
    /\ created = <<>>
    /\ request = [r \in Requests |-> Idle]
    /\ decided = [k \in Keys |-> "undecided"]
    /\ raced = {}

-----------------------------------------------------------------------------
(* Reading the row *)

Holds(r, op, k, text) ==
    request' = [request EXCEPT ![r] =
                    [op |-> op, key |-> k, text |-> text, row |-> table[k]]]

\* Bug: a candidate goes on although the overlay is approved.
MayCaptureAlways(k) == TRUE

\* A captured rule for the tenant is left out when the name is approved already.
MayCapture(k) ==
    \/ k[1] # Tenant
    \/ table[k] = None
    \/ table[k] # None /\ table[k].status = "pending"

\* A correction of user u was distilled into a rule with enough confidence.
BeginCapture(r, u, type, n) ==
    /\ request[r] = Idle
    /\ MayCapture(<<Scope(type, u), n>>)
    /\ \E text \in Texts : Holds(r, "capture", <<Scope(type, u), n>>, text)
    /\ UNCHANGED <<table, created, decided, raced>>

\* POST /skills/tenant/ by an administrator, /skills/user/ by the user.
BeginUpsert(r, k) ==
    /\ request[r] = Idle
    /\ \E text \in Texts : Holds(r, "upsert", k, text)
    /\ UNCHANGED <<table, created, decided, raced>>

BeginApprove(r, k) ==
    /\ request[r] = Idle /\ k[1] = Tenant
    /\ table[k] # None
    /\ Holds(r, "approve", k, table[k].text)
    /\ UNCHANGED <<table, created, decided, raced>>

BeginDeactivate(r, k) ==
    /\ request[r] = Idle
    /\ table[k] # None
    /\ Holds(r, "deactivate", k, table[k].text)
    /\ UNCHANGED <<table, created, decided, raced>>

-----------------------------------------------------------------------------
(* Committing *)

StatusOf(q) ==
    IF q.op = "capture" /\ q.key[1] = Tenant THEN "pending" ELSE "approved"

\* The row as the request wants it, given the row it read.
Wanted(q) ==
    CASE q.op = "deactivate" -> [q.row EXCEPT !.active = FALSE]
      [] q.op = "approve"    -> [q.row EXCEPT !.status = "approved", !.active = TRUE]
      [] OTHER               -> [text |-> q.text, status |-> StatusOf(q), active |-> TRUE]

\* Only the columns that differ from what was read are written.
Merge(now, read, new) ==
    [c \in DOMAIN now |-> IF new[c] # read[c] THEN new[c] ELSE now[c]]

DecisionOf(q) ==
    IF q.op = "deactivate" THEN "retired" ELSE q.text

\* A capture for the tenant decides nothing; every other request is its owner's.
Decides(q) == ~(q.op = "capture" /\ q.key[1] = Tenant)

Finish(r, k, row) ==
    /\ table' = [table EXCEPT ![k] = row]
    /\ request' = [request EXCEPT ![r] = Idle]
    /\ decided' = IF Decides(request[r])
                  THEN [decided EXCEPT ![k] = DecisionOf(request[r])]
                  ELSE decided
    /\ raced' = IF \E o \in Requests \ {r} : request[o] # Idle /\ request[o].key = k
                THEN raced \union {k} ELSE raced

CommitUpdate(r) ==
    /\ request[r] # Idle /\ request[r].row # None
    /\ LET q == request[r]
       IN  Finish(r, q.key, Merge(table[q.key], q.row, Wanted(q)))
    /\ UNCHANGED created

CommitInsert(r) ==
    /\ request[r] # Idle /\ request[r].row = None
    /\ table[request[r].key] = None
    /\ Finish(r, request[r].key, Wanted(request[r]))
    /\ created' = Append(created, request[r].key)

\* The unique constraint refuses the second insert: an error for a request of
\* the API, nothing but a log line for a capture.
InsertConflicts(r) ==
    /\ request[r] # Idle /\ request[r].row = None
    /\ table[request[r].key] # None
    /\ request' = [request EXCEPT ![r] = Idle]
    /\ UNCHANGED <<table, created, decided, raced>>

\* The client is gone, the database fails or the worker stops before the commit.
Abandon(r) ==
    /\ request[r] # Idle
    /\ request' = [request EXCEPT ![r] = Idle]
    /\ UNCHANGED <<table, created, decided, raced>>

OverlayNext ==
    \E r \in Requests :
        \/ \E u \in Users, type \in TenantTypes \union UserTypes, n \in Names :
              BeginCapture(r, u, type, n)
        \/ \E k \in Keys : \/ BeginUpsert(r, k)
                           \/ BeginApprove(r, k)
                           \/ BeginDeactivate(r, k)
        \/ CommitUpdate(r)
        \/ CommitInsert(r)
        \/ InsertConflicts(r)
        \/ Abandon(r)

OverlaySpec == OverlayInit /\ [][OverlayNext]_overlayVars

-----------------------------------------------------------------------------
(* What a turn's prompt gets: SkillService.assemble_context *)

InForce(k) ==
    table[k] # None /\ table[k].active /\ table[k].status = "approved"

\* The overlays of an owner that are in force, by their place in created.
Standing(owner) == {i \in DOMAIN created : created[i][1] = owner /\ InForce(created[i])}

\* The oldest of them, at most MaxServed.
Overlays(owner) ==
    {i \in Standing(owner) : Cardinality({j \in Standing(owner) : j < i}) < MaxServed}

\* The rules of the tenant and the user's, which one by one go into the prompt.
Prompt(u) == {created[i][2] : i \in Overlays(Tenant) \union Overlays(u)}

Listed(owner) == {n \in Names : InForce(<<owner, n>>)}

\* SkillService.load_index: at most MaxServed of each owner, in no order; the
\* user's entry replaces the tenant's of the same name.  Indexes(u) is the set
\* of maps from names to owners it may return.
Indexes(u) ==
    LET few(S) == IF Cardinality(S) <= MaxServed THEN {S}
                  ELSE {T \in SUBSET S : Cardinality(T) = MaxServed}
    IN  {[n \in T \union M |-> IF n \in M THEN u ELSE Tenant] :
            T \in few(Listed(Tenant)), M \in few(Listed(u))}

-----------------------------------------------------------------------------
(* Properties *)

\* A rule is in force, with the very text its owner last decided for, exactly
\* while that decision stands; the owner is the user, or the administrators for
\* the tenant's rules.  A capture alone puts no rule of the tenant in force,
\* takes none out of force and revives no retired one.  Where requests for one
\* overlay overlapped, its owner has at least decided about it once.  The prompt
\* of a user's turn and his index name the same rules, while none is over the limit.
InForceAsDecided ==
    /\ \A k \in Keys :
          /\ InForce(k) => decided[k] # "undecided"
          /\ k \notin raced =>
                IF decided[k] \in Texts
                THEN InForce(k) /\ table[k].text = decided[k]
                ELSE ~InForce(k)
    /\ \A u \in Users :
          (\A o \in {Tenant, u} : Cardinality(Listed(o)) <= MaxServed) =>
              \A index \in Indexes(u) : DOMAIN index = Prompt(u)

\* skill_service.py:201-203: a pending upsert does not overwrite an approved
\* overlay.
PendingNeverOverwrites ==
    [][\A r \in Requests, k \in Keys :
          /\ request[r] # Idle /\ request[r].op = "capture" /\ request'[r] = Idle
          /\ k[1] = Tenant /\ InForce(k)
          => table'[k] = table[k]]_overlayVars
=============================================================================
