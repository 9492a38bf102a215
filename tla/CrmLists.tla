------------------------------- MODULE CrmLists -------------------------------
(***************************************************************************)
(* A sum or a count over the records of the CRM                            *)
(* (app/services/crm_aggregate_service.py), read page by page              *)
(* (CRMReadService.list_module of app/services/crm_read_service.py, the    *)
(* list action of app/services/crm_client.py), while users of the CRM      *)
(* create, edit and delete records.                                        *)
(*                                                                         *)
(* The pages are addressed by offset into a list in the CRM's own order,   *)
(* the latest change first.  A row whose id is no UUID is not taken for a  *)
(* record (app/engine/record_extract.py).                                  *)
(***************************************************************************)
EXTENDS Naturals, FiniteSets, SequencesExt, Sorting

CONSTANTS
    Records,     \* records of the CRM
    Strange,     \* those whose id is no UUID
    Unpaid, Cancelled, NoStatus,  \* statuses of records; the others are paid
    NoNumber,    \* records whose amount is missing or no number
    Sources,     \* CRM modules an aggregate tries, one after the other
    PageSize,    \* 500
    MaxRead,     \* 10000
    Spellings,   \* how many spellings of a module's name a request may try
    MaxListed,   \* bound on the records of a module before a read
    MaxChanges   \* bound on the changes of records during a read

ASSUME ListAssumption ==
    /\ Sources \in Nat \ {0} /\ Spellings \in Nat \ {0}
    /\ PageSize \in Nat \ {0} /\ MaxRead \in Nat \ {0}
    /\ MaxListed \in Nat /\ MaxChanges \in Nat
    \* A record has one status.
    /\ Unpaid \cap Cancelled = {} /\ Unpaid \cap NoStatus = {} /\ Cancelled \cap NoStatus = {}

VARIABLES
    list,  \* the CRM's records of each module, in list order
    read,  \* the read: where it is and what it has
    seen   \* history of the module being read, since its first page

listVars == <<list, read, seen>>

NotReading == [pc |-> "idle", source |-> 1, offset |-> 0, got |-> <<>>, tries |-> 1]

\* What a module's list has had all the time and has ever had; how many of its
\* rows moved down and up.
Watch(m) == [stayed |-> ToSet(list[m]), ever |-> ToSet(list[m]), down |-> 0, up |-> 0]

\* What crm_aggregate_tool is asked: the user for a turnover or not; the model
\* for records of some statuses (none named: of all), with the cancelled or
\* without.  The records are read the same for all of these.
Questions ==
    [turnover : BOOLEAN, statuses : SUBSET {"paid", "unpaid", "cancelled"},
     exclude_cancelled : BOOLEAN, operation : {"count", "sum"}]

ListInit ==
    /\ list \in [1..Sources -> {s \in SeqOf(Records, MaxListed) : IsInjective(s)}]
    /\ \A m, n \in 1..Sources : m # n => ToSet(list[m]) \cap ToSet(list[n]) = {}
    /\ read = NotReading
    /\ seen = Watch(1)

-----------------------------------------------------------------------------
(* CRMReadService.list_module *)

AggregateBegins ==
    /\ read.pc = "idle"
    /\ read' = [NotReading EXCEPT !.pc = "listing"]
    /\ seen' = Watch(1)
    /\ UNCHANGED list

Size == IF PageSize < MaxRead - Len(read.got) THEN PageSize ELSE MaxRead - Len(read.got)

\* Bug: a page begins with the last record of the one before.
PageOverlapping(m) ==
    SubSeq(list[m], IF read.offset = 0 THEN 1 ELSE read.offset,
           IF read.offset + Size < Len(list[m]) THEN read.offset + Size ELSE Len(list[m]))

Page(m) == SubSeq(list[m], read.offset + 1,
                  IF read.offset + Size < Len(list[m]) THEN read.offset + Size
                  ELSE Len(list[m]))

\* _sanitize_list_response: the rows, and how many the CRM sent.
RowsOf(page) == [records |-> page, source_record_count |-> Len(page)]

Readable(rows) == Only(rows, Records \ Strange)

\* The last page has fewer records than asked for, or fewer rows.
LastPage(rows) ==
    \/ Len(Readable(rows)) < Size
    \/ Len(read.got \o Readable(rows)) >= MaxRead

\* A module that has records is the only one counted; without any the next one
\* is read, and after the last the account's overview, if the question is about
\* an account.
ModuleRead(got) ==
    \/ /\ got = <<>> /\ read.source < Sources
       /\ read' = [NotReading EXCEPT !.pc = "listing", !.source = read.source + 1]
       /\ seen' = Watch(read.source + 1)
    \/ /\ got # <<>> \/ read.source = Sources
       /\ \E pc \in {"done", "overview"} :
             /\ pc = "overview" => got = <<>>
             /\ read' = [read EXCEPT !.pc = pc, !.got = got]
       /\ UNCHANGED seen

PageArrives ==
    /\ read.pc = "listing"
    /\ LET answer == RowsOf(Page(read.source))
           records == Readable(answer.records)
       IN  IF LastPage(answer.records)
           THEN ModuleRead(read.got \o records)
           ELSE /\ read' = [read EXCEPT !.got = @ \o records, !.tries = 1,
                                        !.offset = @ + answer.source_record_count]
                /\ UNCHANGED seen
    /\ UNCHANGED list

\* _module_candidates
SpellingsLeft == Spellings - read.tries

\* 5xx: the request is sent again under the module's next spelling; any other
\* failure, or no spelling left, fails the aggregate.
PageFails ==
    /\ read.pc = "listing"
    /\ \/ /\ SpellingsLeft > 0
          /\ read' = [read EXCEPT !.tries = @ + 1]
       \/ read' = [read EXCEPT !.pc = "failed"]
    /\ UNCHANGED <<list, seen>>

\* The account's invoices as one detail request returns them.
CompanyOverview ==
    LET full == {m \in 1..Sources : list[m] # <<>>}
    IN  IF full = {} THEN <<>> ELSE list[CHOOSE m \in full : \A n \in full : n <= m]

Overview ==
    /\ read.pc = "overview"
    /\ read' = [read EXCEPT !.pc = "done", !.got = CompanyOverview]
    /\ UNCHANGED <<list, seen>>

-----------------------------------------------------------------------------
(* CRMAggregateService: what of the records read is counted *)

PaymentOf(r) ==
    CASE r \in Unpaid -> "unpaid" [] r \in Cancelled -> "cancelled"
      [] r \in NoStatus -> "none" [] OTHER -> "paid"

\* A turnover counts paid invoices unless other statuses are asked for by name.
Allowed(ask) ==
    IF ask.turnover /\ ask.statuses \subseteq {"paid"} THEN {"paid"} ELSE ask.statuses

Kept(ask, r) ==
    /\ ask.exclude_cancelled => PaymentOf(r) # "cancelled"
    /\ Allowed(ask) # {} => PaymentOf(r) \in Allowed(ask) \union {"none"}

Filtered(ask) == Only(read.got, {r \in Records : Kept(ask, r)})

\* The records a sum adds up, or a count counts.
Counted(ask) ==
    IF ask.operation = "count" THEN Filtered(ask)
    ELSE Only(Filtered(ask), Records \ NoNumber)

-----------------------------------------------------------------------------
(* Users of the CRM *)

Changing == read.pc = "listing" /\ seen.down + seen.up < MaxChanges

RecordCreated ==
    /\ Changing
    /\ \E r \in Records :
          /\ \A m \in 1..Sources : r \notin ToSet(list[m])
          /\ list' = [list EXCEPT ![read.source] = <<r>> \o @]
          /\ seen' = [seen EXCEPT !.down = @ + 1, !.ever = @ \union {r}]
    /\ UNCHANGED read

RecordDeleted ==
    /\ Changing
    /\ \E i \in DOMAIN list[read.source] :
          /\ list' = [list EXCEPT ![read.source] = RemoveAt(@, i)]
          /\ seen' = [seen EXCEPT !.up = @ + 1, !.stayed = @ \ {list[read.source][i]}]
    /\ UNCHANGED read

RecordEdited ==
    /\ Changing
    /\ \E i \in DOMAIN list[read.source] :
          /\ list' = [list EXCEPT ![read.source] = <<@[i]>> \o RemoveAt(@, i)]
          /\ seen' = [seen EXCEPT !.down = @ + 1, !.up = @ + 1]
    /\ UNCHANGED read

ListNext ==
    \/ AggregateBegins \/ PageArrives \/ PageFails \/ Overview
    \/ RecordCreated \/ RecordDeleted \/ RecordEdited

ListSpec == ListInit /\ [][ListNext]_listVars

-----------------------------------------------------------------------------
(* Properties *)

\* What the answer should count of a set of records.  A status that is missing
\* never excludes a record.
ToCount(ask, S) ==
    {r \in S :
        /\ ask.exclude_cancelled => r \notin Cancelled
        /\ ask.turnover /\ ask.statuses = {} => r \notin Unpaid \union Cancelled
        /\ ask.statuses # {} =>
              /\ r \in Unpaid => "unpaid" \in ask.statuses
              /\ r \in Cancelled => "cancelled" \in ask.statuses
              /\ r \notin Unpaid \union Cancelled \union NoStatus => "paid" \in ask.statuses
        /\ ask.operation = "sum" => r \notin NoNumber}

\* While records are created, edited and deleted between two pages, a count or
\* a sum takes a record twice at most once for every record that moved up the
\* list, and misses one at most once for every record that left its place; with
\* an unchanged list it is exact.  Two things alone cut it short: the limit,
\* and a row that is not taken for a record, at whose page the reading ends.
\* What counts is what was asked for: the statuses named, and for a turnover
\* that names none the paid invoices.
CountedOnce ==
    read.pc = "done" => \A ask \in Questions :
        LET counted == ToSet(Counted(ask))
        IN  /\ Len(Counted(ask)) <= Cardinality(counted) + seen.down
            /\ counted \subseteq ToCount(ask, Records)
            /\ \/ Len(read.got) >= MaxRead
               \/ seen.ever \cap Strange # {}
               \/ Cardinality(ToCount(ask, seen.stayed) \ counted) <= seen.up
=============================================================================
