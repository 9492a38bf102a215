----------------------------- MODULE Turns_proofs -----------------------------
(***************************************************************************)
(* What a turn is given, and what it leaves behind: five components that   *)
(* share no state, each with an inductive invariant of its own.            *)
(*                                                                         *)
(* A write is executed as it was confirmed, and a call ends where its name *)
(* and its target say (ToolSets).  A rule is in force as its owner decided *)
(* (SkillOverlays).  The agent hears of one record (TurnContext).  After   *)
(* any series of replies a proposal is what the replies say (PendingEdits).*)
(* What users do to a chat's row outlives every overlapping turn (Chats).  *)
(* For any requests, users, contents, records, manifests and times.        *)
(***************************************************************************)
EXTENDS Chats, PendingEdits, TurnContext, ToolSets, SkillOverlays, FiniteSetTheorems, TLAPS

-----------------------------------------------------------------------------
(* Chats.  The name is read when a request loads the chat and written when it  *)
(* commits; that a deleted chat stays away rests on the row's lock             *)
(* (HolderWrites): whoever writes found the row after taking the lock.         *)

ChatKinds == {"none", "turn", "patch", "put", "delete"}
ChatStages == {"idle", "loaded", "writing"} \union Ended
ChatNames == UserNames \union {Generated, Topic, NoName}
RequestRecords ==
    [kind : ChatKinds, pc : ChatStages, name : ChatNames, wanted : UserNames \union {NoName}]

ChatTypeInv ==
    /\ row \in [exists : BOOLEAN, name : ChatNames, messages : SUBSET ChatRequests]
    /\ holder \in ChatRequests \union {NoOne}
    /\ requests \in [ChatRequests -> RequestRecords]
    /\ named \in BOOLEAN /\ removed \in BOOLEAN

\* Who is writing holds the row's lock, and all but a deletion found the row.
HolderWrites ==
    \A r \in ChatRequests :
        requests[r].pc = "writing" =>
            holder = r /\ (requests[r].kind # "delete" => row.exists)

\* A turn that loaded the chat while it had no name.
Titling(r) == requests[r].kind = "turn" /\ requests[r].name = NoName
IdleIsNone == \A r \in ChatRequests : requests[r].pc = "idle" <=> requests[r].kind = "none"

NameKept ==
    named => \/ row.name \in UserNames
             \/ row.name \in {Generated, Topic} /\ \E r \in ChatRequests : Titling(r)

GoneForGood == removed => ~row.exists /\ row.messages = {}

ChatInv == ChatTypeInv /\ HolderWrites /\ IdleIsNone /\ NameKept /\ GoneForGood

LEMMA ChatInitInv == ChatsInit => ChatInv
<1> SUFFICES ASSUME ChatsInit PROVE ChatInv
  OBVIOUS
<1>1. NoRequest \in RequestRecords /\ NoRequest.pc = "idle" /\ NoRequest.kind = "none"
  BY DEF NoRequest, RequestRecords, ChatKinds, ChatStages, ChatNames
<1>2. \A r \in ChatRequests : requests[r] = NoRequest
  BY DEF ChatsInit
<1>3. row \in [exists : BOOLEAN, name : ChatNames, messages : SUBSET ChatRequests]
  BY DEF ChatsInit, ChatNames
<1>4. ChatTypeInv
  BY <1>1, <1>3 DEF ChatsInit, ChatTypeInv
<1>5. HolderWrites /\ IdleIsNone
  BY <1>1, <1>2 DEF HolderWrites, IdleIsNone
<1> QED
  BY <1>4, <1>5 DEF ChatsInit, ChatInv, NameKept, GoneForGood

-----------------------------------------------------------------------------

\* A request's stage changes, and nothing else of it.
LEMMA StageStep ==
    ASSUME ChatTypeInv, NEW r \in ChatRequests, NEW pc \in ChatStages, Stage(r, pc)
    PROVE  /\ requests' \in [ChatRequests -> RequestRecords]
           /\ requests'[r].pc = pc
           /\ \A q \in ChatRequests : q # r => requests'[q] = requests[q]
           /\ \A q \in ChatRequests : /\ requests'[q].kind = requests[q].kind
                                      /\ requests'[q].name = requests[q].name
BY DEF ChatTypeInv, Stage, RequestRecords

\* No step but loading makes a turn forget what it loaded.
LEMMA TitlingKept ==
    ASSUME \A q \in ChatRequests : /\ requests'[q].kind = requests[q].kind
                                   /\ requests'[q].name = requests[q].name
    PROVE  \A q \in ChatRequests : Titling(q)' <=> Titling(q)
BY DEF Titling

LEMMA CreatedStep ==
    ASSUME ChatInv, ChatCreated
    PROVE  ChatInv'
<1>1. PICK name \in UserNames \union {NoName} :
         row' = [exists |-> TRUE, name |-> name, messages |-> {}] /\ named' = (name # NoName)
  BY DEF ChatCreated
<1>2. UNCHANGED <<holder, requests, removed>> /\ ~removed /\ ~row.exists
  BY DEF ChatCreated
<1>3. ChatTypeInv'
  BY <1>1, <1>2 DEF ChatInv, ChatTypeInv, ChatNames
<1>4. HolderWrites' /\ IdleIsNone'
  BY <1>1, <1>2 DEF ChatInv, HolderWrites, IdleIsNone
<1>5. NameKept' /\ GoneForGood'
  BY <1>1, <1>2 DEF NameKept, GoneForGood
<1> QED
  BY <1>3, <1>4, <1>5 DEF ChatInv

LEMMA LoadsStep ==
    ASSUME ChatInv, NEW r \in ChatRequests, RequestLoads(r)
    PROVE  ChatInv'
<1>1. PICK kind \in {"turn", "patch", "put", "delete"}, wanted \in UserNames \union {NoName} :
         requests' = [requests EXCEPT ![r] =
            [kind |-> kind, pc |-> IF row.exists THEN "loaded" ELSE "404",
             name |-> row.name, wanted |-> wanted]]
  BY DEF RequestLoads
<1>2. UNCHANGED <<holder, row, named, removed>> /\ requests[r].pc = "idle"
  BY DEF RequestLoads
<1>3. ChatTypeInv'
  BY <1>1, <1>2 DEF ChatInv, ChatTypeInv, RequestRecords, ChatKinds, ChatStages, Ended, ChatNames
<1>4. /\ requests'[r].pc \in {"loaded", "404"} /\ requests'[r].kind # "none"
      /\ \A q \in ChatRequests : q # r => requests'[q] = requests[q]
  BY <1>1 DEF ChatInv, ChatTypeInv
<1>5. HolderWrites' /\ IdleIsNone'
  BY <1>2, <1>4 DEF ChatInv, HolderWrites, IdleIsNone
<1>6. ~Titling(r)
  BY <1>2 DEF ChatInv, IdleIsNone, Titling
<1>7. NameKept' /\ GoneForGood'
  BY <1>2, <1>4, <1>6 DEF ChatInv, NameKept, GoneForGood, Titling
<1> QED
  BY <1>3, <1>5, <1>7 DEF ChatInv

LEMMA LockedStep ==
    ASSUME ChatInv, NEW r \in ChatRequests, RowLocked(r)
    PROVE  ChatInv'
<1> DEFINE found == row.exists \/ requests[r].kind = "delete"
           pc == IF found THEN "writing" ELSE "500"
<1>1. UNCHANGED <<row, named, removed>> /\ holder = NoOne /\ requests[r].pc = "loaded"
  BY DEF RowLocked
<1>2. Stage(r, pc) /\ holder' = IF found THEN r ELSE holder
  BY DEF RowLocked
<1>3. pc \in ChatStages
  BY DEF ChatStages, Ended
<1>4. /\ requests' \in [ChatRequests -> RequestRecords] /\ requests'[r].pc = pc
      /\ \A q \in ChatRequests : q # r => requests'[q] = requests[q]
      /\ \A q \in ChatRequests : /\ requests'[q].kind = requests[q].kind
                                 /\ requests'[q].name = requests[q].name
  BY <1>2, <1>3, StageStep DEF ChatInv
<1>5. ChatTypeInv'
  BY <1>1, <1>2, <1>4 DEF ChatInv, ChatTypeInv
<1>6. \A q \in ChatRequests : requests[q].pc # "writing"
  BY <1>1, ChatsAssumption DEF ChatInv, HolderWrites
<1>7. HolderWrites' /\ IdleIsNone'
  BY <1>1, <1>2, <1>4, <1>6 DEF ChatInv, HolderWrites, IdleIsNone
<1>8. NameKept' /\ GoneForGood'
  BY <1>1, <1>4, TitlingKept DEF ChatInv, NameKept, GoneForGood
<1> QED
  BY <1>5, <1>7, <1>8 DEF ChatInv

\* What a transaction writes keeps a user's name, or gives way to it.
LEMMA WrittenName ==
    ASSUME ChatInv, NEW r \in ChatRequests, NEW answer \in {Generated, NoName},
           requests[r].kind \in {"turn", "patch", "put"}
    PROVE  \/ Written(r, answer) = row.name
           \/ /\ requests[r].kind \in {"patch", "put"}
              /\ Written(r, answer) \in UserNames \union {NoName}
           \/ Titling(r) /\ Written(r, answer) \in {Generated, Topic}
<1>1. requests[r].wanted \in UserNames \union {NoName}
  BY DEF ChatInv, ChatTypeInv, RequestRecords
<1>2. CASE requests[r].kind = "turn"
  BY <1>2 DEF Written, Title, NewTitle, Titling
<1>3. CASE requests[r].kind = "patch"
  BY <1>1, <1>3 DEF Written
<1>4. CASE requests[r].kind = "put"
  BY <1>1, <1>4 DEF Written
<1> QED
  BY <1>2, <1>3, <1>4

LEMMA CommitsStep ==
    ASSUME ChatInv, NEW r \in ChatRequests, RequestCommits(r)
    PROVE  ChatInv'
<1>1. PICK answer \in {Generated, NoName} :
         row' = [row EXCEPT !.name = Written(r, answer), !.messages = MessagesOf(r)]
  BY DEF RequestCommits
<1>2. /\ requests[r].pc = "writing" /\ requests[r].kind # "delete"
      /\ holder' = NoOne /\ Stage(r, "done") /\ removed' = removed
      /\ named' = IF requests[r].kind \in {"patch", "put"} /\ row'.name # row.name
                  THEN row'.name # NoName ELSE named
  BY DEF RequestCommits
<1>3. row.exists
  BY <1>2 DEF ChatInv, HolderWrites
<1>4. row.name \in ChatNames /\ row.messages \subseteq ChatRequests /\ MessagesOf(r) \subseteq ChatRequests
  BY DEF ChatInv, ChatTypeInv, MessagesOf
<1>5. "done" \in ChatStages
  BY DEF ChatStages, Ended
<1>6. /\ requests' \in [ChatRequests -> RequestRecords] /\ requests'[r].pc = "done"
      /\ \A q \in ChatRequests : q # r => requests'[q] = requests[q]
      /\ \A q \in ChatRequests : /\ requests'[q].kind = requests[q].kind
                                 /\ requests'[q].name = requests[q].name
  BY <1>2, <1>5, StageStep DEF ChatInv
<1>7. \A q \in ChatRequests : q # r => requests[q].pc # "writing"
  BY <1>2 DEF ChatInv, HolderWrites
<1>8. HolderWrites' /\ IdleIsNone'
  BY <1>2, <1>6, <1>7 DEF ChatInv, HolderWrites, IdleIsNone
<1>9. ~removed
  BY <1>3 DEF ChatInv, GoneForGood
<1>10. row'.name = Written(r, answer) /\ row'.exists = row.exists /\ row'.messages = MessagesOf(r)
  BY <1>1 DEF ChatInv, ChatTypeInv
<1>11. requests[r].kind \in {"turn", "patch", "put"}
  BY <1>2 DEF ChatInv, ChatTypeInv, RequestRecords, ChatKinds, IdleIsNone
<1>12. \/ row'.name = row.name
       \/ requests[r].kind \in {"patch", "put"} /\ row'.name \in UserNames \union {NoName}
       \/ Titling(r) /\ row'.name \in {Generated, Topic}
  BY <1>10, <1>11, WrittenName
<1>13. ChatTypeInv'
  <2>1. row' \in [exists : BOOLEAN, name : ChatNames, messages : SUBSET ChatRequests]
    BY <1>1, <1>4, <1>10, <1>12 DEF ChatInv, ChatTypeInv, ChatNames
  <2>2. named' \in BOOLEAN
    BY <1>2 DEF ChatInv, ChatTypeInv
  <2> QED
    BY <1>2, <1>6, <2>1, <2>2 DEF ChatInv, ChatTypeInv
<1>14. NameKept'
  <2> SUFFICES ASSUME named'
               PROVE  \/ row'.name \in UserNames
                      \/ row'.name \in {Generated, Topic} /\ \E q \in ChatRequests : Titling(q)'
    BY DEF NameKept
  <2>0. \A q \in ChatRequests : Titling(q)' <=> Titling(q)
    BY <1>6, TitlingKept
  <2>1. CASE row'.name = row.name
    <3>1. named
      BY <1>2, <2>1
    <3> QED
      BY <2>0, <2>1, <3>1 DEF ChatInv, NameKept
  <2>2. CASE Titling(r) /\ row'.name \in {Generated, Topic}
    BY <2>0, <2>2
  <2>3. CASE /\ requests[r].kind \in {"patch", "put"} /\ row'.name # row.name
             /\ row'.name \in UserNames \union {NoName}
    BY <1>2, <2>3
  <2> QED
    BY <1>12, <2>1, <2>2, <2>3
<1>15. GoneForGood'
  BY <1>2, <1>9 DEF GoneForGood
<1> QED
  BY <1>8, <1>13, <1>14, <1>15 DEF ChatInv

LEMMA DeletedStep ==
    ASSUME ChatInv, NEW r \in ChatRequests, ChatDeleted(r)
    PROVE  ChatInv'
<1>1. /\ requests[r].pc = "writing" /\ holder' = NoOne /\ Stage(r, "done")
      /\ row' = [exists |-> FALSE, name |-> NoName, messages |-> {}]
      /\ named' = FALSE /\ removed' = TRUE
  BY DEF ChatDeleted
<1>2. "done" \in ChatStages
  BY DEF ChatStages, Ended
<1>3. /\ requests' \in [ChatRequests -> RequestRecords] /\ requests'[r].pc = "done"
      /\ \A q \in ChatRequests : q # r => requests'[q] = requests[q]
      /\ \A q \in ChatRequests : /\ requests'[q].kind = requests[q].kind
                                 /\ requests'[q].name = requests[q].name
  BY <1>1, <1>2, StageStep DEF ChatInv
<1>4. ChatTypeInv'
  BY <1>1, <1>3 DEF ChatInv, ChatTypeInv, ChatNames
<1>5. \A q \in ChatRequests : q # r => requests[q].pc # "writing"
  BY <1>1 DEF ChatInv, HolderWrites
<1>6. HolderWrites' /\ IdleIsNone'
  BY <1>1, <1>3, <1>5 DEF ChatInv, HolderWrites, IdleIsNone
<1>7. NameKept' /\ GoneForGood'
  BY <1>1 DEF NameKept, GoneForGood
<1> QED
  BY <1>4, <1>6, <1>7 DEF ChatInv

LEMMA FailsStep ==
    ASSUME ChatInv, NEW r \in ChatRequests, RequestFails(r)
    PROVE  ChatInv'
<1>1. /\ requests[r].pc \in {"loaded", "writing"} /\ Stage(r, "500")
      /\ holder' = IF holder = r THEN NoOne ELSE holder
      /\ UNCHANGED <<row, named, removed>>
  BY DEF RequestFails
<1>2. "500" \in ChatStages
  BY DEF ChatStages, Ended
<1>3. /\ requests' \in [ChatRequests -> RequestRecords] /\ requests'[r].pc = "500"
      /\ \A q \in ChatRequests : q # r => requests'[q] = requests[q]
      /\ \A q \in ChatRequests : /\ requests'[q].kind = requests[q].kind
                                 /\ requests'[q].name = requests[q].name
  BY <1>1, <1>2, StageStep DEF ChatInv
<1>4. ChatTypeInv'
  BY <1>1, <1>3 DEF ChatInv, ChatTypeInv
<1>5. HolderWrites' /\ IdleIsNone'
  BY <1>1, <1>3 DEF ChatInv, HolderWrites, IdleIsNone
<1>6. NameKept' /\ GoneForGood'
  BY <1>1, <1>3, TitlingKept DEF ChatInv, NameKept, GoneForGood
<1> QED
  BY <1>4, <1>5, <1>6 DEF ChatInv

-----------------------------------------------------------------------------

LEMMA ChatStepInv == ChatInv /\ [ChatsNext]_chatVars => ChatInv'
<1> SUFFICES ASSUME ChatInv, [ChatsNext]_chatVars PROVE ChatInv'
  OBVIOUS
<1>1. CASE ChatCreated
  BY <1>1, CreatedStep
<1>2. ASSUME NEW r \in ChatRequests,
             RequestLoads(r) \/ RowLocked(r) \/ RequestCommits(r) \/ ChatDeleted(r) \/ RequestFails(r)
      PROVE  ChatInv'
  BY <1>2, LoadsStep, LockedStep, CommitsStep, DeletedStep, FailsStep
<1>3. CASE UNCHANGED chatVars
  BY <1>3 DEF chatVars, ChatInv, ChatTypeInv, HolderWrites, IdleIsNone, NameKept, GoneForGood, Titling
<1> QED
  BY <1>1, <1>2, <1>3 DEF ChatsNext

\* A name a user gave gives way to a generated one only in a turn that loaded the
\* chat while it had none, and a deleted chat stays away (app/api/endpoints.py,
\* app/services/chat_titles.py).
THEOREM UserHasTheLastWord == ChatsSpec => []NamedByUserGoneForGood
<1>1. ChatInv => NamedByUserGoneForGood
  BY DEF ChatInv, NameKept, GoneForGood, Titling, NamedByUserGoneForGood
<1> QED
  BY <1>1, ChatInitInv, ChatStepInv, PTL DEF ChatsSpec

-----------------------------------------------------------------------------
(* PendingEdits.  What a shown proposal satisfies does not survive an edit:    *)
(* between the edit and the CRM's preview the end is missing, or was derived   *)
(* from the same start and length (EndDerivable).                              *)

Proposals ==
    [module : Modules, verb : Verbs, tool : BOOLEAN, start : Nat, length : Nat \X Nat,
     end : Nat \union {Unset}, description : Descriptions \union {Unset},
     moved : BOOLEAN, pc : {"shown", "patched", "agent"}]

AsWished ==
    /\ proposal.start = wished.start /\ proposal.length = wished.length
    /\ proposal.description = wished.description

EndDerivable ==
    /\ proposal.end \in {Unset, EndsAt(proposal)}
    /\ proposal.pc = "shown" /\ proposal.tool /\ Timed => proposal.end # Unset

EditInv == proposal \in Proposals /\ AsWished /\ EndDerivable

LEMMA WrittenAreNumbers ==
    /\ \A daypart \in Dayparts : daypart \in Nat
    /\ \A hours \in WrittenHours : hours \in Nat
    /\ \A minutes \in WrittenMinutes : minutes \in Nat
BY EditAssumption

LEMMA ClockIsTime ==
    ASSUME NEW clock \in Clocks
    PROVE  ClockRead(clock) \in Nat
<1>1. clock \in Nat
  BY EditAssumption
<1>2. clock \div 100 \in Nat /\ clock % 100 \in Nat
  BY <1>1
<1>3. \A m, n \in Nat : Least(m, n) \in Nat
  BY DEF Least
<1>4. Least(23, clock \div 100) \in Nat /\ Least(59, clock % 100) \in Nat
  BY <1>2, <1>3
<1>5. \A m, n \in Nat : 60 * m + n \in Nat
  OBVIOUS
<1> QED
  BY <1>4, <1>5 DEF ClockRead

\* What the replies are read to say are a time of day and a length.
LEMMA ReadsAreNumbers ==
    ASSUME NEW reply \in Replies
    PROVE  /\ StartRead(reply) \in Nat \union {Unset}
           /\ LengthRead(reply) \in (Nat \X Nat) \union {Unset}
           /\ reply.description \in Descriptions \union {Unset}
<1>1. /\ reply.clock \in Clocks \union {Unset} /\ reply.daypart \in Dayparts \union {Unset}
      /\ reply.hours \in WrittenHours \union {Unset}
      /\ reply.minutes \in WrittenMinutes \union {Unset}
      /\ reply.description \in Descriptions \union {Unset}
  BY DEF Replies
<1>2. \A m, n \in Nat : Least(m, n) \in Nat
  BY DEF Least
<1>3. StartRead(reply) \in Nat \union {Unset}
  <2>1. CASE reply.clock # Unset
    BY <1>1, <2>1, ClockIsTime DEF StartRead
  <2>2. CASE reply.clock = Unset
    <3>1. reply.daypart \in Nat \union {Unset}
      BY <1>1, WrittenAreNumbers
    <3> QED
      BY <2>2, <3>1 DEF StartRead
  <2> QED
    BY <2>1, <2>2
<1>4. LengthRead(reply) \in (Nat \X Nat) \union {Unset}
  <2>1. CASE reply.hours # Unset
    <3>1. reply.hours \in Nat
      BY <1>1, <2>1, WrittenAreNumbers
    <3>2. Least(12, reply.hours) \in Nat
      BY <1>2, <3>1
    <3> QED
      BY <2>1, <3>2 DEF LengthRead
  <2>2. CASE reply.hours = Unset /\ reply.minutes # Unset
    <3>1. reply.minutes \in Nat
      BY <1>1, <2>2, WrittenAreNumbers
    <3>2. Least(59, reply.minutes) \in Nat
      BY <1>2, <3>1
    <3> QED
      BY <2>2, <3>2 DEF LengthRead
  <2>3. CASE reply.hours = Unset /\ reply.minutes = Unset
    BY <2>3 DEF LengthRead
  <2> QED
    BY <2>1, <2>2, <2>3
<1> QED
  BY <1>1, <1>3, <1>4

LEMMA EndIsNumber ==
    ASSUME NEW p \in Proposals
    PROVE  EndsAt(p) \in Nat
<1>1. p.start \in Nat /\ p.length[1] \in Nat /\ p.length[2] \in Nat
  BY DEF Proposals
<1> QED
  BY <1>1 DEF EndsAt

\* What the CRM makes of a proposal: a meeting's end follows, the rest stays.
LEMMA EndDerived ==
    ASSUME NEW p \in Proposals, p.end \in {Unset, EndsAt(p)}
    PROVE  /\ DerivedEnd(p) \in Proposals
           /\ DerivedEnd(p).end \in {Unset, EndsAt(p)}
           /\ p.module = "Meetings" => DerivedEnd(p).end = EndsAt(p)
           /\ DerivedEnd(p).start = p.start /\ DerivedEnd(p).length = p.length
           /\ DerivedEnd(p).description = p.description
           /\ DerivedEnd(p).module = p.module /\ DerivedEnd(p).tool = p.tool
<1>1. EndsAt(p) \in Nat /\ Unset \notin Nat
  BY EndIsNumber, EditAssumption
<1>2. CASE p.module = "Meetings" /\ p.end = Unset
  <2>1. DerivedEnd(p) = [p EXCEPT !.end = EndsAt(p)]
    BY <1>2 DEF DerivedEnd
  <2> QED
    BY <1>1, <2>1 DEF Proposals
<1>3. CASE ~(p.module = "Meetings" /\ p.end = Unset)
  BY <1>3 DEF DerivedEnd
<1> QED
  BY <1>2, <1>3

LEMMA EditInitInv == EditsInit => EditInv
<1> SUFFICES ASSUME EditsInit PROVE EditInv
  OBVIOUS
<1>1. PICK module \in Modules, verb \in Verbs, tool \in BOOLEAN, moved \in BOOLEAN,
           start \in Starts, length \in Lengths, description \in Descriptions :
          proposal = DerivedEnd([module |-> module, verb |-> verb, tool |-> tool,
                                 start |-> start, length |-> length, end |-> Unset,
                                 description |-> description, moved |-> moved,
                                 pc |-> "shown"])
  BY DEF EditsInit
<1> DEFINE p == [module |-> module, verb |-> verb, tool |-> tool, start |-> start,
                 length |-> length, end |-> Unset, description |-> description,
                 moved |-> moved, pc |-> "shown"]
<1>2. start \in Nat /\ length \in Nat \X Nat
  <2>1. \A clock \in Clocks : ClockRead(clock) \in Nat
    BY ClockIsTime
  <2>2. start \in Nat
    BY <2>1, WrittenAreNumbers DEF Starts
  <2>3. length \in Nat \X Nat
    BY WrittenAreNumbers DEF Lengths
  <2> QED
    BY <2>2, <2>3
<1>3. p \in Proposals /\ p.end = Unset
  BY <1>2 DEF Proposals
<1>4. proposal = DerivedEnd(p)
  BY <1>1
<1>5. EndsAt(proposal) = EndsAt(p)
  <2>1. proposal.start = p.start /\ proposal.length = p.length
    BY <1>3, <1>4, EndDerived
  <2> QED
    BY <2>1 DEF EndsAt
<1> HIDE DEF p
<1>6. /\ proposal \in Proposals /\ proposal.end \in {Unset, EndsAt(proposal)}
      /\ Timed => proposal.end # Unset
  BY <1>3, <1>4, <1>5, EndDerived, EndIsNumber, EditAssumption DEF Timed
<1>7. AsWished
  BY DEF EditsInit, AsWished
<1> QED
  BY <1>6, <1>7 DEF EditInv, EndDerivable

LEMMA EditStep ==
    ASSUME EditInv, ReplyEdits
    PROVE  EditInv'
<1>1. PICK reply \in Replies :
         /\ proposal' = Edited(reply)
         /\ wished' = [start |-> IF Timed THEN Given(StartRead(reply), wished.start)
                                         ELSE wished.start,
                       length |-> IF Timed THEN Given(LengthRead(reply), wished.length)
                                           ELSE wished.length,
                       description |-> Given(reply.description, wished.description)]
  BY DEF ReplyEdits
<1>2. proposal \in Proposals /\ proposal.pc = "shown"
  BY DEF EditInv, ReplyEdits
<1>3. /\ Start(reply) \in Nat /\ Length(reply) \in Nat \X Nat
      /\ Description(reply) \in Descriptions \union {Unset}
  <2>1. proposal.start \in Nat /\ proposal.length \in Nat \X Nat
        /\ proposal.description \in Descriptions \union {Unset}
    BY <1>2 DEF Proposals
  <2> QED
    BY <2>1, ReadsAreNumbers DEF Start, Length, Description, Given
<1>4. End(reply) \in Nat \union {Unset}
  BY <1>2 DEF End, Proposals
<1>5. /\ proposal'.start = Start(reply) /\ proposal'.length = Length(reply)
      /\ proposal'.end = End(reply) /\ proposal'.description = Description(reply)
      /\ proposal'.module = proposal.module /\ proposal'.tool = proposal.tool
      /\ proposal'.pc = IF proposal.tool THEN "patched" ELSE "shown"
  BY <1>1, <1>2 DEF Edited, Proposals
<1>6. proposal' \in Proposals
  <2>1. Moves(reply) \in BOOLEAN
    BY DEF Moves
  <2>2. PICK moved \in BOOLEAN, pc \in {"shown", "patched"} :
          proposal' = [proposal EXCEPT !.start = Start(reply), !.length = Length(reply),
                                       !.end = End(reply), !.description = Description(reply),
                                       !.moved = moved, !.pc = pc]
    <3>1. (proposal.moved \/ Moves(reply)) \in BOOLEAN
      OBVIOUS
    <3> QED
      BY <1>1, <3>1 DEF Edited
  <2> QED
    BY <1>2, <1>3, <1>4, <2>2 DEF Proposals
<1>7. AsWished'
  BY <1>1, <1>5 DEF EditInv, AsWished, Start, Length, Description
<1>8. End(reply) \in {Unset, EndsAt(proposal')}
  <2>1. CASE Moves(reply) \/ proposal.moved
    BY <2>1 DEF End
  <2>2. CASE ~(Moves(reply) \/ proposal.moved)
    <3>1. EndsAt(proposal') = EndsAt(proposal)
      BY <1>5, <2>2 DEF Moves, EndsAt
    <3> QED
      BY <2>2, <3>1 DEF End, EditInv, EndDerivable
  <2> QED
    BY <2>1, <2>2
<1>9. EndDerivable'
  BY <1>5, <1>8 DEF EndDerivable
<1> QED
  BY <1>6, <1>7, <1>9 DEF EditInv

\* The agent has the turn: after a reply that is no edit or a preview that failed.
LEMMA AgentStep ==
    ASSUME EditInv, ReplyGoesToAgent \/ CrmRefuses
    PROVE  EditInv'
<1>1. proposal' = [proposal EXCEPT !.pc = "agent"] /\ wished' = wished /\ proposal \in Proposals
  BY DEF EditInv, ReplyGoesToAgent, CrmRefuses
<1>2. /\ proposal' \in Proposals /\ proposal'.pc = "agent" /\ proposal'.end = proposal.end
      /\ proposal'.start = proposal.start /\ proposal'.length = proposal.length
      /\ proposal'.description = proposal.description
  BY <1>1 DEF Proposals
<1>3. EndsAt(proposal') = EndsAt(proposal)
  BY <1>2 DEF EndsAt
<1> QED
  BY <1>1, <1>2, <1>3 DEF EditInv, AsWished, EndDerivable

LEMMA ShowStep ==
    ASSUME EditInv, CrmShows
    PROVE  EditInv'
<1>1. /\ proposal \in Proposals /\ wished' = wished
      /\ proposal' = [DerivedEnd(proposal) EXCEPT !.pc = "shown", !.moved = FALSE]
      /\ proposal.end \in {Unset, EndsAt(proposal)}
  BY DEF EditInv, EndDerivable, CrmShows
<1> DEFINE p == DerivedEnd(proposal)
<1>2. /\ p \in Proposals /\ p.end \in {Unset, EndsAt(proposal)}
      /\ proposal.module = "Meetings" => p.end = EndsAt(proposal)
      /\ p.start = proposal.start /\ p.length = proposal.length
      /\ p.description = proposal.description /\ p.module = proposal.module
  BY <1>1, EndDerived
<1>3. proposal' = [p EXCEPT !.pc = "shown", !.moved = FALSE]
  BY <1>1
<1> HIDE DEF p
<1>4. /\ proposal' \in Proposals /\ proposal'.end = p.end
      /\ proposal'.start = proposal.start /\ proposal'.length = proposal.length
      /\ proposal'.description = proposal.description /\ proposal'.module = proposal.module
  BY <1>2, <1>3 DEF Proposals
<1>5. EndsAt(proposal') = EndsAt(proposal)
  BY <1>4 DEF EndsAt
<1>6. EndsAt(proposal) # Unset
  BY <1>1, EndIsNumber, EditAssumption
<1>7. AsWished'
  BY <1>1, <1>4 DEF EditInv, AsWished
<1>8. EndDerivable'
  BY <1>2, <1>4, <1>5, <1>6 DEF EndDerivable, Timed
<1> QED
  BY <1>4, <1>7, <1>8 DEF EditInv

\* After any series of replies to a proposed write the proposal the user sees holds
\* what was last read from a reply, and a meeting that names an end ends its length
\* after it starts, as every one does that the CRM previewed
\* (app/engine/pending_patch.py).
THEOREM EditsAsWished == EditsSpec => []EditedAsWished
<1>1. EditInv => EditedAsWished
  BY DEF EditInv, AsWished, EndDerivable, EditedAsWished
<1>2. EditInv /\ [EditsNext]_editVars => EditInv'
  <2> SUFFICES ASSUME EditInv, [EditsNext]_editVars PROVE EditInv'
    OBVIOUS
  <2>1. CASE UNCHANGED editVars
    BY <2>1 DEF editVars, EditInv, AsWished, EndDerivable, Timed, EndsAt
  <2> QED
    BY <2>1, EditStep, AgentStep, ShowStep DEF EditsNext
<1> QED
  BY <1>1, <1>2, EditInitInv, PTL DEF EditsSpec

-----------------------------------------------------------------------------
(* TurnContext.  What the chat says of a field is taken only while the field is *)
(* empty, so two messages could each fill some fields of one record.  They do   *)
(* not: what a created record says names it in all of them, and what a pending  *)
(* action says names a contact, with its module (Merged).                       *)

AllFields == ContextFields \union {"contact_id", "meeting_id", "picked"}
Actions == {<<>>} \union {<<p>> : p \in Contacts \union {Unknown}}

\* The context once the created record and the pending action are in it.
Merged(asked, c) ==
    /\ DOMAIN c = AllFields /\ c = [f \in AllFields |-> c[f]] /\ c.picked = Unknown
    /\ \A f \in ContextFields : asked[f] # Unknown => c[f] = asked[f]
    /\ asked.record = Unknown /\ asked.record_id = Unknown =>
           /\ c.record_id \in {Unknown, c.record}
           /\ c.record_name \in {Unknown, c.record}
           /\ c.record # Unknown => c.record_module = ModuleOf(c.record)

ContextInv ==
    /\ history \in Seq(Answers) /\ waiting \in Actions
    /\ stage \in {"idle", "begun", "merged", "ready"}
    /\ stage = "begun" => context = screen.context /\ context \in Screens
    /\ stage = "merged" => Merged(screen.context, context)
    /\ OneRecordOnScreen

LEMMA ContextInitInv == ContextInit => ContextInv
<1> SUFFICES ASSUME ContextInit PROVE ContextInv
  OBVIOUS
<1>1. history \in Seq(Answers)
  BY DEF ContextInit
<1> QED
  BY <1>1 DEF ContextInit, ContextInv, Actions, OneRecordOnScreen

\* A message's pending action is of a meeting, and names a contact or nobody.
LEMMA PendingOfAnswer == \A m \in Answers : m.pending \in Actions
BY DEF Answers, Plain, Actions

LEMMA ModulesKnown == \A i : ModuleOf(i) # Unknown /\ "Contacts" # Unknown /\ "Meetings" # Unknown
BY ContextAssumption DEF ModuleOf

\* What the front end sends names a record under one key, or no record.
LEMMA ScreenFields ==
    ASSUME NEW c \in Screens
    PROVE  /\ DOMAIN c = AllFields /\ c = [f \in AllFields |-> c[f]]
           /\ c.picked = Unknown /\ c.record_module = Unknown /\ c.record_name = Unknown
<1>1. \/ c = Blank
      \/ \E m \in {"Contacts", "Meetings"} : c = [Blank EXCEPT !.module = m]
      \/ \E i \in Ids, key \in {"record", "record_id"} :
            c = Shows(i, key)
  BY DEF Screens
<1> QED
  BY <1>1 DEF Shows, Blank, AllFields, ContextFields

LEMMA FilledFields ==
    ASSUME NEW c, DOMAIN c = AllFields, NEW said
    PROVE  /\ DOMAIN Filled(c, said) = AllFields
           /\ Filled(c, said) = [f \in AllFields |-> Filled(c, said)[f]]
           /\ \A f \in AllFields :
                 /\ f \in DOMAIN said => Filled(c, said)[f] = First(c[f], said[f])
                 /\ f \notin DOMAIN said => Filled(c, said)[f] = c[f]
BY DEF Filled

\* After the created record: either nothing is known of a record the front end
\* did not name, or all of one.
LEMMA CreatedMerged ==
    ASSUME NEW asked \in Screens, NEW id
    PROVE  LET c == WithCreated(asked, id)
           IN  /\ DOMAIN c = AllFields /\ c = [f \in AllFields |-> c[f]] /\ c.picked = Unknown
               /\ \A f \in ContextFields : asked[f] # Unknown => c[f] = asked[f]
               /\ asked.record = Unknown /\ asked.record_id = Unknown =>
                     \/ /\ c.record = Unknown /\ c.record_id = Unknown
                        /\ c.record_name = Unknown /\ c.record_module = Unknown
                     \/ /\ id # Unknown /\ c.record = id /\ c.record_id = id
                        /\ c.record_name = id /\ c.record_module = ModuleOf(id)
<1> DEFINE said == [module |-> ModuleOf(id), record_module |-> ModuleOf(id), record |-> id,
                    record_id |-> id, record_name |-> id,
                    meeting_id |-> IF id \in Contacts THEN Unknown ELSE id]
           c == WithCreated(asked, id)
<1>1. /\ DOMAIN asked = AllFields /\ asked = [f \in AllFields |-> asked[f]]
      /\ asked.picked = Unknown /\ asked.record_module = Unknown /\ asked.record_name = Unknown
  BY ScreenFields
<1>2. CASE c = asked
  BY <1>1, <1>2
<1>3. CASE c = Filled(asked, said) /\ id # Unknown
  <2>1. DOMAIN said = {"module", "record_module", "record", "record_id", "record_name", "meeting_id"}
    OBVIOUS
  <2>2. /\ DOMAIN c = AllFields /\ c = [f \in AllFields |-> c[f]]
        /\ \A f \in AllFields : /\ f \in DOMAIN said => c[f] = First(asked[f], said[f])
                                /\ f \notin DOMAIN said => c[f] = asked[f]
    <3> HIDE DEF said
    <3> QED
      BY <1>1, <1>3, FilledFields
  <2>3. c.picked = Unknown /\ \A f \in ContextFields : asked[f] # Unknown => c[f] = asked[f]
    BY <1>1, <2>1, <2>2 DEF AllFields, ContextFields, First
  <2>4. /\ c.record = First(asked.record, id) /\ c.record_id = First(asked.record_id, id)
        /\ c.record_name = First(asked.record_name, id)
        /\ c.record_module = First(asked.record_module, ModuleOf(id))
    BY <2>1, <2>2 DEF AllFields, ContextFields
  <2> HIDE DEF c, said
  <2>5. asked.record = Unknown /\ asked.record_id = Unknown =>
           /\ id # Unknown /\ c.record = id /\ c.record_id = id
           /\ c.record_name = id /\ c.record_module = ModuleOf(id)
    BY <1>1, <1>3, <2>4 DEF First
  <2> QED
    BY <2>2, <2>3, <2>5 DEF c
<1>4. c = asked \/ (c = Filled(asked, said) /\ id # Unknown)
  BY DEF WithCreated
<1> QED
  BY <1>2, <1>3, <1>4

LEMMA BothMerged ==
    ASSUME NEW asked \in Screens, NEW id, NEW action \in Actions
    PROVE  Merged(asked, Together(asked, id, action))
<1> DEFINE b == WithCreated(asked, id)
           c == WithPending(b, action)
<1>1. /\ DOMAIN b = AllFields /\ b = [f \in AllFields |-> b[f]] /\ b.picked = Unknown
      /\ \A f \in ContextFields : asked[f] # Unknown => b[f] = asked[f]
      /\ asked.record = Unknown /\ asked.record_id = Unknown =>
            \/ /\ b.record = Unknown /\ b.record_id = Unknown
               /\ b.record_name = Unknown /\ b.record_module = Unknown
            \/ /\ id # Unknown /\ b.record = id /\ b.record_id = id
               /\ b.record_name = id /\ b.record_module = ModuleOf(id)
  BY CreatedMerged
<1> HIDE DEF b
<1>2. CASE action = <<>>
  <2>1. c = b
    BY <1>2 DEF WithPending
  <2>2. Merged(asked, b)
    BY <1>1 DEF Merged
  <2> QED
    BY <2>1, <2>2 DEF Together, b
<1>3. CASE action # <<>>
  <2>1. PICK parent \in Contacts \union {Unknown} : action = <<parent>>
    BY <1>3 DEF Actions
  <2> DEFINE said == [module |-> "Meetings", record |-> parent, contact_id |-> parent,
                      record_module |-> IF parent = Unknown THEN Unknown ELSE "Contacts"]
  <2>2. c = Filled(b, said)
    BY <1>3, <2>1 DEF WithPending
  <2>3. DOMAIN said = {"module", "record", "contact_id", "record_module"}
    OBVIOUS
  <2>4. /\ DOMAIN c = AllFields /\ c = [f \in AllFields |-> c[f]]
        /\ \A f \in AllFields : /\ f \in DOMAIN said => c[f] = First(b[f], said[f])
                                /\ f \notin DOMAIN said => c[f] = b[f]
    <3> HIDE DEF said, c
    <3> QED
      BY <1>1, <2>2, FilledFields
  <2>5. c.picked = Unknown /\ \A f \in ContextFields : asked[f] # Unknown => c[f] = asked[f]
    BY <1>1, <2>3, <2>4 DEF AllFields, ContextFields, First
  <2>6. /\ c.record = First(b.record, parent) /\ c.record_id = b.record_id
        /\ c.record_name = b.record_name
        /\ c.record_module = First(b.record_module,
                                   IF parent = Unknown THEN Unknown ELSE "Contacts")
    BY <2>3, <2>4 DEF AllFields, ContextFields
  <2>7. parent # Unknown => ModuleOf(parent) = "Contacts"
    BY DEF ModuleOf
  <2> HIDE DEF c
  <2>8. asked.record = Unknown /\ asked.record_id = Unknown =>
           /\ c.record_id \in {Unknown, c.record} /\ c.record_name \in {Unknown, c.record}
           /\ c.record # Unknown => c.record_module = ModuleOf(c.record)
    BY <1>1, <2>6, <2>7, ModulesKnown DEF First
  <2> QED
    BY <2>4, <2>5, <2>8 DEF Merged, Together, b, c
<1> QED
  BY <1>2, <1>3

\* What the user picks is named in every field, or nothing is picked.
LEMMA PickedOnScreen ==
    ASSUME NEW asked, NEW c, Merged(asked, c), NEW id
    PROVE  LET p == WithPicked(c, id)
           IN  IF p.picked # Unknown
               THEN /\ {p.record, p.record_id, p.record_name} = {p.picked}
                    /\ {p.module, p.record_module} = {ModuleOf(p.picked)}
               ELSE p = c
<1>1. CASE id = Unknown
  BY <1>1 DEF WithPicked, Merged
<1>2. CASE id # Unknown
  <2> DEFINE said == [module |-> ModuleOf(id), record_module |-> ModuleOf(id), record |-> id,
                      record_id |-> id, record_name |-> id, picked |-> id,
                      contact_id |-> IF id \in Contacts THEN id ELSE c.contact_id]
             p == WithPicked(c, id)
  <2>1. p = [f \in DOMAIN c |-> IF f \in DOMAIN said THEN said[f] ELSE c[f]]
    BY <1>2 DEF WithPicked
  <2>2. \A f \in DOMAIN said : f \in AllFields /\ p[f] = said[f]
    BY <2>1 DEF Merged, AllFields, ContextFields
  <2>3. /\ p.module = ModuleOf(id) /\ p.record_module = ModuleOf(id) /\ p.record = id
        /\ p.record_id = id /\ p.record_name = id /\ p.picked = id
    <3> HIDE DEF p
    <3> QED
      BY <2>2
  <2> HIDE DEF p
  <2>4. IF p.picked # Unknown
        THEN /\ {p.record, p.record_id, p.record_name} = {p.picked}
             /\ {p.module, p.record_module} = {ModuleOf(p.picked)}
        ELSE p = c
    BY <1>2, <2>3
  <2> QED
    BY <2>4 DEF p
<1> QED
  BY <1>1, <1>2

LEMMA ContextStepInv == ContextInv /\ [ContextNext]_contextVars => ContextInv'
<1> SUFFICES ASSUME ContextInv, [ContextNext]_contextVars PROVE ContextInv'
  OBVIOUS
<1>1. CASE MessageStored
  <2>1. history' \in Seq(Answers)
    BY <1>1 DEF MessageStored, ContextInv
  <2> QED
    BY <1>1, <2>1 DEF MessageStored, ContextInv, OneRecordOnScreen
<1>2. CASE HistoryReplaced
  <2>1. history' \in Seq(Answers)
    BY <1>2 DEF HistoryReplaced
  <2> QED
    BY <1>2, <2>1 DEF HistoryReplaced, ContextInv, OneRecordOnScreen
<1>3. CASE ContextBegins
  <2>1. LatestPending \in Actions
    <3>1. CASE history = <<>>
      BY <3>1 DEF LatestPending, Actions
    <3>2. CASE history # <<>>
      <4>1. Head(history) \in Answers
        BY <3>2 DEF ContextInv
      <4> QED
        BY <3>2, <4>1, PendingOfAnswer DEF LatestPending
    <3> QED
      BY <3>1, <3>2
  <2>2. screen'.context = context' /\ context' \in Screens
    BY <1>3 DEF ContextBegins
  <2> QED
    BY <1>3, <2>1, <2>2 DEF ContextBegins, ContextInv, OneRecordOnScreen
<1>4. CASE CreatedLoaded
  <2>1. screen.context \in Screens /\ context = screen.context /\ waiting \in Actions
    BY <1>4 DEF CreatedLoaded, ContextInv
  <2>2. (IF screen.readOnly THEN <<>> ELSE waiting) \in Actions
    BY <2>1 DEF Actions
  <2>3. Merged(screen.context, context')
    BY <1>4, <2>1, <2>2, BothMerged DEF CreatedLoaded
  <2> QED
    BY <1>4, <2>3 DEF CreatedLoaded, ContextInv, OneRecordOnScreen
<1>5. CASE ListLoaded
  <2>1. Merged(screen.context, context)
    BY <1>5 DEF ListLoaded, ContextInv
  <2>2. IF context'.picked # Unknown
        THEN /\ {context'.record, context'.record_id, context'.record_name} = {context'.picked}
             /\ {context'.module, context'.record_module} = {ModuleOf(context'.picked)}
        ELSE context' = context
    BY <1>5, <2>1, PickedOnScreen DEF ListLoaded
  <2>3. screen' = screen /\ stage' = "ready" /\ UNCHANGED <<history, waiting>>
    BY <1>5 DEF ListLoaded
  <2>4. OneRecordOnScreen'
    BY <2>1, <2>2, <2>3 DEF OneRecordOnScreen, Merged
  <2> QED
    BY <2>3, <2>4 DEF ContextInv
<1>6. CASE AgentWrites
  BY <1>6 DEF AgentWrites, ContextInv, OneRecordOnScreen
<1>7. CASE ContextTurnEnds
  BY <1>7 DEF ContextTurnEnds, ContextInv, OneRecordOnScreen, Actions
<1>8. CASE UNCHANGED contextVars
  BY <1>8 DEF contextVars, ContextInv, OneRecordOnScreen
<1> QED
  BY <1>1, <1>2, <1>3, <1>4, <1>5, <1>6, <1>7, <1>8 DEF ContextNext

\* The agent is told of one record, whatever the front end sent and the chat holds
\* (process_input_core of app/engine/pipeline.py, app/services/chat_service.py).
THEOREM OneRecordTold == ContextSpec => []OneRecordOnScreen
<1>1. ContextInv => OneRecordOnScreen
  BY DEF ContextInv
<1> QED
  BY <1>1, ContextInitInv, ContextStepInv, PTL DEF ContextSpec

-----------------------------------------------------------------------------
(* ToolSets.  Every step of a turn sets what the turn has sent, so what is said *)
(* of a call follows from the step itself, once it is known which proposal      *)
(* waits: the last one the user has seen, of a tool of the CRM's (ProposalSeen).*)

SomeText == CHOOSE text \in Contents : TRUE
ArgRecords == [verb : {"create", "update"}, record : {"none", "open", "other"},
               old : BOOLEAN, text : Contents \union {SomeText}]
Previewed == [tool : CrmNames, args : ArgRecords, token : Nat]
SentCalls == [tool : CrmNames \union Reserved, args : ArgRecords,
              to : {"form", "preview", "execute", "gateway"}, token : Nat \union {Nil}]
TurnRecords ==
    [pc : {"idle", "agent", "ended"}, manifest : Manifests \union {Nil},
     specs : SUBSET CrmNames, offered : SUBSET (CrmNames \union Reserved),
     enabled : SUBSET {"crm", "form", "web", "custom"}, form : {"none", "record", "new"},
     purpose : {"chat", "extraction", "research", "recommendation"},
     sent : SentCalls \union {Nil}]

ToolTypeInv ==
    /\ turn \in TurnRecords
    /\ pending \in Previewed \union {Nil}
    /\ shown \in Previewed \union {Nil}

ProposalSeen == pending # Nil => pending = shown

ToolInv == ToolTypeInv /\ ProposalSeen /\ WritesAsConfirmed /\ AimedAsNamed

LEMMA ToolInitInv == ToolSetInit => ToolInv
BY DEF ToolSetInit, NoTurn, ToolInv, ToolTypeInv, TurnRecords, ProposalSeen, WritesAsConfirmed,
       AimedAsNamed

\* A turn offers tools of its manifest or of the gateway, never one for another.
LEMMA ToolsOfTurn ==
    ASSUME NEW manifest \in Manifests \union {Nil},
           NEW enabled \in SUBSET {"crm", "form", "web", "custom"}, NEW natives, NEW all,
           natives = Natives(enabled),
           all = natives \union ContactTool(CrmTools(manifest, enabled, natives)),
           NEW purpose \in {"chat", "extraction", "research", "recommendation"}
    PROVE  /\ CrmTools(manifest, enabled, natives) \subseteq CrmNames
           /\ Offered(purpose, manifest, CrmTools(manifest, enabled, natives), all)
                 \subseteq CrmNames \union Reserved
<1>1. natives \subseteq Reserved
  BY DEF Natives, ToolNames, Reserved
<1>2. CrmTools(manifest, enabled, natives) \subseteq CrmNames
  <2>1. CASE manifest = Nil
    BY <2>1 DEF CrmTools
  <2>2. CASE manifest # Nil
    <3>1. manifest.tools \subseteq CrmNames \union Reserved
      BY <2>2 DEF Manifests, CrmNames
    <3> QED
      BY <2>2, <3>1 DEF CrmTools
  <2> QED
    BY <2>1, <2>2
<1>3. all \subseteq Reserved
  BY <1>1 DEF ContactTool, Reserved
<1>4. Offered(purpose, manifest, CrmTools(manifest, enabled, natives), all)
         \subseteq CrmTools(manifest, enabled, natives) \union all
  BY DEF Offered, ExtractionTools, ResearchTools, AdviceTools
<1> QED
  BY <1>2, <1>3, <1>4

LEMMA BeginsStep ==
    ASSUME ToolInv, NEW manifest \in Manifests \union {Nil},
           NEW enabled \in SUBSET {"crm", "form", "web", "custom"},
           NEW purpose \in {"chat", "extraction", "research", "recommendation"},
           NEW form \in {"none", "record", "new"}, Begins(purpose, manifest, enabled, form)
    PROVE  ToolInv'
<1> DEFINE natives == Natives(enabled)
           specs == CrmTools(manifest, enabled, natives)
           all == natives \union ContactTool(specs)
<1>1. specs \subseteq CrmNames /\ Offered(purpose, manifest, specs, all) \subseteq CrmNames \union Reserved
  BY ToolsOfTurn
<1>2. /\ turn' = [pc |-> "agent", manifest |-> manifest, specs |-> specs,
                  offered |-> Offered(purpose, manifest, specs, all),
                  enabled |-> enabled, form |-> form, purpose |-> purpose, sent |-> Nil]
      /\ UNCHANGED <<pending, shown>>
  BY DEF Begins
<1> HIDE DEF specs, all
<1>3. turn' \in TurnRecords /\ turn'.sent = Nil
  BY <1>1, <1>2 DEF TurnRecords
<1> QED
  BY <1>2, <1>3 DEF ToolInv, ToolTypeInv, ProposalSeen, WritesAsConfirmed, AimedAsNamed

\* What a call or a reply of the user leaves in the record of the turn.
LEMMA SentFields ==
    ASSUME ToolTypeInv, NEW tool \in CrmNames \union Reserved, NEW args \in ArgRecords,
           NEW to \in {"form", "preview", "execute", "gateway"}, NEW token \in Nat \union {Nil},
           Sent(tool, args, to, token)
    PROVE  /\ turn' \in TurnRecords
           /\ turn'.sent = [tool |-> tool, args |-> args, to |-> to, token |-> token]
           /\ turn'.manifest = turn.manifest /\ turn'.enabled = turn.enabled
           /\ turn'.form = turn.form /\ turn'.purpose = turn.purpose
<1> DEFINE call == [tool |-> tool, args |-> args, to |-> to, token |-> token]
           next == IF to = "preview" THEN "ended" ELSE "agent"
<1>1. call \in SentCalls /\ next \in {"idle", "agent", "ended"}
  BY DEF SentCalls
<1>2. turn' = [turn EXCEPT !.pc = next, !.sent = call]
  BY DEF Sent
<1> HIDE DEF call, next
<1>3. /\ turn' \in TurnRecords /\ turn'.sent = call
      /\ turn'.manifest = turn.manifest /\ turn'.enabled = turn.enabled
      /\ turn'.form = turn.form /\ turn'.purpose = turn.purpose
  BY <1>1, <1>2 DEF ToolTypeInv, TurnRecords
<1> QED
  BY <1>3 DEF call

\* A preview becomes the proposal, and the last one the user has seen.
LEMMA PreviewsStep ==
    ASSUME ToolTypeInv, ProposalSeen, NEW tool \in CrmNames, NEW args \in ArgRecords,
           Previews(tool, args)
    PROVE  /\ pending' \in Previewed \union {Nil} /\ shown' \in Previewed \union {Nil}
           /\ ProposalSeen'
<1>1. Token \in Nat
  BY DEF Token, ToolTypeInv, Previewed
<1>2. \A text \in Contents :
        [tool |-> tool, args |-> [args EXCEPT !.text = text], token |-> Token] \in Previewed
  <2> SUFFICES ASSUME NEW text \in Contents PROVE [args EXCEPT !.text = text] \in ArgRecords
    BY <1>1 DEF Previewed
  <2> QED
    BY DEF ArgRecords
<1>3. shown' = shown \/ shown' \in Previewed
  BY <1>2 DEF Previews
<1>4. pending' = IF shown' = shown THEN pending ELSE shown'
  BY DEF Previews
<1> QED
  BY <1>3, <1>4 DEF ToolTypeInv, ProposalSeen

\* The gateway answers, the form shows, the CRM previews or executes.
LEMMA CalledStep ==
    ASSUME ToolInv, NEW tool \in CrmNames, NEW args \in ArgRecords, CrmToolCalled(tool, args)
    PROVE  ToolInv'
<1>1. tool \in CrmNames \union Reserved /\ tool \notin Reserved
  BY DEF CrmNames, Reserved
<1>2. CASE Redirected(tool, args)
  <2>1. Sent(tool, args, "form", Nil) /\ UNCHANGED <<pending, shown>>
    BY <1>2 DEF CrmToolCalled, AsFormPatch
  <2>2. /\ turn' \in TurnRecords
        /\ turn'.sent = [tool |-> tool, args |-> args, to |-> "form", token |-> Nil]
        /\ turn'.enabled = turn.enabled /\ turn'.form = turn.form
    BY <1>1, <2>1, SentFields DEF ToolInv
  <2>3. args.verb = "update" => args.record # "other"
    BY <1>2 DEF Redirected, AimsAtForm, Target
  <2>4. AimedAsNamed' /\ WritesAsConfirmed'
    BY <1>1, <2>2, <2>3 DEF AimedAsNamed, WritesAsConfirmed
  <2> QED
    BY <2>1, <2>2, <2>4 DEF ToolInv, ToolTypeInv, ProposalSeen
<1>3. CASE ~Redirected(tool, args) /\ NeedsConfirmation(turn.manifest, tool)
  <2>1. Sent(tool, args, "preview", Nil) /\ Previews(tool, args)
    BY <1>3 DEF CrmToolCalled
  <2>2. /\ turn' \in TurnRecords
        /\ turn'.sent = [tool |-> tool, args |-> args, to |-> "preview", token |-> Nil]
        /\ turn'.enabled = turn.enabled /\ turn'.form = turn.form
    BY <1>1, <2>1, SentFields DEF ToolInv
  <2>3. /\ pending' \in Previewed \union {Nil} /\ shown' \in Previewed \union {Nil}
        /\ ProposalSeen'
    BY <2>1, PreviewsStep DEF ToolInv
  <2>4. tool = "crm_action_tool" /\ "form" \in turn.enabled =>
           ~ \/ args.verb = "update" /\ args.record = "open" /\ turn.form = "record"
             \/ args.verb = "create" /\ turn.form = "new"
    BY <1>3 DEF Redirected, AimsAtForm, Target
  <2>5. AimedAsNamed' /\ WritesAsConfirmed'
    BY <1>1, <2>2, <2>4 DEF AimedAsNamed, WritesAsConfirmed
  <2> QED
    BY <2>2, <2>3, <2>5 DEF ToolInv, ToolTypeInv
<1>4. CASE ~Redirected(tool, args) /\ ~NeedsConfirmation(turn.manifest, tool)
  <2>1. Sent(tool, args, "execute", Nil) /\ UNCHANGED <<pending, shown>>
    BY <1>4 DEF CrmToolCalled
  <2>2. /\ turn' \in TurnRecords
        /\ turn'.sent = [tool |-> tool, args |-> args, to |-> "execute", token |-> Nil]
        /\ turn'.manifest = turn.manifest
    BY <1>1, <2>1, SentFields DEF ToolInv
  <2>3. tool \in turn.manifest.reads
    BY <1>4 DEF NeedsConfirmation
  <2>4. AimedAsNamed' /\ WritesAsConfirmed'
    BY <1>1, <2>2, <2>3 DEF AimedAsNamed, WritesAsConfirmed
  <2> QED
    BY <2>1, <2>2, <2>4 DEF ToolInv, ToolTypeInv, ProposalSeen
<1> QED
  BY <1>2, <1>3, <1>4

LEMMA GatewayStep ==
    ASSUME ToolInv, NEW tool \in CrmNames \union Reserved, NEW args \in ArgRecords,
           GatewayAnswers(tool, args)
    PROVE  ToolInv'
<1>1. Sent(tool, args, "gateway", Nil) /\ UNCHANGED <<pending, shown>>
  BY DEF GatewayAnswers
<1>2. /\ turn' \in TurnRecords
      /\ turn'.sent = [tool |-> tool, args |-> args, to |-> "gateway", token |-> Nil]
  BY <1>1, SentFields DEF ToolInv
<1>3. AimedAsNamed' /\ WritesAsConfirmed'
  BY <1>2 DEF AimedAsNamed, WritesAsConfirmed
<1> QED
  BY <1>1, <1>2, <1>3 DEF ToolInv, ToolTypeInv, ProposalSeen

LEMMA ArgsAreRecords ==
    /\ \A tool \in CrmNames \union Reserved : ArgsOf(tool) \subseteq ArgRecords
    /\ \A text \in Contents :
          [verb |-> "create", record |-> "other", old |-> FALSE, text |-> text] \in ArgRecords
<1>1. Args \subseteq ArgRecords
  BY DEF Args, ArgRecords, SomeText
<1>2. \A tool \in CrmNames \union Reserved : ArgsOf(tool) \subseteq Args
  BY DEF ArgsOf
<1> QED
  BY <1>1, <1>2 DEF ArgRecords

\* What is executed with a token is the proposal, which is what was shown.
LEMMA ConfirmsStep ==
    ASSUME ToolInv, UserConfirms
    PROVE  ToolInv'
<1>1. pending \in Previewed /\ pending = shown /\ turn \in TurnRecords /\ turn.purpose = "chat"
  BY DEF UserConfirms, ToolInv, ToolTypeInv, ProposalSeen
<1>2. pending' = Nil /\ shown' = shown
  BY DEF UserConfirms
<1> DEFINE sent == IF turn.manifest # Nil /\ pending.tool \in turn.manifest.tools
                   THEN [tool |-> pending.tool, args |-> pending.args,
                         to |-> "execute", token |-> pending.token]
                   ELSE Nil
<1>3. sent \in SentCalls \union {Nil}
  BY <1>1 DEF Previewed, SentCalls
<1>4. turn' = [turn EXCEPT !.pc = "ended", !.sent = sent]
  BY DEF UserConfirms
<1>5. turn' \in TurnRecords /\ turn'.sent = sent /\ turn'.purpose = "chat"
  <2> HIDE DEF sent
  <2> QED
    BY <1>1, <1>3, <1>4 DEF TurnRecords
<1>6. pending.token # Nil /\ pending.tool \notin Reserved
  BY <1>1, ToolSetAssumption DEF Previewed, CrmNames, Reserved
<1>7. WritesAsConfirmed' /\ AimedAsNamed'
  BY <1>1, <1>2, <1>5, <1>6 DEF WritesAsConfirmed, AimedAsNamed
<1> QED
  BY <1>1, <1>2, <1>5, <1>7 DEF ToolInv, ToolTypeInv, ProposalSeen

\* An edit is shown again, or the old proposal stays.
LEMMA EditsStep ==
    ASSUME ToolInv, UserEdits
    PROVE  ToolInv'
<1>1. PICK text \in Contents : EditAndPreview([pending.args EXCEPT !.text = text])
  BY DEF UserEdits
<1>2. pending \in Previewed /\ turn \in TurnRecords
  BY DEF UserEdits, ToolInv, ToolTypeInv
<1>3. pending.tool \in CrmNames /\ pending.args \in ArgRecords
  BY <1>2 DEF Previewed
<1>4. [pending.args EXCEPT !.text = text] \in ArgRecords
  BY <1>3 DEF ArgRecords
<1>5. /\ pending' \in Previewed \union {Nil} /\ shown' \in Previewed \union {Nil}
      /\ ProposalSeen'
  <2>1. CASE UNCHANGED <<pending, shown>>
    BY <2>1 DEF ToolInv, ToolTypeInv, ProposalSeen
  <2>2. CASE Previews(pending.tool, [pending.args EXCEPT !.text = text])
    BY <1>3, <1>4, <2>2, PreviewsStep DEF ToolInv
  <2> QED
    BY <1>1, <2>1, <2>2 DEF EditAndPreview
<1>6. turn' = [turn EXCEPT !.pc = "ended", !.sent = Nil]
  BY DEF UserEdits
<1>7. turn' \in TurnRecords /\ turn'.sent = Nil
  BY <1>2, <1>6 DEF TurnRecords
<1> QED
  BY <1>5, <1>7 DEF ToolInv, ToolTypeInv, WritesAsConfirmed, AimedAsNamed

LEMMA ToolStepInv == ToolInv /\ [ToolSetNext]_toolVars => ToolInv'
<1> SUFFICES ASSUME ToolInv, [ToolSetNext]_toolVars PROVE ToolInv'
  OBVIOUS
<1>1. ASSUME NEW manifest \in Manifests \union {Nil},
             TurnBegins(manifest) \/ RecommendActions(manifest) \/ ExtractFields(manifest)
               \/ ResearchCompany(manifest)
      PROVE  ToolInv'
  <2>1. ASSUME NEW requested
        PROVE  Enabled(manifest, requested) \in SUBSET {"crm", "form", "web", "custom"}
    BY DEF Enabled, Manifests
  <2>2. CASE TurnBegins(manifest)
    BY <2>1, <2>2, BeginsStep DEF TurnBegins
  <2>3. CASE RecommendActions(manifest)
    BY <2>3, BeginsStep DEF RecommendActions
  <2>4. CASE ExtractFields(manifest)
    BY <2>4, BeginsStep DEF ExtractFields
  <2>5. CASE ResearchCompany(manifest)
    BY <2>5, BeginsStep DEF ResearchCompany
  <2> QED
    BY <1>1, <2>2, <2>3, <2>4, <2>5
<1>2. CASE AgentCalls
  <2>0. PICK tool \in turn.offered : \E args \in ArgsOf(tool) :
           \/ tool \in turn.specs /\ CrmToolCalled(tool, args)
           \/ GatewayAnswers(tool, args)
    BY <1>2 DEF AgentCalls
  <2>1. PICK args \in ArgsOf(tool) : \/ tool \in turn.specs /\ CrmToolCalled(tool, args)
                                    \/ GatewayAnswers(tool, args)
    BY <2>0
  <2>2. tool \in CrmNames \union Reserved /\ turn.specs \subseteq CrmNames
    BY <2>0 DEF ToolInv, ToolTypeInv, TurnRecords
  <2>3. args \in ArgRecords
    BY <2>1, <2>2, ArgsAreRecords
  <2> QED
    BY <2>1, <2>2, <2>3, CalledStep, GatewayStep
<1>3. CASE FormFieldsProposed
  <2>0. PICK tool \in ExtractionTools(turn.specs) :
           \E args \in ArgsOf(tool) : CrmToolCalled(tool, args)
    BY <1>3 DEF FormFieldsProposed
  <2>1. PICK args \in ArgsOf(tool) : CrmToolCalled(tool, args)
    BY <2>0
  <2>2. tool \in CrmNames
    BY <2>0 DEF ExtractionTools, CrmNames
  <2>3. args \in ArgRecords
    BY <2>1, <2>2, ArgsAreRecords
  <2> QED
    BY <2>1, <2>2, <2>3, CalledStep
<1>4. CASE ContactsPrepared
  <2>1. PICK text \in Contents :
           CrmToolCalled("crm_action_tool",
                         [verb |-> "create", record |-> "other", old |-> FALSE, text |-> text])
    BY <1>4 DEF ContactsPrepared
  <2>2. "crm_action_tool" \in CrmNames
    BY DEF CrmNames
  <2> QED
    BY <2>1, <2>2, ArgsAreRecords, CalledStep
<1>5. CASE UserConfirms
  BY <1>5, ConfirmsStep
<1>6. CASE UserEdits
  BY <1>6, EditsStep
<1>7. CASE TurnEnds
  BY <1>7 DEF TurnEnds, NoTurn, ToolInv, ToolTypeInv, TurnRecords, ProposalSeen,
              WritesAsConfirmed, AimedAsNamed
<1>8. CASE UNCHANGED toolVars
  BY <1>8 DEF toolVars, ToolInv, ToolTypeInv, ProposalSeen, WritesAsConfirmed, AimedAsNamed
<1> QED
  BY <1>1, <1>2, <1>3, <1>4, <1>5, <1>6, <1>7, <1>8 DEF ToolSetNext

\* Without the user's word the CRM executes only what its manifest declares
\* read-only, and with it exactly the call the user has seen last
\* (app/tools/crm_provider.py, app/engine/pipeline.py).
THEOREM WritesConfirmed == ToolSetSpec => []WritesAsConfirmed
<1>1. ToolInv => WritesAsConfirmed
  BY DEF ToolInv
<1> QED
  BY <1>1, ToolInitInv, ToolStepInv, PTL DEF ToolSetSpec

\* Names of the gateway's own never reach the CRM, and a write meant for the open
\* record, or for another one, ends where it was meant to (app/tools/toolset.py).
THEOREM CallsAimed == ToolSetSpec => []AimedAsNamed
<1>1. ToolInv => AimedAsNamed
  BY DEF ToolInv
<1> QED
  BY <1>1, ToolInitInv, ToolStepInv, PTL DEF ToolSetSpec

-----------------------------------------------------------------------------
(* SkillOverlays.  A commit writes the columns a request changed from what it   *)
(* had read.  While an overlay has not been raced, what its requests have read  *)
(* is what is there (ReadAsIs), so the merge is the row the request wants; and  *)
(* whatever raced, an approval is never written without a decision (Standings). *)

Ops == {"capture", "upsert", "approve", "deactivate"}
Rows == Row \union {None}
Holding == [op : Ops, key : Keys, text : Texts, row : Rows]

OverlayTypeInv ==
    /\ table \in [Keys -> Rows]
    /\ created \in Seq(Keys)
    /\ request \in [Requests -> Holding \union {Idle}]
    /\ decided \in [Keys -> Decision]

\* The rows by age: every row once.
CreatedRows ==
    /\ \A i, j \in 1..Len(created) : created[i] = created[j] => i = j
    /\ \A k \in Keys : table[k] # None <=> \E i \in 1..Len(created) : created[i] = k

\* What a request may hold of its row; rows are never deleted.
HeldOf(q) ==
    /\ q.op \in {"approve", "deactivate"} => q.row # None
    /\ q.op = "approve" => q.text = q.row.text
    /\ q.op = "capture" /\ q.key[1] = Tenant => q.row = None \/ q.row.status = "pending"
    /\ q.row # None => table[q.key] # None

Held == \A r \in Requests : request[r] # Idle => HeldOf(request[r])

ReadAsIs ==
    \A r \in Requests :
        request[r] # Idle /\ request[r].key \notin raced => request[r].row = table[request[r].key]

StandingOf(k) ==
    /\ table[k] # None /\ table[k].status = "approved" => decided[k] # "undecided"
    /\ k \notin raced =>
          IF decided[k] \in Texts THEN InForce(k) /\ table[k].text = decided[k] ELSE ~InForce(k)

Standings == \A k \in Keys : StandingOf(k)

OverlayInv == OverlayTypeInv /\ CreatedRows /\ Held /\ ReadAsIs /\ Standings

LEMMA IdleApart == \A q \in Holding : q # Idle /\ q.op # "idle"
BY DEF Holding, Ops, Idle

LEMMA OverlayInitInv == OverlayInit => OverlayInv
<1> SUFFICES ASSUME OverlayInit PROVE OverlayInv
  OBVIOUS
<1>1. OverlayTypeInv
  BY DEF OverlayInit, OverlayTypeInv, Rows, Decision
<1>2. CreatedRows
  BY DEF OverlayInit, CreatedRows
<1>3. Held /\ ReadAsIs
  BY DEF OverlayInit, Held, ReadAsIs
<1>4. Standings
  BY OverlayAssumption DEF OverlayInit, Standings, StandingOf, InForce
<1> QED
  BY <1>1, <1>2, <1>3, <1>4 DEF OverlayInv

-----------------------------------------------------------------------------
(* A request begins, or goes without a commit.                                 *)

LEMMA HoldsStep ==
    ASSUME OverlayInv, NEW r \in Requests, NEW op \in Ops, NEW k \in Keys, NEW text \in Texts,
           Holds(r, op, k, text), UNCHANGED <<table, created, decided, raced>>,
           op \in {"approve", "deactivate"} => table[k] # None,
           op = "approve" => text = table[k].text,
           op = "capture" /\ k[1] = Tenant => table[k] = None \/ table[k].status = "pending"
    PROVE  OverlayInv'
<1> DEFINE new == [op |-> op, key |-> k, text |-> text, row |-> table[k]]
<1>1. new \in Holding /\ new.op = op /\ new.key = k /\ new.text = text /\ new.row = table[k]
  BY DEF Holding, OverlayInv, OverlayTypeInv
<1>2. request' = [request EXCEPT ![r] = new]
  BY DEF Holds
<1> HIDE DEF new
<1>3. OverlayTypeInv'
  BY <1>1, <1>2 DEF OverlayInv, OverlayTypeInv
<1>4. \A o \in Requests : request'[o] = IF o = r THEN new ELSE request[o]
  BY <1>2 DEF OverlayInv, OverlayTypeInv
<1>5. HeldOf(new)
  BY <1>1 DEF HeldOf
<1>6. Held'
  BY <1>4, <1>5 DEF OverlayInv, Held, HeldOf
<1>7. ReadAsIs'
  BY <1>1, <1>4 DEF OverlayInv, ReadAsIs
<1>8. CreatedRows' /\ Standings'
  BY DEF OverlayInv, CreatedRows, Standings, StandingOf, InForce
<1> QED
  BY <1>3, <1>6, <1>7, <1>8 DEF OverlayInv

LEMMA GoneStep ==
    ASSUME OverlayInv, NEW r \in Requests, request' = [request EXCEPT ![r] = Idle],
           UNCHANGED <<table, created, decided, raced>>
    PROVE  OverlayInv'
<1>1. OverlayTypeInv'
  BY DEF OverlayInv, OverlayTypeInv
<1>2. \A o \in Requests : request'[o] = IF o = r THEN Idle ELSE request[o]
  BY DEF OverlayInv, OverlayTypeInv
<1>3. Held' /\ ReadAsIs'
  BY <1>2 DEF OverlayInv, Held, HeldOf, ReadAsIs
<1>4. CreatedRows' /\ Standings'
  BY DEF OverlayInv, CreatedRows, Standings, StandingOf, InForce
<1> QED
  BY <1>1, <1>3, <1>4 DEF OverlayInv

-----------------------------------------------------------------------------
(* A request commits.                                                          *)

LEMMA WantedRow ==
    ASSUME OverlayInv, NEW r \in Requests, request[r] # Idle
    PROVE  /\ request[r] \in Holding /\ HeldOf(request[r])
           /\ Wanted(request[r]) \in Row
           /\ DecisionOf(request[r]) \in Decision \ {"undecided"}
           /\ ~Decides(request[r]) => Wanted(request[r]).status = "pending"
           /\ Decides(request[r]) =>
                 IF DecisionOf(request[r]) \in Texts
                 THEN Wanted(request[r]) = [text |-> DecisionOf(request[r]),
                                            status |-> "approved", active |-> TRUE]
                 ELSE ~Wanted(request[r]).active
<1> DEFINE q == request[r]
<1>1. q \in Holding /\ HeldOf(q)
  BY DEF OverlayInv, OverlayTypeInv, Held
<1>2. q.op \in Ops /\ q.text \in Texts /\ q.row \in Rows
  BY <1>1 DEF Holding
<1>3. DecisionOf(q) \in Decision \ {"undecided"}
  BY <1>2, OverlayAssumption DEF DecisionOf, Decision
<1>4. CASE q.op = "deactivate"
  <2>1. q.row \in Row
    BY <1>1, <1>2, <1>4 DEF HeldOf, Rows
  <2>2. Wanted(q) = [q.row EXCEPT !.active = FALSE] /\ DecisionOf(q) = "retired" /\ Decides(q)
    BY <1>4 DEF Wanted, DecisionOf, Decides
  <2>3. Wanted(q) \in Row /\ ~Wanted(q).active
    BY <2>1, <2>2 DEF Row
  <2> QED
    BY <1>1, <1>3, <2>2, <2>3, OverlayAssumption
<1>5. CASE q.op = "approve"
  <2>1. q.row \in Row /\ q.text = q.row.text
    BY <1>1, <1>2, <1>5 DEF HeldOf, Rows
  <2>2. /\ Wanted(q) = [q.row EXCEPT !.status = "approved", !.active = TRUE]
        /\ DecisionOf(q) = q.text /\ Decides(q)
    BY <1>5 DEF Wanted, DecisionOf, Decides
  <2>3. Wanted(q) = [text |-> q.text, status |-> "approved", active |-> TRUE]
    BY <2>1, <2>2 DEF Row
  <2>4. Wanted(q) \in Row
    BY <1>2, <2>3 DEF Row
  <2> QED
    BY <1>1, <1>2, <1>3, <2>2, <2>3, <2>4
<1>6. CASE q.op \in {"capture", "upsert"}
  <2>1. /\ Wanted(q) = [text |-> q.text, status |-> StatusOf(q), active |-> TRUE]
        /\ DecisionOf(q) = q.text
    BY <1>6 DEF Wanted, DecisionOf
  <2>2. StatusOf(q) = IF Decides(q) THEN "approved" ELSE "pending"
    BY DEF StatusOf, Decides
  <2>3. StatusOf(q) \in {"pending", "approved"}
    BY <2>2
  <2>4. Wanted(q) \in Row /\ Wanted(q).status = StatusOf(q)
    BY <1>2, <2>1, <2>3 DEF Row
  <2> QED
    BY <1>1, <1>2, <1>3, <2>1, <2>2, <2>4
<1> QED
  BY <1>2, <1>4, <1>5, <1>6 DEF Ops

\* The merge of three rows, column by column.
LEMMA MergedRow ==
    ASSUME NEW now \in Row, NEW read \in Row, NEW new \in Row
    PROVE  /\ Merge(now, read, new) \in Row
           /\ Merge(now, read, new).status \in {now.status, new.status}
           /\ new.status = read.status => Merge(now, read, new).status = now.status
           /\ now = read => Merge(now, read, new) = new
<1>1. DOMAIN now = {"text", "status", "active"} /\ DOMAIN new = {"text", "status", "active"}
  BY DEF Row
<1>2. Merge(now, read, new) =
        [text |-> IF new.text # read.text THEN new.text ELSE now.text,
         status |-> IF new.status # read.status THEN new.status ELSE now.status,
         active |-> IF new.active # read.active THEN new.active ELSE now.active]
  BY <1>1 DEF Merge
<1>3. now = read => Merge(now, read, new) = new
  <2> SUFFICES ASSUME now = read PROVE Merge(now, read, new) = new
    OBVIOUS
  <2>1. Merge(now, read, new) = [text |-> new.text, status |-> new.status, active |-> new.active]
    BY <1>2
  <2> QED
    BY <2>1 DEF Row
<1> QED
  BY <1>2, <1>3 DEF Row

\* Whatever row a commit leaves: it has a decision where it is approved, and is
\* the row that was wanted unless the overlay is raced.
LEMMA FinishStep ==
    ASSUME OverlayInv, NEW r \in Requests, NEW q \in Holding, q = request[r],
           NEW k \in Keys, k = q.key, NEW merged \in Row, Finish(r, k, merged),
           created' \in Seq(Keys), CreatedRows',
           merged.status = "approved" =>
               Decides(q) \/ (table[k] # None /\ table[k].status = "approved"),
           k \notin raced => merged = Wanted(q)
    PROVE  OverlayInv'
<1>1. q # Idle /\ HeldOf(q)
  BY IdleApart DEF OverlayInv, Held
<1>2. /\ table' = [table EXCEPT ![k] = merged]
      /\ request' = [request EXCEPT ![r] = Idle]
      /\ decided' = IF Decides(q) THEN [decided EXCEPT ![k] = DecisionOf(q)] ELSE decided
      /\ raced' = IF \E o \in Requests \ {r} : request[o] # Idle /\ request[o].key = k
                  THEN raced \union {k} ELSE raced
  BY DEF Finish
<1>3. OverlayTypeInv'
  BY <1>1, <1>2, WantedRow DEF OverlayInv, OverlayTypeInv, Rows
<1>4. /\ table'[k] = merged /\ merged # None
      /\ \A j \in Keys : j # k => table'[j] = table[j] /\ decided'[j] = decided[j]
      /\ decided'[k] = IF Decides(q) THEN DecisionOf(q) ELSE decided[k]
      /\ \A o \in Requests : request'[o] = IF o = r THEN Idle ELSE request[o]
  BY <1>1, <1>2, OverlayAssumption DEF OverlayInv, OverlayTypeInv
<1>5. Held'
  <2> SUFFICES ASSUME NEW o \in Requests, request'[o] # Idle PROVE HeldOf(request[o])'
    BY DEF Held
  <2>1. request'[o] = request[o] /\ request[o] # Idle
    BY <1>4
  <2>2. HeldOf(request[o]) /\ request[o].key \in Keys
    BY <2>1, WantedRow DEF Holding
  <2> QED
    BY <1>4, <2>1, <2>2 DEF HeldOf
<1>6. ReadAsIs'
  <2> SUFFICES ASSUME NEW o \in Requests, request'[o] # Idle, request'[o].key \notin raced'
               PROVE  request'[o].row = table'[request'[o].key]
    BY DEF ReadAsIs
  <2>1. request'[o] = request[o] /\ o # r
    BY <1>4
  <2>2. request[o].key # k /\ request[o].key \notin raced
    BY <1>2, <2>1
  <2>3. request[o].key \in Keys
    BY <2>1, WantedRow DEF Holding
  <2> QED
    BY <1>4, <2>1, <2>2, <2>3 DEF OverlayInv, ReadAsIs
<1>7. Standings'
  <2> SUFFICES ASSUME NEW j \in Keys PROVE StandingOf(j)'
    BY DEF Standings
  <2>1. CASE j # k
    <3>1. table'[j] = table[j] /\ decided'[j] = decided[j] /\ (j \notin raced' => j \notin raced)
      BY <1>2, <1>4, <2>1
    <3> QED
      BY <3>1 DEF OverlayInv, Standings, StandingOf, InForce
  <2>2. CASE j = k
    <3>1. merged.status = "approved" => decided'[k] # "undecided"
      BY <1>1, <1>4, WantedRow DEF OverlayInv, Standings, StandingOf
    <3>2. ASSUME k \notin raced'
          PROVE  IF decided'[k] \in Texts THEN InForce(k)' /\ table'[k].text = decided'[k]
                 ELSE ~InForce(k)'
      <4>1. k \notin raced /\ merged = Wanted(q)
        BY <1>2, <3>2
      <4>2. CASE Decides(q)
        <5>1. decided'[k] = DecisionOf(q)
          BY <1>4, <4>2
        <5>2. CASE DecisionOf(q) \in Texts
          <6>1. merged = [text |-> DecisionOf(q), status |-> "approved", active |-> TRUE]
            BY <1>1, <4>1, <4>2, <5>2, WantedRow
          <6> QED
            BY <1>4, <5>1, <5>2, <6>1 DEF InForce
        <5>3. CASE DecisionOf(q) \notin Texts
          <6>1. ~merged.active
            BY <1>1, <4>1, <4>2, <5>3, WantedRow
          <6> QED
            BY <1>4, <5>1, <5>3, <6>1 DEF InForce
        <5> QED
          BY <5>2, <5>3
      <4>3. CASE ~Decides(q)
        <5>1. merged.status = "pending" /\ decided'[k] = decided[k]
          BY <1>1, <1>4, <4>1, <4>3, WantedRow
        <5>2. ~InForce(k)
          <6>1. q.op = "capture" /\ k[1] = Tenant /\ q.row = table[k]
            BY <1>1, <4>1, <4>3 DEF Decides, OverlayInv, ReadAsIs
          <6> QED
            BY <1>1, <6>1 DEF HeldOf, InForce
        <5>3. decided[k] \notin Texts
          BY <1>1, <4>1, <5>2 DEF OverlayInv, Standings, StandingOf
        <5> QED
          BY <1>4, <5>1, <5>3 DEF InForce
      <4> QED
        BY <4>2, <4>3
    <3> QED
      BY <1>4, <2>2, <3>1, <3>2 DEF StandingOf
  <2> QED
    BY <2>1, <2>2
<1> QED
  BY <1>3, <1>5, <1>6, <1>7 DEF OverlayInv, OverlayTypeInv

LEMMA UpdateStep ==
    ASSUME OverlayInv, NEW r \in Requests, CommitUpdate(r)
    PROVE  OverlayInv'
<1> DEFINE q == request[r]
           merged == Merge(table[q.key], q.row, Wanted(q))
<1>1. q # Idle /\ q.row # None /\ Finish(r, q.key, merged) /\ created' = created
  BY DEF CommitUpdate
<1>2. /\ q \in Holding /\ HeldOf(q) /\ Wanted(q) \in Row
      /\ ~Decides(q) => Wanted(q).status = "pending"
  BY <1>1, WantedRow
<1>3. q.row \in Row /\ q.key \in Keys /\ table[q.key] \in Row
  BY <1>1, <1>2 DEF Holding, HeldOf, Rows, OverlayInv, OverlayTypeInv
<1>4. merged \in Row /\ merged.status \in {table[q.key].status, Wanted(q).status}
  BY <1>2, <1>3, MergedRow
<1>5. q.key \notin raced => merged = Wanted(q)
  <2>1. q.key \notin raced => table[q.key] = q.row
    BY <1>1 DEF OverlayInv, ReadAsIs
  <2> QED
    BY <1>2, <1>3, <2>1, MergedRow
<1>6. table[q.key] # None
  BY <1>3, OverlayAssumption
<1>7. created' \in Seq(Keys) /\ CreatedRows'
  <2>1. table' = [table EXCEPT ![q.key] = merged] /\ merged # None
    BY <1>1, <1>4, OverlayAssumption DEF Finish
  <2>2. \A k \in Keys : table'[k] # None <=> table[k] # None
    BY <1>3, <1>6, <2>1 DEF OverlayInv, OverlayTypeInv
  <2> QED
    BY <1>1, <2>2 DEF OverlayInv, OverlayTypeInv, CreatedRows
<1> HIDE DEF merged
<1> QED
  BY <1>1, <1>2, <1>3, <1>4, <1>5, <1>6, <1>7, FinishStep

LEMMA InsertStep ==
    ASSUME OverlayInv, NEW r \in Requests, CommitInsert(r)
    PROVE  OverlayInv'
<1> DEFINE q == request[r]
<1>1. /\ q # Idle /\ table[q.key] = None /\ Finish(r, q.key, Wanted(q))
      /\ created' = Append(created, q.key)
  BY DEF CommitInsert
<1>2. /\ q \in Holding /\ Wanted(q) \in Row
      /\ ~Decides(q) => Wanted(q).status = "pending"
  BY <1>1, WantedRow
<1>3. q.key \in Keys /\ created \in Seq(Keys)
  BY <1>2 DEF Holding, OverlayInv, OverlayTypeInv
<1>4. /\ created' \in Seq(Keys) /\ Len(created') = Len(created) + 1
      /\ created'[Len(created) + 1] = q.key
      /\ \A i \in 1..Len(created) : created'[i] = created[i]
  BY <1>1, <1>3
<1>5. table' = [table EXCEPT ![q.key] = Wanted(q)] /\ Wanted(q) # None
  BY <1>1, <1>2, OverlayAssumption DEF Finish
<1>6. CreatedRows'
  <2>1. Len(created) \in Nat
    BY <1>3
  <2>2. \A i \in 1..Len(created) : created[i] # q.key
    BY <1>1, <1>3 DEF OverlayInv, CreatedRows
  <2>3. ASSUME NEW i \in 1..Len(created'), NEW j \in 1..Len(created'), created'[i] = created'[j]
        PROVE  i = j
    <3>1. CASE i \in 1..Len(created) /\ j \in 1..Len(created)
      BY <1>4, <2>3, <3>1 DEF OverlayInv, CreatedRows
    <3>2. CASE i = Len(created) + 1 /\ j \in 1..Len(created)
      BY <1>4, <2>2, <2>3, <3>2
    <3>3. CASE i \in 1..Len(created) /\ j = Len(created) + 1
      BY <1>4, <2>2, <2>3, <3>3
    <3>4. CASE i = Len(created) + 1 /\ j = Len(created) + 1
      BY <3>4
    <3> QED
      BY <1>4, <2>1, <3>1, <3>2, <3>3, <3>4
  <2>4. ASSUME NEW k \in Keys
        PROVE  table'[k] # None <=> \E i \in 1..Len(created') : created'[i] = k
    <3>1. CASE k = q.key
      <4>1. Len(created) + 1 \in 1..Len(created')
        BY <1>4, <2>1
      <4> QED
        BY <1>3, <1>4, <1>5, <3>1, <4>1 DEF OverlayInv, OverlayTypeInv
    <3>2. CASE k # q.key
      <4>1. table'[k] = table[k]
        BY <1>5, <3>2 DEF OverlayInv, OverlayTypeInv
      <4>2. (\E i \in 1..Len(created') : created'[i] = k) <=> \E i \in 1..Len(created) : created[i] = k
        BY <1>4, <2>1, <3>2
      <4> QED
        BY <4>1, <4>2 DEF OverlayInv, CreatedRows
    <3> QED
      BY <3>1, <3>2
  <2> QED
    BY <2>3, <2>4 DEF CreatedRows
<1> QED
  BY <1>1, <1>2, <1>3, <1>4, <1>6, FinishStep

LEMMA OverlayStepInv == OverlayInv /\ [OverlayNext]_overlayVars => OverlayInv'
<1> SUFFICES ASSUME OverlayInv, [OverlayNext]_overlayVars PROVE OverlayInv'
  OBVIOUS
<1>1. ASSUME NEW r \in Requests, NEW u \in Users, NEW type \in TenantTypes \union UserTypes,
             NEW n \in Names, BeginCapture(r, u, type, n)
      PROVE  OverlayInv'
  <2>1. <<Scope(type, u), n>> \in Keys
    BY DEF Scope, Keys, Owners
  <2>2. PICK text \in Texts : Holds(r, "capture", <<Scope(type, u), n>>, text)
    BY <1>1 DEF BeginCapture
  <2>3. UNCHANGED <<table, created, decided, raced>> /\ MayCapture(<<Scope(type, u), n>>)
    BY <1>1 DEF BeginCapture
  <2> QED
    BY <2>1, <2>2, <2>3, HoldsStep DEF MayCapture, Ops
<1>2. ASSUME NEW r \in Requests, NEW k \in Keys, BeginUpsert(r, k) PROVE OverlayInv'
  BY <1>2, HoldsStep DEF BeginUpsert, Ops
<1>3. ASSUME NEW r \in Requests, NEW k \in Keys, BeginApprove(r, k) \/ BeginDeactivate(r, k)
      PROVE  OverlayInv'
  <2>1. table[k] # None /\ table[k].text \in Texts
    BY <1>3 DEF BeginApprove, BeginDeactivate, OverlayInv, OverlayTypeInv, Rows, Row
  <2> QED
    BY <1>3, <2>1, HoldsStep DEF BeginApprove, BeginDeactivate, Ops
<1>4. ASSUME NEW r \in Requests, CommitUpdate(r) PROVE OverlayInv'
  BY <1>4, UpdateStep
<1>5. ASSUME NEW r \in Requests, CommitInsert(r) PROVE OverlayInv'
  BY <1>5, InsertStep
<1>6. ASSUME NEW r \in Requests, InsertConflicts(r) \/ Abandon(r) PROVE OverlayInv'
  BY <1>6, GoneStep DEF InsertConflicts, Abandon
<1>7. CASE UNCHANGED overlayVars
  BY <1>7 DEF overlayVars, OverlayInv, OverlayTypeInv, CreatedRows, Held, HeldOf, ReadAsIs,
              Standings, StandingOf, InForce
<1> QED
  BY <1>1, <1>2, <1>3, <1>4, <1>5, <1>6, <1>7 DEF OverlayNext

-----------------------------------------------------------------------------
(* The prompt and the index.  An owner's places in created and the names listed *)
(* for him are as many, so where the names are within the limit no place is     *)
(* left out.                                                                    *)

LEMMA PlacesAndNames ==
    ASSUME OverlayTypeInv, CreatedRows, NEW o \in Owners
    PROVE  /\ IsFiniteSet(Standing(o)) /\ IsFiniteSet(Listed(o))
           /\ Cardinality(Standing(o)) = Cardinality(Listed(o))
           /\ {created[i][2] : i \in Standing(o)} = Listed(o)
<1> DEFINE name == [i \in Standing(o) |-> created[i][2]]
<1>1. DOMAIN created = 1..Len(created) /\ \A i \in 1..Len(created) : created[i] \in Keys
  BY DEF OverlayTypeInv
<1>2. \A i \in Standing(o) : /\ i \in 1..Len(created) /\ created[i] = <<o, created[i][2]>>
                             /\ created[i][2] \in Names /\ InForce(created[i])
  BY <1>1 DEF Standing, Keys
<1>3. \A i \in Standing(o) : created[i][2] \in Listed(o)
  BY <1>2 DEF Listed
<1>4. ASSUME NEW n \in Listed(o) PROVE \E i \in Standing(o) : created[i][2] = n
  <2>1. <<o, n>> \in Keys /\ InForce(<<o, n>>)
    BY <1>4 DEF Listed, Keys
  <2>2. PICK i \in 1..Len(created) : created[i] = <<o, n>>
    BY <2>1 DEF CreatedRows, InForce
  <2> QED
    BY <1>1, <2>1, <2>2 DEF Standing
<1>5. \A i, j \in Standing(o) : created[i][2] = created[j][2] => i = j
  BY <1>2 DEF CreatedRows
<1>6. IsFiniteSet(Standing(o))
  <2>1. IsFiniteSet(1..Len(created))
    BY FS_Interval DEF OverlayTypeInv
  <2>2. Standing(o) \subseteq 1..Len(created)
    BY <1>2
  <2> QED
    BY <2>1, <2>2, FS_Subset
<1>7. name \in Bijection(Standing(o), Listed(o))
  BY <1>3, <1>4, <1>5 DEF Bijection, Injection, Surjection, IsInjective
<1>8. ExistsBijection(Standing(o), Listed(o))
  BY <1>7 DEF ExistsBijection
<1>9. IsFiniteSet(Listed(o)) /\ Cardinality(Standing(o)) = Cardinality(Listed(o))
  BY <1>6, <1>8, FS_Bijection
<1> QED
  BY <1>3, <1>4, <1>6, <1>9

LEMMA NoneLeftOut ==
    ASSUME OverlayTypeInv, CreatedRows, NEW o \in Owners, Cardinality(Listed(o)) <= MaxServed
    PROVE  Overlays(o) = Standing(o)
<1> SUFFICES ASSUME NEW i \in Standing(o)
             PROVE  Cardinality({j \in Standing(o) : j < i}) < MaxServed
  BY DEF Overlays
<1> DEFINE before == {j \in Standing(o) : j < i}
           others == Standing(o) \ {i}
<1>1. IsFiniteSet(Standing(o)) /\ Cardinality(Standing(o)) <= MaxServed
  BY PlacesAndNames
<1>2. IsFiniteSet(others) /\ Cardinality(others) = Cardinality(Standing(o)) - 1
  BY <1>1, FS_RemoveElement
<1>3. Standing(o) \subseteq Nat
  BY DEF Standing, OverlayTypeInv
<1>4. before \subseteq others
  BY <1>3
<1>5. Cardinality(before) <= Cardinality(others) /\ IsFiniteSet(before)
  BY <1>2, <1>4, FS_Subset
<1> HIDE DEF before, others
<1>6. Cardinality(before) < MaxServed
  BY <1>1, <1>2, <1>5, FS_CardinalityType, OverlayAssumption
<1> QED
  BY <1>6 DEF before

LEMMA SameRules ==
    ASSUME OverlayTypeInv, CreatedRows, NEW u \in Users,
           \A o \in {Tenant, u} : Cardinality(Listed(o)) <= MaxServed,
           NEW index \in Indexes(u)
    PROVE  DOMAIN index = Prompt(u)
<1>1. Tenant \in Owners /\ u \in Owners
  BY DEF Owners
<1>2. DOMAIN index = Listed(Tenant) \union Listed(u)
  BY DEF Indexes
<1>3. Prompt(u) = {created[i][2] : i \in Standing(Tenant) \union Standing(u)}
  BY <1>1, NoneLeftOut DEF Prompt
<1>4. /\ {created[i][2] : i \in Standing(Tenant)} = Listed(Tenant)
      /\ {created[i][2] : i \in Standing(u)} = Listed(u)
  BY <1>1, PlacesAndNames
<1> QED
  BY <1>2, <1>3, <1>4

\* A rule is in force exactly while its owner's decision stands, whatever requests
\* and captures overlap; and the prompt and the index of a turn name the same rules
\* (app/services/skill_service.py, skill_capture_service.py).
THEOREM RulesAsDecided == OverlaySpec => []InForceAsDecided
<1>1. OverlayInv => InForceAsDecided
  <2> SUFFICES ASSUME OverlayInv PROVE InForceAsDecided
    OBVIOUS
  <2>1. ASSUME NEW k \in Keys
        PROVE  /\ InForce(k) => decided[k] # "undecided"
               /\ k \notin raced => IF decided[k] \in Texts
                                    THEN InForce(k) /\ table[k].text = decided[k]
                                    ELSE ~InForce(k)
    BY DEF OverlayInv, Standings, StandingOf, InForce
  <2>2. ASSUME NEW u \in Users, \A o \in {Tenant, u} : Cardinality(Listed(o)) <= MaxServed,
               NEW index \in Indexes(u)
        PROVE  DOMAIN index = Prompt(u)
    BY <2>2, SameRules DEF OverlayInv
  <2> QED
    BY <2>1, <2>2 DEF InForceAsDecided
<1> QED
  BY <1>1, OverlayInitInv, OverlayStepInv, PTL DEF OverlaySpec
=============================================================================
