-------------------------------- MODULE Chats --------------------------------
(***************************************************************************)
(* The row of a chat: its name, tags and life (app/api/endpoints.py:       *)
(* create, rename, replace, delete, list; app/services/chat_service.py;    *)
(* app/services/chat_titles.py), written by requests that overlap.         *)
(*                                                                         *)
(* Every request is a database transaction that first loads the chat.  An  *)
(* UPDATE writes the columns that differ from what was loaded, and waits   *)
(* for the row's lock.  Whose message is answered by what is in ChatTurns. *)
(***************************************************************************)
EXTENDS Naturals, FiniteSets

CONSTANTS
    ChatRequests,  \* turns and requests about the chat itself
    UserNames,     \* names users give
    Generated,     \* the name the language model gives
    Topic,         \* the first words of the user, or a fixed name
    NoName,
    NoOne

ASSUME ChatsAssumption ==
    /\ NoName \notin UserNames \union {Generated, Topic}
    /\ NoOne \notin ChatRequests

VARIABLES
    row,       \* the committed row: whether it is there, its name and messages
    holder,    \* the request that holds the row's lock, or NoOne
    requests,  \* kind, stage and loaded name of each request
    named,     \* history: a user has named the chat and not taken the name back
    removed    \* history: a deletion of the chat has committed

chatVars == <<row, holder, requests, named, removed>>

NoRequest == [kind |-> "none", pc |-> "idle", name |-> NoName, wanted |-> NoName]
Ended == {"done", "404", "500"}

ChatsInit ==
    /\ row = [exists |-> FALSE, name |-> NoName, messages |-> {}]
    /\ holder = NoOne
    /\ requests = [r \in ChatRequests |-> NoRequest]
    /\ named = FALSE /\ removed = FALSE

Stage(r, pc) == requests' = [requests EXCEPT ![r].pc = pc]

\* POST /chats/; a turn without a chat creates one as well, with its commit.
ChatCreated ==
    /\ ~row.exists /\ ~removed
    /\ \E name \in UserNames \union {NoName} :
          /\ row' = [exists |-> TRUE, name |-> name, messages |-> {}]
          /\ named' = (name # NoName)
    /\ UNCHANGED <<holder, requests, removed>>

\* get_chat_or_404.  A rename may take the name back; a replacement of the
\* history need not name the chat.
RequestLoads(r) ==
    /\ requests[r].pc = "idle"
    /\ \E kind \in {"turn", "patch", "put", "delete"}, wanted \in UserNames \union {NoName} :
          /\ kind \in {"turn", "delete"} => wanted = NoName
          /\ requests' = [requests EXCEPT ![r] =
                [kind |-> kind, pc |-> IF row.exists THEN "loaded" ELSE "404",
                 name |-> row.name, wanted |-> wanted]]
    /\ UNCHANGED <<row, holder, named, removed>>

\* The first write of the transaction waits for the row, and finds out whether
\* it is still there: an UPDATE or INSERT of a deleted chat's rows fails, a
\* DELETE finds nothing to do.
RowLocked(r) ==
    /\ requests[r].pc = "loaded" /\ holder = NoOne
    /\ IF row.exists \/ requests[r].kind = "delete"
       THEN holder' = r /\ Stage(r, "writing")
       ELSE UNCHANGED holder /\ Stage(r, "500")
    /\ UNCHANGED <<row, named, removed>>

\* generate_chat_name_with_llm: where no model answers, or with nothing that is
\* left of it as a name, the topic.
NewTitle(answer) == IF answer = NoName THEN Topic ELSE answer

\* Bug: the existing name is not looked at.
TitleAlways(r, answer) == NewTitle(answer)

\* ensure_chat_name, with the name the turn loaded when it began.
Title(r, answer) == IF requests[r].name = NoName THEN NewTitle(answer) ELSE requests[r].name

\* What a transaction writes as the chat's name: nothing, if it is the loaded one.
Written(r, answer) ==
    LET name == CASE requests[r].kind = "turn" -> Title(r, answer)
                  [] requests[r].kind = "put" /\ requests[r].wanted = NoName -> requests[r].name
                  [] OTHER -> requests[r].wanted
    IN  IF name = requests[r].name THEN row.name ELSE name

MessagesOf(r) ==
    CASE requests[r].kind = "turn" -> row.messages \union {r}
      [] requests[r].kind = "put" -> {r}
      [] OTHER -> row.messages

RequestCommits(r) ==
    /\ requests[r].pc = "writing" /\ requests[r].kind # "delete"
    /\ \E answer \in {Generated, NoName} :
          row' = [row EXCEPT !.name = Written(r, answer), !.messages = MessagesOf(r)]
    /\ named' = IF requests[r].kind \in {"patch", "put"} /\ row'.name # row.name
                THEN row'.name # NoName ELSE named
    /\ holder' = NoOne /\ Stage(r, "done")
    /\ UNCHANGED removed

\* The messages are deleted by a statement of their own, then the chat; what
\* another transaction has added since goes with the chat's row.
ChatDeleted(r) ==
    /\ requests[r].pc = "writing" /\ requests[r].kind = "delete"
    /\ row' = [exists |-> FALSE, name |-> NoName, messages |-> {}]
    /\ holder' = NoOne /\ Stage(r, "done")
    /\ named' = FALSE /\ removed' = TRUE

\* A turn fails, or its client leaves: the transaction is rolled back.
RequestFails(r) ==
    /\ requests[r].pc \in {"loaded", "writing"}
    /\ holder' = IF holder = r THEN NoOne ELSE holder
    /\ Stage(r, "500")
    /\ UNCHANGED <<row, named, removed>>

ChatsNext ==
    \/ ChatCreated
    \/ \E r \in ChatRequests :
          \/ RequestLoads(r) \/ RowLocked(r) \/ RequestCommits(r) \/ ChatDeleted(r)
          \/ RequestFails(r)

ChatsSpec == ChatsInit /\ [][ChatsNext]_chatVars

-----------------------------------------------------------------------------
(* Properties *)

\* However turns, renames, replacements and deletions overlap: the name a user
\* gave gives way to a generated one only in a turn that loaded the chat while it
\* had none; and a deleted chat stays away, with every message of a turn that was
\* under way.
NamedByUserGoneForGood ==
    /\ named => \/ row.name \in UserNames
                \/ row.name \in {Generated, Topic}
                   /\ \E r \in ChatRequests : requests[r].kind = "turn" /\ requests[r].name = NoName
    /\ removed => ~row.exists /\ row.messages = {}
=============================================================================
