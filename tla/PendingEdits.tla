----------------------------- MODULE PendingEdits -----------------------------
(***************************************************************************)
(* Replies to a proposed write (app/engine/pending_patch.py, the envelope  *)
(* of app/domain/contracts.py): which are edits, and what they make of the *)
(* proposal before the CRM shows it again.                                 *)
(*                                                                         *)
(* The proposal of a CRM tool is previewed again by the CRM, which derives  *)
(* a meeting's end from its start and length wherever none is named; one    *)
(* that names no tool, out of a restored history, is shown as edited.       *)
(* Times are minutes of a day, lengths pairs of hours and minutes.          *)
(***************************************************************************)
EXTENDS Integers

CONSTANTS
    Clocks,          \* clock times a reply can write, as four digits
    Dayparts,        \* the times that "morning", "afternoon" ... stand for
    WrittenHours,    \* numbers of hours
    WrittenMinutes,  \* and of minutes a reply can write
    Descriptions,
    Unset

ASSUME EditAssumption ==
    /\ Clocks \subseteq Nat
    /\ Dayparts \subseteq Nat
    /\ WrittenHours \subseteq Nat
    /\ WrittenMinutes \subseteq Nat
    /\ Unset \notin Nat \union Descriptions

VARIABLES
    proposal,  \* the pending write
    wished     \* history: what the user's replies are read to ask for

editVars == <<proposal, wished>>

Modules == {"Meetings", "Contacts"}
Verbs == {"create", "execute"}

\* What a reply may hold: words of an edit or a question, a yes, or neither; a
\* time as digits or in words, hours, minutes and, after a word of an edit, a
\* description.
Replies ==
    {reply \in [words : {"edit", "question", "yes", "none"},
                clock : Clocks \union {Unset}, daypart : Dayparts \union {Unset},
                hours : WrittenHours \union {Unset}, minutes : WrittenMinutes \union {Unset},
                description : Descriptions \union {Unset}] :
        reply.description # Unset => reply.words \in {"edit", "question"}}

Least(m, n) == IF m < n THEN m ELSE n

\* A time or a length out of range is read as the nearest one in it.
ClockRead(clock) == 60 * Least(23, clock \div 100) + Least(59, clock % 100)

\* Digits go before words.
StartRead(reply) == IF reply.clock # Unset THEN ClockRead(reply.clock) ELSE reply.daypart

\* Beside hours the minutes are not read, and minutes alone make no hour.
LengthRead(reply) ==
    IF reply.hours # Unset THEN <<Least(12, reply.hours), 0>>
    ELSE IF reply.minutes # Unset THEN <<0, Least(59, reply.minutes)>>
    ELSE Unset

Starts == {ClockRead(clock) : clock \in Clocks} \union Dayparts
Lengths == (WrittenHours \X {0}) \union ({0} \X WrittenMinutes)

EndsAt(p) == p.start + 60 * p.length[1] + p.length[2]

DerivedEnd(p) ==
    IF p.module = "Meetings" /\ p.end = Unset THEN [p EXCEPT !.end = EndsAt(p)] ELSE p

\* "moved" is of a proposal whose adjustments note an edit of its start or length.
EditsInit ==
    /\ \E module \in Modules, verb \in Verbs, tool \in BOOLEAN, moved \in BOOLEAN,
          start \in Starts, length \in Lengths, description \in Descriptions :
          /\ tool => ~moved
          /\ proposal = DerivedEnd([module |-> module, verb |-> verb, tool |-> tool,
                                    start |-> start, length |-> length, end |-> Unset,
                                    description |-> description, moved |-> moved,
                                    pc |-> "shown"])
    /\ wished = [start |-> proposal.start, length |-> proposal.length,
                 description |-> proposal.description]

-----------------------------------------------------------------------------
(* try_patch_pending_action *)

\* _is_confirmation_only: a yes and nothing else.
IsYes(reply) ==
    /\ reply.words = "yes" /\ StartRead(reply) = Unset /\ LengthRead(reply) = Unset

\* A question is never an edit, a time in digits makes one of any other reply.
LooksLikeEdit(reply) ==
    /\ reply.words # "question" /\ ~IsYes(reply)
    /\ reply.words = "edit" \/ reply.clock # Unset

Timed == proposal.module = "Meetings"

Given(new, old) == IF new = Unset THEN old ELSE new

Start(reply) == IF Timed THEN Given(StartRead(reply), proposal.start) ELSE proposal.start
Length(reply) == IF Timed THEN Given(LengthRead(reply), proposal.length) ELSE proposal.length
Description(reply) == Given(reply.description, proposal.description)

Moves(reply) == Start(reply) # proposal.start \/ Length(reply) # proposal.length

\* Bug: the end stays when only the length changes.
EndUnlessMoved(reply) == IF Start(reply) # proposal.start THEN Unset ELSE proposal.end

\* An end that was derived from another start or length is dropped, by this edit
\* or by a note of an earlier one.
End(reply) == IF Moves(reply) \/ proposal.moved THEN Unset ELSE proposal.end

Edited(reply) ==
    [proposal EXCEPT !.start = Start(reply), !.length = Length(reply), !.end = End(reply),
                     !.description = Description(reply), !.moved = @ \/ Moves(reply),
                     !.pc = IF proposal.tool THEN "patched" ELSE "shown"]

\* A reply that names the values there are changes nothing, and goes to the agent.
IsEdit(reply) ==
    /\ proposal.verb = "create" /\ LooksLikeEdit(reply)
    /\ Moves(reply) \/ Description(reply) # proposal.description

ReplyEdits ==
    /\ proposal.pc = "shown"
    /\ \E reply \in Replies :
          /\ IsEdit(reply)
          /\ proposal' = Edited(reply)
          /\ wished' = [start |-> IF Timed THEN Given(StartRead(reply), wished.start)
                                          ELSE wished.start,
                        length |-> IF Timed THEN Given(LengthRead(reply), wished.length)
                                            ELSE wished.length,
                        description |-> Given(reply.description, wished.description)]

\* Everything else is the agent's; so is a yes without the front end's flag.
ReplyGoesToAgent ==
    /\ proposal.pc = "shown"
    /\ \E reply \in Replies : ~IsEdit(reply)
    /\ proposal' = [proposal EXCEPT !.pc = "agent"]
    /\ UNCHANGED wished

\* The CRM previews the edit; the proposal it shows, with adjustments of its own,
\* is the next to be edited.
CrmShows ==
    /\ proposal.pc = "patched"
    /\ proposal' = [DerivedEnd(proposal) EXCEPT !.pc = "shown", !.moved = FALSE]
    /\ UNCHANGED wished

\* The tool is gone or the preview fails: the turn answers with that.
CrmRefuses ==
    /\ proposal.pc = "patched"
    /\ proposal' = [proposal EXCEPT !.pc = "agent"]
    /\ UNCHANGED wished

EditsNext == ReplyEdits \/ ReplyGoesToAgent \/ CrmShows \/ CrmRefuses

EditsSpec == EditsInit /\ [][EditsNext]_editVars

-----------------------------------------------------------------------------
(* Properties *)

\* After any series of replies the proposal the user sees holds what was read out
\* of them: each value the last one read from any reply.  No meeting ends at
\* another time than its length after its start, and one the CRM previewed ends
\* then.
EditedAsWished ==
    proposal.pc = "shown" =>
        /\ proposal.start = wished.start /\ proposal.length = wished.length
        /\ proposal.description = wished.description
        /\ proposal.end \in {Unset, EndsAt(proposal)}
        /\ Timed /\ proposal.tool => proposal.end # Unset
=============================================================================
