------------------------------ MODULE MCChatLive ------------------------------
(* Requests of a chat that wait for each other, and requests that come one     *)
(* after the other: two kinds of behaviours of ChatTurns.                      *)
EXTENDS MCChatTurns

VARIABLE alone   \* one request at a time, and a third turn

LiveInit == Init /\ alone \in BOOLEAN

\* Alone, turns begin in the order of their names, which loses nothing.
LiveNext ==
    /\ Next /\ UNCHANGED alone
    /\ IF alone
       THEN /\ Cardinality({r \in Requests : UnderWay(r)'}) <= 1
            /\ pc'[t2] # "idle" => pc'[t1] # "idle"
            /\ pc'[t3] # "idle" => pc'[t2] # "idle"
            /\ pc'[p1] # "idle" => pc'[t3] = "idle" /\ pc'[c1] = "idle"
       ELSE pc'[t3] = "idle" /\ pc'[p1] = "idle"

LiveSpec == LiveInit /\ [][LiveNext]_<<vars, alone>> /\ Fairness

\* Nothing is claimed of requests that overlap.
Slot == INSTANCE PendingSlot WITH
    Proposals <- Turns, Foreign <- Elsewhere, Histories <- Puts,
    slot <- IF alone THEN Shown ELSE None,
    offered <- IF alone THEN Proposed ELSE {},
    restored <- IF alone THEN Restored ELSE {},
    executed <- IF alone THEN CarriedOut ELSE {}

\* Requests that do not overlap, each broken off anywhere or not, treat the proposal
\* as PendingSlot promises: only the standing one is ever carried out.
ImplementsSlot == Slot!SlotSpec
=============================================================================
