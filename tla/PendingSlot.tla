----------------------------- MODULE PendingSlot -----------------------------
(***************************************************************************)
(* What a chat promises about CRM writes: at most one proposal stands at a  *)
(* time, no turn proposes what stood before, and only the standing one is   *)
(* ever carried out.  A history stored over the chat's, which happens once, *)
(* may bring back a proposal or another chat's.  ChatTurns implements this  *)
(* when its requests do not overlap.                                        *)
(***************************************************************************)
CONSTANTS Proposals, Foreign, Histories, None

VARIABLES
    slot,      \* the proposal the chat asks its user to confirm, or None
    offered,   \* proposals that turns have made so far
    restored,  \* histories stored over the chat's so far
    executed   \* proposals the CRM carried out

slotVars == <<slot, offered, restored, executed>>

SlotInit == slot = None /\ offered = {} /\ restored = {} /\ executed = {}

Offer(p) ==
    /\ p \notin offered
    /\ slot' = p
    /\ offered' = offered \union {p}
    /\ UNCHANGED <<restored, executed>>

Withdraw ==
    /\ slot' = None
    /\ UNCHANGED <<offered, restored, executed>>

Restore(h) ==
    /\ h \notin restored
    /\ restored' = restored \union {h}
    /\ slot' \in Proposals \union Foreign \union {None}
    /\ UNCHANGED <<offered, executed>>

Run ==
    /\ slot # None
    /\ executed' = executed \union {slot}
    /\ UNCHANGED <<slot, offered, restored>>

SlotNext ==
    Withdraw \/ Run \/ (\E p \in Proposals : Offer(p)) \/ (\E h \in Histories : Restore(h))

SlotSpec == SlotInit /\ [][SlotNext]_slotVars
=============================================================================
