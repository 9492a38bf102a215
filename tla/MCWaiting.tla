------------------------------ MODULE MCWaiting ------------------------------
(* Two components whose requests wait for one another: briefings for a lock  *)
(* and a connection, spoken turns for a transcription permit.  A behaviour   *)
(* is one component's, and the other stays in an initial state.              *)
EXTENDS Briefing, AudioTurns

CONSTANTS q1, q2, k1, k2, s1, s2, f1
VARIABLE part

Init ==
    /\ part \in {"briefing", "audio"}
    /\ BriefingInit /\ AudioInit
    /\ part = "audio" => view = k1

Next ==
    /\ UNCHANGED part
    /\ \/ part = "briefing" /\ BriefingNext /\ UNCHANGED audioVars
       \/ part = "audio" /\ AudioNext /\ UNCHANGED briefingVars

Spec ==
    /\ Init /\ [][Next]_<<part, briefingVars, audioVars>>
    /\ BriefingFairness /\ AudioFairness
=============================================================================
