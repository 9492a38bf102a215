---------------------------- MODULE MCChatTurns ----------------------------
(* Small instances of ChatTurns for TLC.                                    *)
EXTENDS ChatTurns, TLC

CONSTANTS t1, t2, t3, c1, p1, e1

\* Turns are interchangeable.
Users == Permutations({t1, t2, t3})

OneRecord == c1 :> "r1"
NoRecord == <<>>

NoBody == <<>>
OneAnswer == <<"assistant">>
=============================================================================
