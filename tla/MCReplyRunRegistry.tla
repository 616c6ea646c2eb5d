-------------------------- MODULE MCReplyRunRegistry --------------------------
(***************************************************************************)
(* Small instances of ReplyRunRegistry for TLC.                            *)
(***************************************************************************)
EXTENDS ReplyRunRegistry

CONSTANTS chat, room, t1, t2, t3, t4

FourTurns == {t1, t2, t3, t4}

ChatAndRoom == [t \in FourTurns |-> IF t = t4 THEN room ELSE chat]

Are(turns, k, rest) == [t \in FourTurns |-> IF t \in turns THEN k ELSE rest]

\* Three turns for one session, a heartbeat beside one, one for each of two.
ThreeTurns == { Are({t4}, "none", "visible"),
                [Are({t1}, "visible", "none") EXCEPT ![t3] = "heartbeat"],
                Are({t1, t4}, "visible", "none") }

TwoTurns == { Are({t1, t2}, "visible", "none") }
=============================================================================
