---------------------------- MODULE MCHeartbeatWake ----------------------------
(***************************************************************************)
(* Instances of HeartbeatWake for TLC: two targets, a scheduled and an     *)
(* immediate request, at once or after a tick of coalescing.               *)
(***************************************************************************)
EXTENDS HeartbeatWake

CONSTANTS t1, t2

TwoTargets == {t1, t2}

ScheduledOrImmediate == {1, 3}

AtOnceOrCoalesced == {0, 1}
================================================================================
