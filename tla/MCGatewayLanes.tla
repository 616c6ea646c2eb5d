--------------------------- MODULE MCGatewayLanes ---------------------------
(***************************************************************************)
(* A small gateway for TLC: two replies in one session, or the run of a    *)
(* manual cron job.                                                        *)
(***************************************************************************)
EXTENDS GatewayLanes

CONSTANTS run1, run2

GatewayRuns == {run1, run2}

GatewayEntries == GatewayRuns \X (1 .. 3)

GatewayLaneNames == GlobalLanes \cup {"session:chat"}

AllPriorities == {1, 0, -1}

RepliesOrJob ==
    { [r \in GatewayRuns |-> "reply"],
      [r \in GatewayRuns |-> IF r = run1 THEN "cron" ELSE "none"] }

OneSession == [r \in GatewayRuns |-> "session:chat"]

\* A reload takes a slot from the main lane.
MainNarrows == << [main |-> 2, subagent |-> 1, cron |-> 1],
                  [main |-> 1, subagent |-> 1, cron |-> 1] >>
=============================================================================
