--------------------------- MODULE MCFollowupQueue ---------------------------
(***************************************************************************)
(* Small instances of FollowupQueue for TLC.                               *)
(***************************************************************************)
EXTENDS FollowupQueue

CONSTANTS guest1, guest2, owner

\* The guest's messages can be collected, the owner's not with them.
SenderOf == [m \in Messages |-> IF m = owner THEN "owner" ELSE "guest"]

\* guest2 is run alone, or not.
OneOrNone == {{}, {guest2}}

NoneFenced == {{}}

OneRoute == [m \in Messages |-> "dm"]

Keep(mode, cap, drop) == [mode |-> mode, cap |-> cap, drop |-> drop]

\* One message at a time, newcomers refused; or batches, with the oldest
\* messages dropped, for good or into a summary.
MixedSettings == {Keep("followup", 2, "new"), Keep("collect", 2, "old"),
                  Keep("collect", 2, "summarize")}

FollowupSummarize == {Keep("followup", 1, "summarize")}
=============================================================================
