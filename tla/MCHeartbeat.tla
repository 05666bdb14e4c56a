---------------------------- MODULE MCHeartbeat ----------------------------
(* Two devices, one of them a leak sensor, and a heart of four values.       *)
EXTENDS Heartbeat

CONSTANT MaxBeats  \* bound on the frames counted between two resets

MCNext == Next /\ \A d \in Dev : beats'[d] <= MaxBeats

MCSpec == Init /\ [][MCNext]_vars /\ WF_vars(MainRuns)
=============================================================================
