--------------------------- MODULE MCTunnelStream ---------------------------
(* Small instances of TunnelStream for TLC.  A second disturbance is followed  *)
(* as long as nobody uses the tunnel, and unless it is another break of the   *)
(* connection.  While somebody does, a heartbeat's flag is set at once.        *)
EXTENDS TunnelStream

InUse == (\E r \in Req : serve[r] # "idle") \/ tcp.reader # "off"
Budget == InUse => faults <= 1
BreaksAgain == faults = 1 /\ faults' = 2 /\ net' = "down" /\ net = "up"
FlagLater == InUse /\ sent # {} /\ sent' = sent

MCNext == Next /\ Budget' /\ ~BreaksAgain /\ ~FlagLater
MCSpec == Init /\ [][MCNext]_vars /\ Fairness
=============================================================================
