-------------------------- MODULE CapabilityPhases ---------------------------
(***************************************************************************)
(* Where each peer stands in the capability exchange, and what the phases  *)
(* of the two must never be at once.                                       *)
(***************************************************************************)
EXTENDS Datagrams

VARIABLE phase         \* where each peer is in the exchange

(* A negotiation fails on an error of the session it runs over; one that   *)
(* fails acking had taken the HelloAck before.                             *)
HostPhases == {"Start", "AwaitAck", "Session", "TimedOut", "Rejected", "Failed", "FailedAcking"}

ClientPhases == {"AwaitHello", "AwaitAck", "Session", "TimedOut", "Rejected", "Failed"}

Ended == {"TimedOut", "Rejected", "Failed", "FailedAcking"}

Running(p) == phase[p] \notin {"Start"} \cup Ended

-----------------------------------------------------------------------------
(***************************************************************************)
(* "Waiting for that acknowledgement prevents the client from returning    *)
(* to its media loop after a one-way packet loss": whatever is lost, a     *)
(* client in its session has a host that has taken its HelloAck, and that  *)
(* host is in its session too unless a transmission failed in the very     *)
(* receive in which it took it, after the acknowledgement had left.        *)
(***************************************************************************)
ClientJoinsHost == phase["Client"] = "Session" => phase["Host"] \in {"Session", "FailedAcking"}

(***************************************************************************)
(* Neither negotiation is handed anything but the message it waits for,    *)
(* although the other peer's session traffic reuses the same sequence      *)
(* numbers: nobody fails with an unexpected capability message.            *)
(***************************************************************************)
NobodyRejected == \A p \in Peers : phase[p] # "Rejected"

=============================================================================
