----------------------------- MODULE PathHandoff -----------------------------
(***************************************************************************)
(* What a path migration promises to the session above it, without any of  *)
(* the records that achieve it.  Each peer sends application data on one   *)
(* path generation.  The host first silences itself, then the client moves *)
(* to the next generation, and only then does the host follow.  A host     *)
(* that cannot learn whether the client moved stays silent for ever: it    *)
(* never goes back to the old generation.                                  *)
(***************************************************************************)
EXTENDS Naturals

CONSTANT MaxGeneration   \* the largest path generation (u64::MAX in the code)

VARIABLES hostGeneration,    \* the generation the host considers active
          clientGeneration,  \* the generation the client considers active
          host               \* "sending", "silent" or "unconfirmed"

vars == <<hostGeneration, clientGeneration, host>>

Init == /\ hostGeneration = 1
        /\ clientGeneration = 1
        /\ host = "sending"

\* The host has sent its commit and stops sending application data.
Silence == /\ host = "sending"
           /\ hostGeneration < MaxGeneration
           /\ host' = "silent"
           /\ UNCHANGED <<hostGeneration, clientGeneration>>

\* The client accepts the commit; it may do so after the host gave up on it.
ClientMoves == /\ host # "sending"
               /\ clientGeneration = hostGeneration
               /\ clientGeneration' = clientGeneration + 1
               /\ UNCHANGED <<hostGeneration, host>>

\* The host learns that the client moved and follows it.
HostFollows == /\ host = "silent"
               /\ clientGeneration = hostGeneration + 1
               /\ hostGeneration' = hostGeneration + 1
               /\ host' = "sending"
               /\ UNCHANGED clientGeneration

\* The host gives up waiting; it does not resume the old generation.
GiveUp == /\ host = "silent"
          /\ host' = "unconfirmed"
          /\ UNCHANGED <<hostGeneration, clientGeneration>>

Next == Silence \/ ClientMoves \/ HostFollows \/ GiveUp

Spec == Init /\ [][Next]_vars
=============================================================================
