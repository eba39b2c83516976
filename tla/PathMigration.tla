---------------------------- MODULE PathMigration ----------------------------
(***************************************************************************)
(* The two-phase path migration of client-core: a MigrationController at   *)
(* the host and one at the client (path.rs), each driven by its            *)
(* PeerSession (lib.rs), exchanging authenticated PathControl records over *)
(* the old and the replacement path.                                       *)
(*                                                                         *)
(* A path slot is the generation of the socket a record travels on.  The   *)
(* network loses, delays and reorders records.  One sealed datagram is     *)
(* opened at most once, but every record except Abort is                   *)
(* retransmitted, so a record that was sent may be seen any number of      *)
(* times.  Clocks are abstracted: a deadline either has passed (expired)   *)
(* or has not, and a retry timer may fire at any moment.                   *)
(***************************************************************************)
EXTENDS Naturals

CONSTANTS Tokens,         \* migration tokens: 16 random bytes, never repeated
          MaxGeneration,  \* the largest path generation (u64::MAX in the code)
          RequestIds,     \* identifiers of the client's migration requests
          Losable,        \* the record types the network forgets by itself
          None            \* Rust's Option::None

ASSUME MaxGenerationAssumption == MaxGeneration \in Nat \ {0}

Peers == {"Host", "Client"}
Peer(p) == IF p = "Host" THEN "Client" ELSE "Host"

MigrationState == {"Idle", "Preparing", "Ready", "CommitPending", "Active",
                   "CommitUnconfirmed", "Failed"}

VARIABLES
  state,        \* MigrationController::state of each peer
  active,       \* active_generation
  pending,      \* PendingMigration or None
  committed,    \* the last committed <<generation, token>> or None
  draining,     \* the old slot and whether its grace has passed, or None
  oldFailed,    \* old_failed
  lastRequest,  \* the host's last_request
  sent,         \* every record ever put on a path
  lost          \* the records of sent that cannot be received any more

control == <<state, active, pending, committed, draining, oldFailed, lastRequest>>
vars == <<control, sent, lost>>

Generations == 1..MaxGeneration

PendingMigration ==
  [generation: Generations, token: Tokens, opened: BOOLEAN, proved: BOOLEAN,
   peerReady: BOOLEAN, expired: BOOLEAN]

DrainingSlot == [slot: Generations, expired: BOOLEAN]

ASSUME NoneAssumption ==
  /\ None \notin PendingMigration
  /\ None \notin DrainingSlot
  /\ None \notin Generations \X Tokens
  /\ None \notin RequestIds
  /\ None \notin Generations

\* Records that name an attempt by generation and token, the token-less Abort
\* slot is the path a record travels on.
TokenRecord ==
  [type: {"Prepare", "Probe", "ProbeAck", "Ready", "Commit", "CommitAck"},
   to: Peers, slot: Generations, generation: Generations, token: Tokens]
AbortRecord == [type: {"Abort"}, to: Peers, slot: Generations, generation: Generations]
PathControl == TokenRecord \cup AbortRecord

TypeOK ==
  /\ state \in [Peers -> MigrationState]
  /\ active \in [Peers -> Generations]
  /\ pending \in [Peers -> PendingMigration \cup {None}]
  /\ committed \in [Peers -> (Generations \X Tokens) \cup {None}]
  /\ draining \in [Peers -> DrainingSlot \cup {None}]
  /\ oldFailed \in [Peers -> BOOLEAN]
  /\ lastRequest \in RequestIds \cup {None}
  /\ sent \subseteq PathControl
  /\ lost \subseteq sent

Init ==
  /\ state = [p \in Peers |-> "Idle"]
  /\ active = [p \in Peers |-> 1]
  /\ pending = [p \in Peers |-> None]
  /\ committed = [p \in Peers |-> None]
  /\ draining = [p \in Peers |-> None]
  /\ oldFailed = [p \in Peers |-> FALSE]
  /\ lastRequest = None
  /\ sent = {}
  /\ lost = {}

-----------------------------------------------------------------------------
(* Helpers *)

Rec(p, type, slot, generation, token) ==
  [type |-> type, to |-> Peer(p), slot |-> slot, generation |-> generation,
   token |-> token]

Abort(p, slot, generation) ==
  [type |-> "Abort", to |-> Peer(p), slot |-> slot, generation |-> generation]

\* The driver puts the records of an action list on their paths.  Any write
\* may fail; a failed write on the path that is active by then marks it failed.
\* base is the controller's old_failed when the driver starts to write.
Emit(p, records, base) ==
  \E written \in BOOLEAN :
    LET onActive == {r \in records : r.slot = active'[p]}
        out      == IF written THEN records ELSE records \ onActive
    IN  /\ (~written => onActive # {})
        /\ sent' = sent \cup out
        /\ lost' = lost \ out
        /\ oldFailed' = [oldFailed EXCEPT ![p] = base \/ ~written]

Busy(p) == \/ pending[p] # None
           \/ draining[p] # None
           \/ state[p] = "CommitUnconfirmed"

\* The slot application data is sent on; None while a commit is unsettled.
ApplicationSlot(p) ==
  IF state[p] \in {"CommitPending", "CommitUnconfirmed"} THEN None ELSE active[p]

AcceptsApplication(p, slot) ==
  \/ slot = active[p]
  \/ draining[p] # None /\ slot = draining[p].slot /\ ~draining[p].expired

\* The sockets PeerSession reads: the active one, the replacement once it is
\* connected (it is closed again by Discard) and the draining one.
Readable(p, slot) ==
  \/ slot = active[p]
  \/ /\ pending[p] # None /\ pending[p].opened /\ state[p] # "CommitUnconfirmed"
     /\ slot = pending[p].generation
  \/ draining[p] # None /\ slot = draining[p].slot

\* PATH_COMMIT stays on the old path until that path is known to have failed.
CommitSlot(p) == IF oldFailed[p] THEN pending[p].generation ELSE active[p]

-----------------------------------------------------------------------------
(* Local operations *)

\* MigrationController::prepare.
Prepare(p, generation, token) ==
  /\ pending' = [pending EXCEPT ![p] =
       [generation |-> generation, token |-> token, opened |-> FALSE,
        proved |-> FALSE, peerReady |-> FALSE, expired |-> FALSE]]
  /\ state' = [state EXCEPT ![p] = "Preparing"]
  /\ UNCHANGED <<active, committed, draining>>

\* MigrationController::start, with a token drawn at random.
Start ==
  /\ ~Busy("Host")
  /\ active["Host"] < MaxGeneration
  /\ LET generation == active["Host"] + 1
     IN  \E token \in Tokens :
           /\ \A r \in sent : r.type # "Abort" => r.token # token
           /\ Prepare("Host", generation, token)
           /\ Emit("Host", {Rec("Host", "Prepare", active["Host"], generation, token)},
                   FALSE)

\* PeerSession::migrate_to at the host (Tick has run before it).
MigrateTo == Start /\ UNCHANGED lastRequest

\* open_replacement has connected the replacement socket: controller.opened().
Opened(p) ==
  /\ pending[p] # None
  /\ ~pending[p].opened
  /\ ~pending[p].expired
  /\ pending' = [pending EXCEPT ![p].opened = TRUE]
  /\ UNCHANGED <<state, active, committed, draining, lastRequest>>
  /\ Emit(p, {Rec(p, "Probe", pending[p].generation, pending[p].generation,
                  pending[p].token)}, oldFailed[p])

\* controller.activate(): the pending path becomes the active one, the old one
\* drains.
Activate(p) ==
  /\ draining' = [draining EXCEPT ![p] = [slot |-> active[p], expired |-> FALSE]]
  /\ active' = [active EXCEPT ![p] = pending[p].generation]
  /\ committed' = [committed EXCEPT ![p] = <<pending[p].generation, pending[p].token>>]
  /\ state' = [state EXCEPT ![p] = "Active"]
  /\ pending' = [pending EXCEPT ![p] = None]

\* Mutant: a host that waited in vain takes its commit for done.
FailPreparationAssumes(p) ==
  IF state[p] \in {"CommitPending", "CommitUnconfirmed"}
  THEN Activate(p) /\ UNCHANGED <<oldFailed, lastRequest, sent, lost>>
  ELSE /\ UNCHANGED <<active, committed, draining, lastRequest>>
       /\ state' = [state EXCEPT ![p] = "Failed"]
       /\ pending' = [pending EXCEPT ![p] = None]
       /\ Emit(p, {Abort(p, active[p], pending[p].generation)}, oldFailed[p])

\* Mutant: the attempt is dropped even when the commit is already out.
FailPreparationRollsBack(p) ==
  /\ UNCHANGED <<active, committed, draining, lastRequest>>
  /\ state' = [state EXCEPT ![p] = "Failed"]
  /\ pending' = [pending EXCEPT ![p] = None]
  /\ Emit(p, {Abort(p, active[p], pending[p].generation)}, oldFailed[p])

\* fail_preparation: before the commit was sent the attempt is dropped and the
\* peer told; afterwards the session fails closed and the attempt is kept.
FailPreparation(p) ==
  /\ UNCHANGED <<active, committed, draining, lastRequest>>
  /\ IF state[p] \in {"CommitPending", "CommitUnconfirmed"}
     THEN /\ state' = [state EXCEPT ![p] = "CommitUnconfirmed"]
          /\ UNCHANGED <<pending, oldFailed, sent, lost>>
     ELSE /\ state' = [state EXCEPT ![p] = "Failed"]
          /\ pending' = [pending EXCEPT ![p] = None]
          /\ Emit(p, {Abort(p, active[p], pending[p].generation)}, oldFailed[p])

\* abort_preparation: opening the replacement failed (either peer), or
\* migrate_to met a receive error while it waited (host).
AbortPreparation(p) ==
  /\ pending[p] # None
  /\ state[p] # "CommitUnconfirmed"
  /\ pending[p].opened => p = "Host"
  /\ FailPreparation(p)

\* tick: the drain grace has passed, the old socket is closed.
Retire(p) ==
  /\ draining[p] # None
  /\ draining[p].expired
  /\ draining' = [draining EXCEPT ![p] = None]
  /\ UNCHANGED <<state, active, pending, committed, oldFailed, lastRequest, sent, lost>>

\* Mutant: only an unproved attempt times out.
TimeOutPreparing(p) ==
  /\ pending[p] # None /\ pending[p].expired
  /\ state[p] = "Preparing"
  /\ FailPreparation(p)

\* tick: the migration deadline has passed.
TimeOut(p) ==
  /\ draining[p] # None => ~draining[p].expired
  /\ pending[p] # None
  /\ pending[p].expired
  /\ FailPreparation(p)

\* Mutant: a commit that was sent is not repeated.
RetryRecordsNoCommit(p) ==
  LET a == pending[p]
      R(type, slot) == Rec(p, type, slot, a.generation, a.token)
  IN  {r \in {R("Prepare", active[p])} : p = "Host" /\ state[p] # "CommitPending"}
        \cup {r \in {R("Probe", a.generation)} : a.opened /\ ~a.proved}
        \cup {r \in {R("Ready", active[p])} : a.proved /\ state[p] # "CommitPending"}

\* tick: what is repeated when the retry timer has fired before the deadline.
\* After Discard (CommitUnconfirmed) there is no replacement socket to write to.
RetryRecords(p) ==
  LET a == pending[p]
      R(type, slot) == Rec(p, type, slot, a.generation, a.token)
  IN  IF state[p] = "CommitPending"
      THEN {R("Commit", CommitSlot(p))}
      ELSE {r \in {R("Prepare", active[p])} : p = "Host"}
             \cup {r \in {R("Probe", a.generation)} :
                      a.opened /\ ~a.proved /\ state[p] # "CommitUnconfirmed"}
             \cup {r \in {R("Ready", active[p])} : a.proved}

Retry(p) ==
  /\ draining[p] # None => ~draining[p].expired
  /\ pending[p] # None
  /\ ~pending[p].expired
  /\ RetryRecords(p) # {}
  /\ UNCHANGED <<state, active, pending, committed, draining, lastRequest>>
  /\ Emit(p, RetryRecords(p), oldFailed[p])

\* The active socket fails while the host waits for its commit (recv_ingress).
OldPathFailed ==
  /\ state["Host"] = "CommitPending"
  /\ ~oldFailed["Host"]
  /\ oldFailed' = [oldFailed EXCEPT !["Host"] = TRUE]
  /\ UNCHANGED <<state, active, pending, committed, draining, lastRequest, sent, lost>>

-----------------------------------------------------------------------------
(* Received records: one action per record type of MigrationController::receive *)

Received(p, r) == r \in sent \ lost /\ r.to = p /\ Readable(p, r.slot)

\* The checks every record of the current attempt passes first.
CurrentAttempt(p, r) ==
  /\ pending[p] # None
  /\ r.generation = pending[p].generation
  /\ r.token = pending[p].token
  /\ ~pending[p].expired

\* Mutant: the host commits on its own proof alone.
ConcludeOneSided(p, st, attempt, records) ==
  LET commits == p = "Host" /\ attempt.proved /\ st = "Ready"
  IN  /\ state' = [state EXCEPT ![p] = IF commits THEN "CommitPending" ELSE st]
      /\ pending' = [pending EXCEPT ![p] = attempt]
      /\ UNCHANGED <<active, committed, draining, lastRequest>>
      /\ Emit(p, records \cup
                 {c \in {Rec(p, "Commit", CommitSlot(p), attempt.generation,
                             attempt.token)} : commits}, oldFailed[p])

\* Mutant: the host sends the commit and goes on sending application data.
ConcludeWithoutSilence(p, st, attempt, records) ==
  /\ state' = [state EXCEPT ![p] = st]
  /\ pending' = [pending EXCEPT ![p] = attempt]
  /\ UNCHANGED <<active, committed, draining, lastRequest>>
  /\ Emit(p, records \cup
             {c \in {Rec(p, "Commit", CommitSlot(p), attempt.generation, attempt.token)} :
                p = "Host" /\ attempt.proved /\ attempt.peerReady}, oldFailed[p])

\* The end of receive(): with both proofs in hand the host sends the commit.
Conclude(p, st, attempt, records) ==
  LET commits == /\ p = "Host" /\ attempt.proved /\ attempt.peerReady
                 /\ st = "Ready"
  IN  /\ state' = [state EXCEPT ![p] = IF commits THEN "CommitPending" ELSE st]
      /\ pending' = [pending EXCEPT ![p] = attempt]
      /\ UNCHANGED <<active, committed, draining, lastRequest>>
      /\ Emit(p, records \cup
                 {c \in {Rec(p, "Commit", CommitSlot(p), attempt.generation,
                             attempt.token)} : commits}, oldFailed[p])

\* A request for an ICE path is answered by an Abort of the next generation.
RefuseRequest ==
  LET next == IF active["Host"] < MaxGeneration
              THEN active["Host"] + 1 ELSE active["Host"]
  IN  /\ UNCHANGED <<state, active, pending, committed, draining>>
      /\ Emit("Host", {Abort("Host", active["Host"], next)}, oldFailed["Host"])

\* The client's Request, an input of the host: it may come at any time, and
\* counts only on the active path.  A request for a direct or a relayed path
\* starts an attempt, unless start() has no generation left.
ReceiveRequest(id) ==
  /\ lastRequest # id
  /\ pending["Host"] = None /\ draining["Host"] = None
  /\ lastRequest' = id
  /\ \/ RefuseRequest
     \/ Start
     \/ /\ active["Host"] = MaxGeneration
        /\ UNCHANGED <<state, active, pending, committed, draining, oldFailed, sent, lost>>

ReceivePrepare(r) ==
  /\ r.type = "Prepare" /\ Received("Client", r)
  /\ r.slot = active["Client"]
  /\ active["Client"] + 1 = r.generation
  /\ UNCHANGED lastRequest
  /\ \/ /\ pending["Client"] = None /\ draining["Client"] = None
        /\ Prepare("Client", r.generation, r.token)
        /\ oldFailed' = [oldFailed EXCEPT !["Client"] = FALSE]
        /\ UNCHANGED <<sent, lost>>
     \/ LET a == pending["Client"]
            R(type, slot) == Rec("Client", type, slot, r.generation, r.token)
        IN  /\ a # None
            /\ a.generation = r.generation /\ a.token = r.token
            /\ a.opened
            /\ UNCHANGED <<state, active, pending, committed, draining>>
            /\ Emit("Client", {IF a.proved THEN R("Ready", r.slot)
                                           ELSE R("Probe", r.generation)},
                    oldFailed["Client"])

\* An Abort names no token: it ends whatever attempt at that generation the
\* receiver has not yet committed.
ReceiveAbort(p, r) ==
  /\ r.type = "Abort" /\ Received(p, r)
  /\ pending[p] # None
  /\ pending[p].generation = r.generation
  /\ r.slot = active[p]
  /\ state[p] \in {"Preparing", "Ready"}
  /\ pending' = [pending EXCEPT ![p] = None]
  /\ state' = [state EXCEPT ![p] = "Failed"]
  /\ UNCHANGED <<active, committed, draining, oldFailed, lastRequest, sent, lost>>

ReceiveProbe(p, r) ==
  /\ r.type = "Probe" /\ Received(p, r)
  /\ CurrentAttempt(p, r)
  /\ pending[p].opened
  /\ r.slot = r.generation
  /\ Conclude(p, state[p], pending[p],
              {Rec(p, "ProbeAck", r.generation, r.generation, r.token)})

ReceiveProbeAck(p, r) ==
  /\ r.type = "ProbeAck" /\ Received(p, r)
  /\ CurrentAttempt(p, r)
  /\ pending[p].opened /\ ~pending[p].proved
  /\ r.slot = r.generation
  /\ Conclude(p, "Ready", [pending[p] EXCEPT !.proved = TRUE],
              {Rec(p, "Ready", active[p], r.generation, r.token)})

ReceiveReady(p, r) ==
  /\ r.type = "Ready" /\ Received(p, r)
  /\ CurrentAttempt(p, r)
  /\ r.slot = active[p]
  /\ Conclude(p, state[p], [pending[p] EXCEPT !.peerReady = TRUE], {})

\* The client commits, or repeats the acknowledgement of what it committed.
ReceiveCommit(r) ==
  /\ r.type = "Commit" /\ Received("Client", r)
  /\ UNCHANGED lastRequest
  /\ \/ /\ committed["Client"] = <<r.generation, r.token>>
        /\ AcceptsApplication("Client", r.slot)
        /\ UNCHANGED <<state, active, pending, committed, draining>>
        /\ Emit("Client", {Rec("Client", "CommitAck", r.generation, r.generation, r.token)},
                oldFailed["Client"])
     \/ /\ CurrentAttempt("Client", r)
        /\ pending["Client"].proved
        /\ r.slot \in {active["Client"], r.generation}
        /\ Activate("Client")
        /\ Emit("Client", {Rec("Client", "CommitAck", r.generation, r.generation, r.token)},
                oldFailed["Client"])

ReceiveCommitAck(r) ==
  /\ r.type = "CommitAck" /\ Received("Host", r)
  /\ CurrentAttempt("Host", r)
  /\ state["Host"] = "CommitPending"
  /\ r.slot = r.generation
  /\ Activate("Host")
  /\ UNCHANGED <<oldFailed, lastRequest, sent, lost>>

-----------------------------------------------------------------------------
(* Time and the network *)

\* Instant::now() passes the attempt's deadline.
DeadlinePasses(p) ==
  /\ pending[p] # None /\ ~pending[p].expired
  /\ pending' = [pending EXCEPT ![p].expired = TRUE]
  /\ UNCHANGED <<state, active, committed, draining, oldFailed, lastRequest, sent, lost>>

\* Instant::now() passes the end of the drain grace.
GracePasses(p) ==
  /\ draining[p] # None /\ ~draining[p].expired
  /\ draining' = [draining EXCEPT ![p].expired = TRUE]
  /\ UNCHANGED <<state, active, pending, committed, oldFailed, lastRequest, sent, lost>>

\* A record whose type is not in Losable is lost by never being received.
Lose(r) ==
  /\ r.type \in Losable
  /\ r \in sent \ lost
  /\ lost' = lost \cup {r}
  /\ UNCHANGED <<control, sent>>

Local(p) == \/ Opened(p) \/ AbortPreparation(p) \/ Retire(p) \/ TimeOut(p)
            \/ Retry(p) \/ DeadlinePasses(p) \/ GracePasses(p)

Receive(r) == \/ ReceivePrepare(r) \/ ReceiveCommit(r)
              \/ ReceiveCommitAck(r)
              \/ \E p \in Peers : \/ ReceiveAbort(p, r) \/ ReceiveProbe(p, r)
                                  \/ ReceiveProbeAck(p, r) \/ ReceiveReady(p, r)

Next ==
  \/ MigrateTo
  \/ OldPathFailed
  \/ \E p \in Peers : Local(p)
  \/ \E id \in RequestIds : ReceiveRequest(id)
  \/ \E r \in sent : Receive(r)
  \/ \E r \in sent : Lose(r)

Spec == Init /\ [][Next]_vars

-----------------------------------------------------------------------------
(* Fairness: recv() ticks at least every COMMIT_RETRY while busy, an open       *)
(* either finishes or fails, and both paths are fair-lossy: a record repeated   *)
(* for ever is written and received for ever often.                             *)

PromptFairness ==
  /\ WF_vars(\E p \in Peers : Opened(p))
  /\ WF_vars(\E p \in Peers : TimeOut(p))
  /\ WF_vars(\E p \in Peers : GracePasses(p))
  /\ WF_vars(\E p \in Peers : Retire(p))
  /\ \A p \in Peers : SF_vars(/\ Retry(p) /\ oldFailed' = oldFailed
                             /\ RetryRecords(p) \subseteq sent' \ lost')
  /\ SF_vars(\E r \in sent, p \in Peers : ReceiveProbe(p, r))
  /\ SF_vars(\E r \in sent, p \in Peers : ReceiveProbeAck(p, r))
  /\ SF_vars(\E r \in sent, p \in Peers : ReceiveReady(p, r))
  /\ SF_vars(\E r \in sent : ReceivePrepare(r))
  /\ SF_vars(\E r \in sent : ReceiveCommit(r))
  /\ SF_vars(\E r \in sent : ReceiveCommitAck(r))

\* No deadline need ever pass: whatever completes, completes by the retries.
PromptSpec == Spec /\ PromptFairness

\* Time passes, and tick() is called again and again.
TimePasses ==
  \A p \in Peers : /\ WF_vars(DeadlinePasses(p)) /\ WF_vars(TimeOut(p))
                    /\ WF_vars(GracePasses(p)) /\ WF_vars(Retire(p))

-----------------------------------------------------------------------------
(* Liveness, each property under the fairness it needs *)

\* The host's attempt does not hang while its deadline is away, the client is
\* working on the same attempt (or is free to) and does not keep failing: the
\* retransmissions of tick() carry it to the client's commit.
HandshakeCompletes ==
  PromptFairness =>
  []<>~(/\ pending["Host"] # None /\ ~pending["Host"].expired
        /\ state["Host"] # "CommitUnconfirmed"
        /\ active["Client"] = active["Host"]
        /\ state["Client"] # "Failed"
        /\ pending["Client"] # None =>
             /\ pending["Client"].token = pending["Host"].token
             /\ ~pending["Client"].expired)

\* "A committed responder repeats the ACK even when the first send was lost"
\* (receive() in path.rs): a host whose deadline is away is not left waiting for
\* the acknowledgement of a client that has committed.
LostAckIsRepeated ==
  []<>~(/\ state["Host"] = "CommitPending" /\ ~pending["Host"].expired
        /\ active["Client"] # active["Host"])

\* Every attempt is settled in bounded time at each peer: it is activated,
\* dropped, or the host reports the terminal CommitUnconfirmed; and there is no
\* indefinite dual-path mode, for a draining path is always retired.
AttemptSettles ==
  TimePasses => \A p \in Peers :
    /\ (pending[p] # None) ~> (pending[p] = None \/ state[p] = "CommitUnconfirmed")
    /\ (draining[p] # None) ~> (draining[p] = None)

-----------------------------------------------------------------------------
(* Safety *)

\* The generations of the two peers differ by at most one commit in flight: the
\* host follows the client (activate() on CommitAck), it never leads it, and
\* whenever both are on the same generation they got there by the same token.
Agreement ==
  /\ active["Client"] \in {active["Host"], active["Host"] + 1}
  /\ active["Client"] = active["Host"] => committed["Client"] = committed["Host"]

\* Once the client may have left the old path the host sends no application
\* data (application_slot() errs), and as long as the host sends any it sends it
\* on the path the client has selected: no split brain.
NoSplitBrain ==
  /\ active["Client"] # active["Host"] =>
       /\ ApplicationSlot("Host") = None
       /\ committed["Client"] = <<pending["Host"].generation, pending["Host"].token>>
  /\ ApplicationSlot("Host") # None => ApplicationSlot("Host") = active["Client"]

\* A commit is only ever sent for a replacement both peers have proved: each
\* got an answer to its own probe over that very path, under that very token.
CommitNeedsTwoWayProof ==
  \A r \in sent : r.type = "Commit" =>
    \A p \in Peers : \E a \in sent :
      /\ a.type = "ProbeAck" /\ a.to = p
      /\ a.slot = r.generation /\ a.generation = r.generation /\ a.token = r.token

\* An acknowledgement on the wire means a durable commit: the client had made
\* the generation active, under that token, before it answered.
AckIsDurable ==
  \A r \in sent : r.type = "CommitAck" =>
    /\ r.generation <= active["Client"]
    /\ r.generation = active["Client"] =>
         committed["Client"] = <<r.generation, r.token>>

\* At most one replacement exists: no attempt starts while the previous old
\* path still drains, and the attempt is always for the next generation.
OneReplacement ==
  \A p \in Peers : pending[p] # None =>
    /\ draining[p] = None
    /\ pending[p].generation = active[p] + 1

\* No rollback: a host that has sent its commit either follows the client or
\* stays silent; the session never uses the old generation again.
NoRollback ==
  [][state["Host"] \in {"CommitPending", "CommitUnconfirmed"} =>
       \/ ApplicationSlot("Host")' = None
       \/ active'["Host"] = active["Host"] + 1 /\ active'["Client"] = active'["Host"]
    ]_vars

-----------------------------------------------------------------------------
(* The migration implements the handoff promised to the session above it *)

HostPhase == CASE state["Host"] = "CommitPending"     -> "silent"
               [] state["Host"] = "CommitUnconfirmed" -> "unconfirmed"
               [] OTHER                               -> "sending"

Handoff == INSTANCE PathHandoff
             WITH hostGeneration   <- active["Host"],
                  clientGeneration <- active["Client"],
                  host             <- HostPhase

\* Every step of the two controllers is a step of the abstract handoff.
ImplementsHandoff == Handoff!Spec
=============================================================================
