------------------------- MODULE PathMigrationProofs -------------------------
(***************************************************************************)
(* Proofs about PathMigration, for every set of tokens and request ids and *)
(* every largest generation.  The inductive invariant relates the host's   *)
(* state, the client's state and the Commit and CommitAck records that may *)
(* still arrive.                                                           *)
(***************************************************************************)
EXTENDS PathMigration, TLAPS

Settling == {"CommitPending", "CommitUnconfirmed"}

\* Only the host waits for a commit, and it still has the attempt it committed,
\* with the replacement proved: a late ProbeAck cannot take it back to Ready.
SettlingHasAttempt ==
  /\ state["Host"] \in Settling => pending["Host"] # None /\ pending["Host"].proved
  /\ state["Client"] \notin Settling

\* A Commit that may still arrive names a generation the host has reached, or
\* the very attempt the host is silent about.
CommitsAreCurrent ==
  \A r \in sent : r.type = "Commit" =>
    /\ r.to = "Client"
    /\ \/ r.generation <= active["Host"]
       \/ /\ state["Host"] \in Settling
          /\ r.generation = pending["Host"].generation
          /\ r.token = pending["Host"].token

\* What a peer remembers as committed is the generation it is on.
CommittedIsActive ==
  \A p \in Peers : committed[p] # None => committed[p][1] = active[p]

IInv == /\ TypeOK
        /\ Agreement
        /\ NoSplitBrain
        /\ AckIsDurable
        /\ OneReplacement
        /\ SettlingHasAttempt
        /\ CommitsAreCurrent
        /\ CommittedIsActive

-----------------------------------------------------------------------------

\* The initial state of the two controllers is well typed.
LEMMA InitTypeOK == Init => TypeOK
BY MaxGenerationAssumption
   DEF Init, TypeOK, Peers, MigrationState, Generations, PathControl

\* Writing records of the protocol, successfully or not, keeps the types.
LEMMA EmitTypeOK ==
  ASSUME TypeOK, NEW p \in Peers, NEW STATE records, NEW STATE base,
         base \in BOOLEAN, records \subseteq PathControl, Emit(p, records, base)
  PROVE  /\ sent' \subseteq PathControl
         /\ lost' \subseteq sent'
         /\ oldFailed' \in [Peers -> BOOLEAN]
BY DEF Emit, TypeOK

\* Every step of the controllers, their drivers and the network keeps the types.
LEMMA NextTypeOK == TypeOK /\ [Next]_vars => TypeOK'
<1> SUFFICES ASSUME TypeOK, [Next]_vars PROVE TypeOK'
  OBVIOUS
<1> USE MaxGenerationAssumption, NoneAssumption
<1>a. \A p \in Peers : oldFailed[p] \in BOOLEAN
  BY DEF TypeOK
<1>b. \A p \in Peers : pending[p] # None => pending[p] \in PendingMigration
  BY DEF TypeOK
<1>c. \A p \in Peers : draining[p] # None => draining[p] \in DrainingSlot
  BY DEF TypeOK
<1>d. \A p \in Peers : Peer(p) \in Peers
  BY DEF Peers, Peer
<1>e. "Host" \in Peers /\ "Client" \in Peers
  BY DEF Peers
<1>1. CASE UNCHANGED vars
  BY <1>1 DEF TypeOK, vars, control
<1>2. ASSUME Start PROVE /\ sent' \subseteq PathControl
                         /\ lost' \subseteq sent'
                         /\ oldFailed' \in [Peers -> BOOLEAN]
                         /\ state' \in [Peers -> MigrationState]
                         /\ pending' \in [Peers -> PendingMigration \cup {None}]
                         /\ UNCHANGED <<active, committed, draining>>
  <2> DEFINE g == active["Host"] + 1
  <2>1. g \in Generations
    BY <1>2, <1>e DEF Start, TypeOK, Generations
  <2> HIDE DEF g
  <2>2. PICK token \in Tokens :
          /\ Prepare("Host", g, token)
          /\ Emit("Host", {Rec("Host", "Prepare", active["Host"], g, token)}, FALSE)
    BY <1>2 DEF Start, g
  <2> DEFINE records == {Rec("Host", "Prepare", active["Host"], g, token)}
  <2>3. records \subseteq PathControl
    BY <2>1, <1>d, <1>e DEF Rec, PathControl, TokenRecord, TypeOK
  <2>4. Emit("Host", records, FALSE)
    BY <2>2
  <2> HIDE DEF records
  <2>5. /\ sent' \subseteq PathControl
        /\ lost' \subseteq sent'
        /\ oldFailed' \in [Peers -> BOOLEAN]
    BY <2>3, <2>4, <1>e, EmitTypeOK
  <2>6. QED
    BY <2>1, <2>2, <2>5 DEF Prepare, TypeOK, PendingMigration, MigrationState
<1>3. CASE MigrateTo
  BY <1>2, <1>3 DEF MigrateTo, TypeOK
<1>4. CASE OldPathFailed
  BY <1>4 DEF OldPathFailed, TypeOK
<1>5. ASSUME NEW p \in Peers, Local(p) PROVE TypeOK'
  <2>1. CASE Opened(p)
    <3> DEFINE records == {Rec(p, "Probe", pending[p].generation, pending[p].generation,
                               pending[p].token)}
    <3>1. records \subseteq PathControl
      BY <2>1, <1>b, <1>d DEF Opened, Rec, PathControl, TokenRecord, PendingMigration
    <3>2. Emit(p, records, oldFailed[p])
      BY <2>1 DEF Opened
    <3> HIDE DEF records
    <3>3. /\ sent' \subseteq PathControl
          /\ lost' \subseteq sent'
          /\ oldFailed' \in [Peers -> BOOLEAN]
      BY <3>1, <3>2, <1>a, EmitTypeOK
    <3>4. [pending[p] EXCEPT !.opened = TRUE] \in PendingMigration
      BY <2>1, <1>b DEF Opened, PendingMigration
    <3>5. pending' \in [Peers -> PendingMigration \cup {None}]
      BY <2>1, <3>4 DEF Opened, TypeOK
    <3>6. QED
      BY <2>1, <3>3, <3>5 DEF Opened, TypeOK
  <2>2. ASSUME FailPreparation(p), pending[p] # None PROVE TypeOK'
    <3>1. CASE state[p] \in {"CommitPending", "CommitUnconfirmed"}
      BY <2>2, <3>1 DEF FailPreparation, TypeOK, MigrationState
    <3>2. CASE state[p] \notin {"CommitPending", "CommitUnconfirmed"}
      <4> DEFINE records == {Abort(p, active[p], pending[p].generation)}
      <4>1. records \subseteq PathControl
        BY <2>2, <1>b, <1>d DEF Abort, PathControl, AbortRecord, PendingMigration, TypeOK
      <4>2. Emit(p, records, oldFailed[p])
        BY <2>2, <3>2 DEF FailPreparation
      <4> HIDE DEF records
      <4>3. /\ sent' \subseteq PathControl
            /\ lost' \subseteq sent'
            /\ oldFailed' \in [Peers -> BOOLEAN]
        BY <4>1, <4>2, <1>a, EmitTypeOK
      <4>4. QED
        BY <2>2, <3>2, <4>3 DEF FailPreparation, TypeOK, MigrationState
    <3>3. QED
      BY <3>1, <3>2
  <2>3. CASE AbortPreparation(p)
    BY <2>2, <2>3 DEF AbortPreparation
  <2>4. CASE Retire(p)
    BY <2>4 DEF Retire, TypeOK
  <2>5. CASE TimeOut(p)
    BY <2>2, <2>5 DEF TimeOut
  <2>6. CASE Retry(p)
    <3>1. RetryRecords(p) \subseteq PathControl
      BY <2>6, <1>b, <1>d DEF Retry, RetryRecords, CommitSlot, Rec, PathControl, TokenRecord,
                              PendingMigration, TypeOK
    <3>2. /\ sent' \subseteq PathControl
          /\ lost' \subseteq sent'
          /\ oldFailed' \in [Peers -> BOOLEAN]
      BY <2>6, <3>1, <1>a, EmitTypeOK DEF Retry
    <3>3. QED
      BY <2>6, <3>2 DEF Retry, TypeOK
  <2>7. CASE DeadlinePasses(p)
    <3>1. [pending[p] EXCEPT !.expired = TRUE] \in PendingMigration
      BY <2>7, <1>b DEF DeadlinePasses, PendingMigration
    <3>2. QED
      BY <2>7, <3>1 DEF DeadlinePasses, TypeOK
  <2>8. CASE GracePasses(p)
    <3>1. [draining[p] EXCEPT !.expired = TRUE] \in DrainingSlot
      BY <2>8, <1>c DEF GracePasses, DrainingSlot
    <3>2. QED
      BY <2>8, <3>1 DEF GracePasses, TypeOK
  <2>9. QED
    BY <1>5, <2>1, <2>3, <2>4, <2>5, <2>6, <2>7, <2>8 DEF Local
<1>6. ASSUME NEW id \in RequestIds, ReceiveRequest(id) PROVE TypeOK'
  <2>1. CASE RefuseRequest
    <3> DEFINE next == IF active["Host"] < MaxGeneration
                       THEN active["Host"] + 1 ELSE active["Host"]
               records == {Abort("Host", active["Host"], next)}
    <3>1. records \subseteq PathControl
      BY <1>d, <1>e DEF Abort, PathControl, AbortRecord, TypeOK, Generations
    <3>2. Emit("Host", records, oldFailed["Host"]) /\ lastRequest' = id
          /\ UNCHANGED <<state, active, pending, committed, draining>>
      BY <1>6, <2>1 DEF ReceiveRequest, RefuseRequest
    <3> HIDE DEF records
    <3>3. /\ sent' \subseteq PathControl
          /\ lost' \subseteq sent'
          /\ oldFailed' \in [Peers -> BOOLEAN]
      BY <3>1, <3>2, <1>a, <1>e, EmitTypeOK
    <3>4. QED
      BY <3>2, <3>3 DEF TypeOK
  <2>2. CASE Start
    BY <1>2, <1>6, <2>2 DEF ReceiveRequest, TypeOK
  <2>3. CASE UNCHANGED <<state, active, pending, committed, draining, oldFailed, sent, lost>>
    BY <1>6, <2>3 DEF ReceiveRequest, TypeOK
  <2>4. QED
    BY <1>6, <2>1, <2>2, <2>3 DEF ReceiveRequest
<1>7. ASSUME NEW r \in sent, Receive(r) PROVE TypeOK'
  <2>a. r \in PathControl
    BY DEF TypeOK
  <2>b. r.type # "Abort" => r.generation \in Generations /\ r.token \in Tokens
    BY <2>a DEF PathControl, TokenRecord, AbortRecord
  <2>2. CASE ReceivePrepare(r)
    <3>0. r.generation \in Generations /\ r.token \in Tokens /\ r.slot \in Generations
      BY <2>2, <2>a, <2>b DEF ReceivePrepare, PathControl, TokenRecord, AbortRecord
    <3>1. CASE Prepare("Client", r.generation, r.token) /\ UNCHANGED <<sent, lost>>
               /\ oldFailed' = [oldFailed EXCEPT !["Client"] = FALSE]
      BY <2>2, <3>0, <3>1 DEF ReceivePrepare, Prepare, TypeOK, PendingMigration, MigrationState
    <3>2. CASE ~(Prepare("Client", r.generation, r.token) /\ UNCHANGED <<sent, lost>>
                 /\ oldFailed' = [oldFailed EXCEPT !["Client"] = FALSE])
      <4> DEFINE ready == Rec("Client", "Ready", r.slot, r.generation, r.token)
                 probe == Rec("Client", "Probe", r.generation, r.generation, r.token)
                 records == {IF pending["Client"].proved THEN ready ELSE probe}
      <4>1. records \subseteq PathControl
        BY <3>0, <1>d, <1>e DEF Rec, PathControl, TokenRecord
      <4>2. Emit("Client", records, oldFailed["Client"])
            /\ UNCHANGED <<state, active, pending, committed, draining, lastRequest>>
        BY <2>2, <3>2 DEF ReceivePrepare
      <4> HIDE DEF records
      <4>3. /\ sent' \subseteq PathControl
            /\ lost' \subseteq sent'
            /\ oldFailed' \in [Peers -> BOOLEAN]
        BY <4>1, <4>2, <1>a, <1>e, EmitTypeOK
      <4>4. QED
        BY <4>2, <4>3 DEF TypeOK
    <3>3. QED
      BY <3>1, <3>2
  <2>3. CASE ReceiveCommit(r)
    <3> DEFINE records == {Rec("Client", "CommitAck", r.generation, r.generation, r.token)}
    <3>1. records \subseteq PathControl
      BY <2>3, <2>b, <1>d, <1>e DEF ReceiveCommit, Rec, PathControl, TokenRecord
    <3>2. Emit("Client", records, oldFailed["Client"])
      BY <2>3 DEF ReceiveCommit
    <3> HIDE DEF records
    <3>3. /\ sent' \subseteq PathControl
          /\ lost' \subseteq sent'
          /\ oldFailed' \in [Peers -> BOOLEAN]
      BY <3>1, <3>2, <1>a, <1>e, EmitTypeOK
    <3>4. CASE UNCHANGED <<state, active, pending, committed, draining>>
      BY <2>3, <3>3, <3>4 DEF ReceiveCommit, TypeOK
    <3>5. CASE CurrentAttempt("Client", r) /\ Activate("Client")
      <4>1. pending["Client"] \in PendingMigration
        BY <3>5, <1>b, <1>e DEF CurrentAttempt
      <4>2. QED
        BY <2>3, <3>3, <3>5, <4>1, <1>e
           DEF ReceiveCommit, Activate, TypeOK, MigrationState, PendingMigration, DrainingSlot
    <3>6. QED
      BY <2>3, <3>4, <3>5 DEF ReceiveCommit
  <2>4. CASE ReceiveCommitAck(r)
    <3>1. pending["Host"] \in PendingMigration
      BY <2>4, <1>b, <1>e DEF ReceiveCommitAck, CurrentAttempt
    <3>2. QED
      BY <2>4, <3>1, <1>e
         DEF ReceiveCommitAck, Activate, TypeOK, MigrationState, PendingMigration, DrainingSlot
  <2>5. ASSUME NEW p \in Peers, ReceiveAbort(p, r) PROVE TypeOK'
    BY <2>5 DEF ReceiveAbort, TypeOK, MigrationState
  <2>6. ASSUME NEW p \in Peers, NEW STATE st, NEW STATE attempt, NEW STATE records,
               Conclude(p, st, attempt, records), st \in MigrationState,
               pending[p] # None, attempt \in PendingMigration, records \subseteq PathControl
        PROVE  TypeOK'
    <3> DEFINE commits == p = "Host" /\ attempt.proved /\ attempt.peerReady /\ st = "Ready"
               all == records \cup
                        {c \in {Rec(p, "Commit", CommitSlot(p), attempt.generation,
                                    attempt.token)} : commits}
    <3>1. all \subseteq PathControl
      BY <2>6, <1>b, <1>d DEF CommitSlot, Rec, PathControl, TokenRecord, PendingMigration, TypeOK
    <3>2. Emit(p, all, oldFailed[p])
      BY <2>6 DEF Conclude
    <3> HIDE DEF all
    <3>3. /\ sent' \subseteq PathControl
          /\ lost' \subseteq sent'
          /\ oldFailed' \in [Peers -> BOOLEAN]
      BY <3>1, <3>2, <1>a, EmitTypeOK
    <3>4. QED
      BY <2>6, <3>3 DEF Conclude, TypeOK, MigrationState
  <2>7. ASSUME NEW p \in Peers, ReceiveProbe(p, r) PROVE TypeOK'
    <3>1. {Rec(p, "ProbeAck", r.generation, r.generation, r.token)} \subseteq PathControl
      BY <2>7, <2>b, <1>d DEF ReceiveProbe, Rec, PathControl, TokenRecord
    <3>2. pending[p] # None /\ pending[p] \in PendingMigration /\ state[p] \in MigrationState
      BY <2>7, <1>b DEF ReceiveProbe, CurrentAttempt, TypeOK
    <3>3. QED
      BY <2>6, <2>7, <3>1, <3>2 DEF ReceiveProbe
  <2>8. ASSUME NEW p \in Peers, ReceiveProbeAck(p, r) PROVE TypeOK'
    <3>1. {Rec(p, "Ready", active[p], r.generation, r.token)} \subseteq PathControl
      BY <2>8, <2>b, <1>d DEF ReceiveProbeAck, Rec, PathControl, TokenRecord, TypeOK
    <3>2. pending[p] # None /\ pending[p] \in PendingMigration
      BY <2>8, <1>b DEF ReceiveProbeAck, CurrentAttempt, TypeOK
    <3>3. [pending[p] EXCEPT !.proved = TRUE] \in PendingMigration
      BY <3>2 DEF PendingMigration
    <3>4. QED
      BY <2>6, <2>8, <3>1, <3>2, <3>3 DEF ReceiveProbeAck, MigrationState
  <2>9. ASSUME NEW p \in Peers, ReceiveReady(p, r) PROVE TypeOK'
    <3>1. pending[p] # None /\ pending[p] \in PendingMigration /\ state[p] \in MigrationState
      BY <2>9, <1>b DEF ReceiveReady, CurrentAttempt, TypeOK
    <3>2. [pending[p] EXCEPT !.peerReady = TRUE] \in PendingMigration
      BY <3>1 DEF PendingMigration
    <3>3. QED
      BY <2>6, <2>9, <3>1, <3>2 DEF ReceiveReady
  <2>10. QED
    BY <1>7, <2>2, <2>3, <2>4, <2>5, <2>7, <2>8, <2>9 DEF Receive
<1>8. ASSUME NEW r \in sent, Lose(r) PROVE TypeOK'
  BY <1>8 DEF Lose, control, TypeOK
<1>9. QED
  BY <1>1, <1>3, <1>4, <1>5, <1>6, <1>7, <1>8 DEF Next

\* TypeOK is an invariant of the migration protocol.
THEOREM TypeCorrect == Spec => []TypeOK
BY InitTypeOK, NextTypeOK, PTL DEF Spec

-----------------------------------------------------------------------------
(* Agreement, no split brain, durable acknowledgements *)

\* What Emit does to the set of records.
LEMMA EmitRecords ==
  ASSUME NEW p, NEW STATE records, NEW STATE base, Emit(p, records, base)
  PROVE  sent \subseteq sent' /\ sent' \subseteq sent \cup records
BY DEF Emit

\* A step that activates nothing, keeps a silent host silent about the same
\* attempt, and adds no CommitAck and only the Commit of that attempt.
Harmless ==
  /\ UNCHANGED <<active, committed>>
  /\ state["Host"] \in Settling =>
       /\ state'["Host"] \in Settling
       /\ pending'["Host"] # None
       /\ pending'["Host"].generation = pending["Host"].generation
       /\ pending'["Host"].token = pending["Host"].token
  /\ state'["Host"] \in Settling => pending'["Host"] # None /\ pending'["Host"].proved
  /\ state["Host"] = "CommitUnconfirmed" => state'["Host"] = "CommitUnconfirmed"
  /\ state'["Host"] = "CommitUnconfirmed" =>
       state["Host"] = "CommitPending" \/ state["Host"] = "CommitUnconfirmed"
  /\ state'["Client"] \notin Settling
  /\ \A r \in sent' \ sent :
       /\ r.type # "CommitAck"
       /\ r.type = "Commit" => /\ r.to = "Client"
                               /\ state'["Host"] \in Settling
                               /\ r.generation = pending'["Host"].generation
                               /\ r.token = pending'["Host"].token

\* A harmless step preserves every part of the invariant but the attempts' own.
LEMMA HarmlessKeeps ==
  ASSUME IInv, TypeOK', Harmless
  PROVE  (Agreement /\ NoSplitBrain /\ AckIsDurable /\ SettlingHasAttempt /\ CommitsAreCurrent
          /\ CommittedIsActive)'
<1> USE DEF IInv, Harmless
<1>1. Agreement'
  BY DEF Agreement
<1>2. NoSplitBrain'
  <2>1. ApplicationSlot("Host") = None <=> state["Host"] \in Settling
    BY NoneAssumption DEF ApplicationSlot, Settling, TypeOK, Peers
  <2>2. ApplicationSlot("Host")' = None <=> state'["Host"] \in Settling
    BY NoneAssumption DEF ApplicationSlot, Settling, TypeOK, Peers
  <2>3. ApplicationSlot("Host")' # None => ApplicationSlot("Host")' = active'["Host"]
    BY DEF ApplicationSlot
  <2>4. ASSUME active'["Client"] # active'["Host"]
        PROVE  /\ ApplicationSlot("Host")' = None
               /\ committed'["Client"] = <<pending'["Host"].generation, pending'["Host"].token>>
    BY <2>1, <2>2, <2>4 DEF NoSplitBrain
  <2>5. QED
    BY <2>3, <2>4 DEF NoSplitBrain
<1>3. AckIsDurable'
  BY DEF AckIsDurable
<1>4. SettlingHasAttempt'
  BY DEF SettlingHasAttempt
<1>5. CommitsAreCurrent'
  BY DEF CommitsAreCurrent
<1>6. CommittedIsActive'
  BY DEF CommittedIsActive
<1>7. QED
  BY <1>1, <1>2, <1>3, <1>4, <1>5, <1>6

\* Starting an attempt at the host, which is neither busy nor silent.
LEMMA StartKeeps ==
  ASSUME IInv, Start PROVE Harmless /\ OneReplacement'
<1>1. /\ pending["Host"] = None /\ draining["Host"] = None
      /\ state["Host"] # "CommitUnconfirmed"
  BY DEF Start, Busy
<1>2. state["Host"] \notin Settling
  BY <1>1 DEF IInv, SettlingHasAttempt
<1>3. PICK token \in Tokens :
        /\ Prepare("Host", active["Host"] + 1, token)
        /\ Emit("Host", {Rec("Host", "Prepare", active["Host"], active["Host"] + 1, token)},
                FALSE)
  BY DEF Start
<1>4. \A r \in sent' \ sent : r.type = "Prepare"
  <2>1. sent' \subseteq sent \cup
          {Rec("Host", "Prepare", active["Host"], active["Host"] + 1, token)}
    BY <1>3, EmitRecords
  <2>2. QED
    BY <2>1 DEF Rec
<1>5. state' = [state EXCEPT !["Host"] = "Preparing"] /\ UNCHANGED <<active, committed, draining>>
  BY <1>3 DEF Prepare
<1>6. pending' = [pending EXCEPT !["Host"] =
        [generation |-> active["Host"] + 1, token |-> token, opened |-> FALSE,
         proved |-> FALSE, peerReady |-> FALSE, expired |-> FALSE]]
  BY <1>3 DEF Prepare
<1>7. OneReplacement'
  BY <1>1, <1>5, <1>6 DEF OneReplacement, IInv, TypeOK, Peers
<1>8. Harmless
  <2>1. state'["Host"] = "Preparing" /\ state'["Client"] = state["Client"]
    BY <1>5 DEF IInv, TypeOK, Peers
  <2>2. QED
    BY <1>2, <1>4, <1>5, <2>1 DEF Harmless, Settling, IInv, SettlingHasAttempt
<1>9. QED
  BY <1>7, <1>8

\* Failing an attempt leaves a silent host silent.
LEMMA FailPreparationKeeps ==
  ASSUME IInv, NEW p \in Peers, FailPreparation(p), pending[p] # None
  PROVE  Harmless /\ OneReplacement'
<1>1. CASE state[p] \in Settling
  <2>1. /\ state' = [state EXCEPT ![p] = "CommitUnconfirmed"]
        /\ UNCHANGED <<active, committed, draining, pending, sent>>
    BY <1>1 DEF FailPreparation, Settling
  <2>2. QED
    BY <1>1, <2>1 DEF Harmless, IInv, OneReplacement, SettlingHasAttempt, Settling, TypeOK, Peers
<1>2. CASE state[p] \notin Settling
  <2>1. /\ state' = [state EXCEPT ![p] = "Failed"]
        /\ pending' = [pending EXCEPT ![p] = None]
        /\ UNCHANGED <<active, committed, draining>>
        /\ Emit(p, {Abort(p, active[p], pending[p].generation)}, oldFailed[p])
    BY <1>2 DEF FailPreparation, Settling
  <2>2. \A r \in sent' \ sent : r.type = "Abort"
    BY <2>1, EmitRecords DEF Abort
  <2>3. QED
    BY <1>2, <2>1, <2>2
       DEF Harmless, IInv, OneReplacement, SettlingHasAttempt, Settling, TypeOK, Peers
<1>3. QED
  BY <1>1, <1>2

\* The end of receive(): only a host in Ready becomes silent, about the attempt
\* whose Commit it sends in the same step.
LEMMA ConcludeKeeps ==
  ASSUME IInv, NEW p \in Peers, NEW STATE st, NEW STATE attempt, NEW STATE records,
         Conclude(p, st, attempt, records), pending[p] # None,
         st = state[p] \/ (st = "Ready" /\ state[p] \notin Settling),
         attempt \in PendingMigration,
         attempt.generation = pending[p].generation, attempt.token = pending[p].token,
         pending[p].proved => attempt.proved,
         \A r \in records : r.type \notin {"Commit", "CommitAck"}
  PROVE  Harmless /\ OneReplacement'
<1> DEFINE commits == p = "Host" /\ attempt.proved /\ attempt.peerReady /\ st = "Ready"
           commit == Rec(p, "Commit", CommitSlot(p), attempt.generation, attempt.token)
           all == records \cup {c \in {commit} : commits}
<1>1. /\ state' = [state EXCEPT ![p] = IF commits THEN "CommitPending" ELSE st]
      /\ pending' = [pending EXCEPT ![p] = attempt]
      /\ UNCHANGED <<active, committed, draining>>
      /\ Emit(p, all, oldFailed[p])
  BY DEF Conclude
<1>2. \A r \in sent' \ sent : r \in all
  <2> HIDE DEF all
  <2> QED
    BY <1>1, EmitRecords
<1>3. \A r \in sent' \ sent :
        /\ r.type # "CommitAck"
        /\ r.type = "Commit" =>
             commits /\ r.to = "Client" /\ r.generation = attempt.generation
                     /\ r.token = attempt.token
  BY <1>2 DEF Rec, Peer
<1>4. attempt # None
  BY NoneAssumption
<1>5. pending'[p] = attempt
  BY <1>1 DEF IInv, TypeOK
<1>6. state'[p] = IF commits THEN "CommitPending" ELSE st
  BY <1>1 DEF IInv, TypeOK
<1> HIDE DEF commits
<1>7. \A q \in Peers : q # p => pending'[q] = pending[q] /\ state'[q] = state[q]
  BY <1>1 DEF IInv, TypeOK
<1>8. OneReplacement'
  BY <1>1, <1>4, <1>5, <1>7 DEF OneReplacement, IInv
<1>9. commits => p = "Host" /\ "CommitPending" \in Settling
  BY DEF commits, Settling
<1>10. state["Host"] \in Settling =>
         /\ state'["Host"] \in Settling
         /\ pending'["Host"] # None
         /\ pending'["Host"].generation = pending["Host"].generation
         /\ pending'["Host"].token = pending["Host"].token
  BY <1>4, <1>5, <1>6, <1>7, <1>9 DEF IInv, SettlingHasAttempt, Peers
<1>11. /\ state'["Host"] \in Settling => pending'["Host"] # None /\ pending'["Host"].proved
       /\ state'["Client"] \notin Settling
  <2>1. commits => attempt.proved
    BY DEF commits
  <2>2. QED
    BY <1>4, <1>5, <1>6, <1>7, <2>1 DEF IInv, SettlingHasAttempt, Peers, Settling, commits
<1>12. (state["Host"] = "CommitUnconfirmed") <=> (state'["Host"] = "CommitUnconfirmed")
  BY <1>6, <1>7 DEF Settling, commits, Peers
<1>13. Harmless
  BY <1>1, <1>3, <1>5, <1>6, <1>9, <1>10, <1>11, <1>12 DEF Harmless
<1>14. QED
  BY <1>8, <1>13

\* The client accepts a Commit: it moves to the generation the host is silent
\* about, under the host's own token.
LEMMA ReceiveCommitKeeps ==
  ASSUME IInv, TypeOK', NEW r \in sent, ReceiveCommit(r)
  PROVE  IInv'
<1> DEFINE ack == Rec("Client", "CommitAck", r.generation, r.generation, r.token)
<1>1. \A q \in sent' : q \in sent \/ q = ack
  <2>1. Emit("Client", {ack}, oldFailed["Client"])
    BY DEF ReceiveCommit
  <2> HIDE DEF ack
  <2>2. QED
    BY <2>1, EmitRecords
<1>2. /\ ack.type = "CommitAck" /\ ack.to = "Host"
      /\ ack.generation = r.generation /\ ack.token = r.token
  BY DEF Rec, Peer
<1> HIDE DEF ack
<1>3. r.type = "Commit"
  BY DEF ReceiveCommit
<1>4. "Host" \in Peers /\ "Client" \in Peers
  BY DEF Peers
<1>5. active["Host"] \in Nat /\ active["Client"] \in Nat
  BY <1>4 DEF IInv, TypeOK, Generations
<1>6. CASE /\ UNCHANGED <<state, active, pending, committed, draining>>
           /\ committed["Client"] = <<r.generation, r.token>>
  <2>1. r.generation = active["Client"]
    <3>1. r \in TokenRecord
      BY <1>3 DEF IInv, TypeOK, PathControl, AbortRecord
    <3>2. r.generation \in Generations /\ r.token \in Tokens
      BY <3>1 DEF TokenRecord
    <3>3. committed["Client"] # None
      BY <1>6, <3>2, NoneAssumption
    <3>4. QED
      BY <1>6, <3>3, <1>4 DEF IInv, CommittedIsActive
  <2>2. AckIsDurable'
    BY <1>1, <1>2, <1>5, <1>6, <2>1 DEF IInv, AckIsDurable
  <2>3. CommitsAreCurrent'
    BY <1>1, <1>2, <1>6 DEF IInv, CommitsAreCurrent
  <2>4. (Agreement /\ OneReplacement /\ SettlingHasAttempt /\ CommittedIsActive)'
    BY <1>6 DEF IInv, Agreement, OneReplacement, SettlingHasAttempt, CommittedIsActive
  <2>5. NoSplitBrain'
    BY <1>6 DEF IInv, NoSplitBrain, ApplicationSlot
  <2>6. QED
    BY <2>2, <2>3, <2>4, <2>5 DEF IInv
<1>7. CASE CurrentAttempt("Client", r) /\ Activate("Client")
  <2>1. /\ pending["Client"] # None
        /\ r.generation = pending["Client"].generation /\ r.token = pending["Client"].token
        /\ r.generation = active["Client"] + 1
    BY <1>7, <1>4 DEF CurrentAttempt, IInv, OneReplacement
  <2>2. /\ r.generation = active["Host"] + 1
        /\ active["Client"] = active["Host"]
        /\ state["Host"] \in Settling
        /\ r.generation = pending["Host"].generation /\ r.token = pending["Host"].token
    <3>1. r.generation > active["Host"]
      BY <2>1, <1>5 DEF IInv, Agreement
    <3>2. state["Host"] \in Settling /\ r.generation = pending["Host"].generation
          /\ r.token = pending["Host"].token
      BY <3>1, <1>3, <1>5, <2>1 DEF IInv, CommitsAreCurrent
    <3>3. r.generation = active["Host"] + 1
      BY <3>2, <1>4 DEF IInv, OneReplacement, SettlingHasAttempt
    <3>4. QED
      BY <3>2, <3>3, <2>1, <1>5
  <2>3. /\ active'["Client"] = r.generation /\ active'["Host"] = active["Host"]
        /\ committed'["Client"] = <<r.generation, r.token>>
        /\ committed'["Host"] = committed["Host"]
        /\ pending'["Client"] = None /\ pending'["Host"] = pending["Host"]
        /\ state'["Host"] = state["Host"] /\ draining'["Host"] = draining["Host"]
        /\ state'["Client"] = "Active"
    BY <1>7, <1>4, <2>1 DEF Activate, IInv, TypeOK, Peers
  <2>4. Agreement'
    BY <2>2, <2>3, <1>5 DEF Agreement
  <2>5. NoSplitBrain'
    BY <2>2, <2>3 DEF NoSplitBrain, ApplicationSlot, Settling
  <2>6. AckIsDurable'
    <3> SUFFICES ASSUME NEW q \in sent', q.type = "CommitAck"
                 PROVE  /\ q.generation <= active'["Client"]
                        /\ q.generation = active'["Client"] =>
                             committed'["Client"] = <<q.generation, q.token>>
      BY DEF AckIsDurable
    <3>1. CASE q = ack
      BY <3>1, <1>2, <2>3, <2>1, <1>5
    <3>2. CASE q \in sent
      <4>1. q.generation <= active["Client"] /\ q.generation \in Nat
        BY <3>2 DEF IInv, AckIsDurable, TypeOK, PathControl, TokenRecord, AbortRecord, Generations
      <4>2. QED
        BY <4>1, <2>1, <2>3, <1>5
    <3>3. QED
      BY <3>1, <3>2, <1>1
  <2>7. OneReplacement'
    BY <2>3 DEF IInv, OneReplacement, Peers
  <2>8. SettlingHasAttempt'
    BY <2>3 DEF IInv, SettlingHasAttempt, Settling
  <2>9. CommitsAreCurrent'
    BY <2>3, <1>1, <1>2 DEF IInv, CommitsAreCurrent
  <2>10. CommittedIsActive'
    BY <2>3, <1>4 DEF IInv, CommittedIsActive, Peers
  <2>11. QED
    BY <2>4, <2>5, <2>6, <2>7, <2>8, <2>9, <2>10 DEF IInv
<1>8. QED
  BY <1>6, <1>7 DEF ReceiveCommit

\* The host accepts a CommitAck: the client is already on that generation.
LEMMA ReceiveCommitAckKeeps ==
  ASSUME IInv, TypeOK', NEW r \in sent, ReceiveCommitAck(r)
  PROVE  IInv'
<1>1. "Host" \in Peers /\ "Client" \in Peers
  BY DEF Peers
<1>2. active["Host"] \in Nat /\ active["Client"] \in Nat
  BY <1>1 DEF IInv, TypeOK, Generations
<1>3. /\ r.type = "CommitAck" /\ state["Host"] = "CommitPending"
      /\ pending["Host"] # None /\ Activate("Host") /\ UNCHANGED sent
      /\ r.generation = pending["Host"].generation /\ r.token = pending["Host"].token
  BY DEF ReceiveCommitAck, CurrentAttempt
<1>4. r.generation = active["Host"] + 1
  BY <1>3, <1>1 DEF IInv, OneReplacement
<1>5. active["Client"] = r.generation /\ committed["Client"] = <<r.generation, r.token>>
  BY <1>2, <1>3, <1>4 DEF IInv, AckIsDurable, Agreement
<1>6. /\ active'["Host"] = r.generation /\ active'["Client"] = active["Client"]
      /\ committed'["Host"] = <<r.generation, r.token>>
      /\ committed'["Client"] = committed["Client"]
      /\ pending'["Host"] = None /\ pending'["Client"] = pending["Client"]
      /\ state'["Host"] = "Active" /\ draining'["Client"] = draining["Client"]
      /\ state'["Client"] = state["Client"]
  BY <1>3, <1>1 DEF Activate, IInv, TypeOK, Peers
<1>7. Agreement'
  BY <1>2, <1>4, <1>5, <1>6 DEF Agreement
<1>8. NoSplitBrain'
  BY <1>5, <1>6 DEF NoSplitBrain, ApplicationSlot
<1>9. AckIsDurable'
  BY <1>3, <1>6 DEF IInv, AckIsDurable
<1>10. OneReplacement'
  BY <1>6 DEF IInv, OneReplacement, Peers
<1>11. SettlingHasAttempt'
  BY <1>6 DEF IInv, SettlingHasAttempt, Settling
<1>12. CommitsAreCurrent'
  <2> SUFFICES ASSUME NEW q \in sent, q.type = "Commit"
               PROVE  q.to = "Client" /\ q.generation <= active'["Host"]
    BY <1>3 DEF CommitsAreCurrent
  <2>1. q.generation \in Nat
    BY DEF IInv, TypeOK, PathControl, TokenRecord, AbortRecord, Generations
  <2>2. QED
    BY <2>1, <1>2, <1>3, <1>4, <1>6 DEF IInv, CommitsAreCurrent
<1>13. CommittedIsActive'
  BY <1>6, <1>1 DEF IInv, CommittedIsActive, Peers
<1>14. QED
  BY <1>7, <1>8, <1>9, <1>10, <1>11, <1>12, <1>13 DEF IInv

\* Every step is harmless or is one of the two commit points.
LEMMA StepCases ==
  ASSUME IInv, [Next]_vars
  PROVE  \/ Harmless /\ OneReplacement'
         \/ \E r \in sent : ReceiveCommit(r) \/ ReceiveCommitAck(r)
<1> DEFINE Cases == \/ Harmless /\ OneReplacement'
                    \/ \E r \in sent : ReceiveCommit(r) \/ ReceiveCommitAck(r)
<1> SUFFICES Cases
  OBVIOUS
<1>2. ASSUME Harmless, OneReplacement' PROVE Cases
  BY <1>2
<1>3. CASE UNCHANGED vars
  <2>1. Harmless
    BY <1>3 DEF Harmless, vars, control, IInv, SettlingHasAttempt
  <2>2. OneReplacement'
    BY <1>3 DEF OneReplacement, vars, control, IInv
  <2>3. QED
    BY <1>2, <2>1, <2>2
<1>4. CASE MigrateTo
  BY <1>2, <1>4, StartKeeps DEF MigrateTo
<1>5. CASE OldPathFailed
  BY <1>2, <1>5 DEF OldPathFailed, Harmless, IInv, SettlingHasAttempt, OneReplacement
<1>6. ASSUME NEW p \in Peers, Local(p) PROVE Cases
  <2>1. CASE Opened(p)
    <3> DEFINE probe == Rec(p, "Probe", pending[p].generation, pending[p].generation,
                            pending[p].token)
    <3>1. \A q \in sent' \ sent : q.type = "Probe"
      <4>1. Emit(p, {probe}, oldFailed[p])
        BY <2>1 DEF Opened
      <4>2. probe.type = "Probe"
        BY DEF Rec
      <4> HIDE DEF probe
      <4>3. QED
        BY <4>1, <4>2, EmitRecords
    <3>2. /\ UNCHANGED <<state, active, committed, draining>>
          /\ pending' = [pending EXCEPT ![p].opened = TRUE]
          /\ pending[p] # None
      BY <2>1 DEF Opened
    <3>3. pending[p] \in PendingMigration
      BY <3>2 DEF IInv, TypeOK
    <3>4. \A q \in Peers : pending[q] # None =>
            /\ pending'[q] # None
            /\ pending'[q].generation = pending[q].generation
            /\ pending'[q].token = pending[q].token
            /\ pending'[q].proved = pending[q].proved
      BY <3>2, <3>3, NoneAssumption DEF IInv, TypeOK, PendingMigration
    <3>5. \A q \in Peers : pending'[q] # None => pending[q] # None
      BY <3>2 DEF IInv, TypeOK
    <3>6. QED
      BY <1>2, <3>1, <3>2, <3>4, <3>5
         DEF Harmless, IInv, SettlingHasAttempt, OneReplacement, Peers
  <2>2. CASE AbortPreparation(p)
    BY <1>2, <2>2, FailPreparationKeeps DEF AbortPreparation
  <2>3. CASE Retire(p)
    BY <1>2, <2>3 DEF Retire, Harmless, IInv, SettlingHasAttempt, OneReplacement, TypeOK
  <2>4. CASE TimeOut(p)
    BY <1>2, <2>4, FailPreparationKeeps DEF TimeOut
  <2>5. CASE Retry(p)
    <3>1. Emit(p, RetryRecords(p), oldFailed[p]) /\ pending[p] # None
          /\ UNCHANGED <<state, active, pending, committed, draining>>
      BY <2>5 DEF Retry
    <3>2. \A q \in sent' \ sent : q \in RetryRecords(p)
      BY <3>1, EmitRecords
    <3>3. \A q \in RetryRecords(p) :
            /\ q.type # "CommitAck"
            /\ q.type = "Commit" => /\ state[p] = "CommitPending" /\ q.to = Peer(p)
                                    /\ q.generation = pending[p].generation
                                    /\ q.token = pending[p].token
      BY DEF RetryRecords, Rec
    <3>4. state[p] = "CommitPending" => p = "Host" /\ Peer(p) = "Client"
      BY DEF IInv, SettlingHasAttempt, Peers, Peer, Settling
    <3>5. QED
      BY <1>2, <3>1, <3>2, <3>3, <3>4
         DEF Harmless, IInv, SettlingHasAttempt, OneReplacement, Settling
  <2>6. CASE DeadlinePasses(p)
    <3>1. /\ UNCHANGED <<state, active, committed, draining, sent>>
          /\ pending' = [pending EXCEPT ![p].expired = TRUE]
          /\ pending[p] # None
      BY <2>6 DEF DeadlinePasses
    <3>2. pending[p] \in PendingMigration
      BY <3>1 DEF IInv, TypeOK
    <3>3. \A q \in Peers : pending[q] # None =>
            /\ pending'[q] # None
            /\ pending'[q].generation = pending[q].generation
            /\ pending'[q].token = pending[q].token
            /\ pending'[q].proved = pending[q].proved
      BY <3>1, <3>2, NoneAssumption DEF IInv, TypeOK, PendingMigration
    <3>4. \A q \in Peers : pending'[q] # None => pending[q] # None
      BY <3>1 DEF IInv, TypeOK
    <3>5. QED
      BY <1>2, <3>1, <3>3, <3>4 DEF Harmless, IInv, SettlingHasAttempt, OneReplacement, Peers
  <2>7. CASE GracePasses(p)
    BY <1>2, <2>7 DEF GracePasses, Harmless, IInv, SettlingHasAttempt, OneReplacement, TypeOK
  <2>8. QED
    BY <1>6, <2>1, <2>2, <2>3, <2>4, <2>5, <2>6, <2>7 DEF Local
<1>7. ASSUME NEW id \in RequestIds, ReceiveRequest(id) PROVE Cases
  <2>1. CASE RefuseRequest
    <3>1. PICK g : Emit("Host", {Abort("Host", active["Host"], g)}, oldFailed["Host"])
                   /\ UNCHANGED <<state, active, pending, committed, draining>>
      BY <1>7, <2>1 DEF ReceiveRequest, RefuseRequest
    <3>2. sent' \subseteq sent \cup {Abort("Host", active["Host"], g)}
      BY <3>1, EmitRecords
    <3>3. \A q \in sent' \ sent : q.type = "Abort"
      BY <3>2 DEF Abort
    <3>4. QED
      BY <1>2, <3>1, <3>3 DEF Harmless, IInv, SettlingHasAttempt, OneReplacement
  <2>2. CASE Start
    BY <1>2, <2>2, StartKeeps
  <2>3. CASE UNCHANGED <<state, active, pending, committed, draining, oldFailed, sent, lost>>
    BY <1>2, <2>3 DEF Harmless, IInv, SettlingHasAttempt, OneReplacement
  <2>4. QED
    BY <1>7, <2>1, <2>2, <2>3 DEF ReceiveRequest
<1>8. ASSUME NEW r \in sent, Receive(r) PROVE Cases
  <2>2. CASE ReceivePrepare(r)
    <3>1. CASE /\ pending["Client"] = None /\ draining["Client"] = None
               /\ Prepare("Client", r.generation, r.token)
               /\ UNCHANGED <<sent, lost>>
      <4>1. r.generation = active["Client"] + 1
        BY <2>2 DEF ReceivePrepare
      <4>2. /\ pending' = [pending EXCEPT !["Client"] =
                 [generation |-> r.generation, token |-> r.token, opened |-> FALSE,
                  proved |-> FALSE, peerReady |-> FALSE, expired |-> FALSE]]
            /\ state' = [state EXCEPT !["Client"] = "Preparing"]
            /\ UNCHANGED <<active, committed, draining>>
        BY <3>1 DEF Prepare
      <4>3. OneReplacement'
        BY <3>1, <4>1, <4>2 DEF IInv, OneReplacement, TypeOK, Peers
      <4>4. Harmless
        <5>1. state'["Client"] \notin Settling /\ state'["Host"] = state["Host"]
              /\ pending'["Host"] = pending["Host"]
          BY <4>2 DEF IInv, TypeOK, Peers, Settling
        <5>2. QED
          BY <3>1, <4>2, <5>1 DEF Harmless, IInv, SettlingHasAttempt
      <4>5. QED
        BY <1>2, <4>3, <4>4
    <3>2. CASE UNCHANGED <<state, active, pending, committed, draining>>
               /\ Emit("Client",
                       {IF pending["Client"].proved
                        THEN Rec("Client", "Ready", r.slot, r.generation, r.token)
                        ELSE Rec("Client", "Probe", r.generation, r.generation, r.token)},
                       oldFailed["Client"])
      <4>1. sent' \subseteq sent \cup
              {IF pending["Client"].proved
               THEN Rec("Client", "Ready", r.slot, r.generation, r.token)
               ELSE Rec("Client", "Probe", r.generation, r.generation, r.token)}
        BY <3>2, EmitRecords
      <4>2. \A q \in sent' \ sent : q.type \in {"Ready", "Probe"}
        BY <4>1 DEF Rec
      <4>3. QED
        BY <1>2, <3>2, <4>2 DEF Harmless, IInv, SettlingHasAttempt, OneReplacement
    <3>3. QED
      BY <2>2, <3>1, <3>2 DEF ReceivePrepare
  <2>3. CASE ReceiveCommit(r)
    BY <2>3
  <2>4. CASE ReceiveCommitAck(r)
    BY <2>4
  <2>5. ASSUME NEW p \in Peers, ReceiveAbort(p, r) PROVE Cases
    <3>1. /\ state[p] \notin Settling
          /\ pending' = [pending EXCEPT ![p] = None]
          /\ state' = [state EXCEPT ![p] = "Failed"]
          /\ UNCHANGED <<active, committed, draining, sent>>
      BY <2>5 DEF ReceiveAbort, Settling
    <3>2. QED
      BY <1>2, <3>1 DEF Harmless, IInv, SettlingHasAttempt, OneReplacement, TypeOK, Peers, Settling
  <2>6. ASSUME NEW p \in Peers, ReceiveProbe(p, r) PROVE Cases
    <3> DEFINE records == {Rec(p, "ProbeAck", r.generation, r.generation, r.token)}
    <3>1. \A q \in records : q.type \notin {"Commit", "CommitAck"}
      BY DEF Rec
    <3>2. Conclude(p, state[p], pending[p], records) /\ pending[p] # None
      BY <2>6 DEF ReceiveProbe, CurrentAttempt
    <3>3. pending[p] \in PendingMigration
      BY <3>2 DEF IInv, TypeOK
    <3> HIDE DEF records
    <3>4. QED
      BY <1>2, <3>1, <3>2, <3>3, ConcludeKeeps
  <2>7. ASSUME NEW p \in Peers, ReceiveProbeAck(p, r) PROVE Cases
    <3> DEFINE records == {Rec(p, "Ready", active[p], r.generation, r.token)}
               attempt == [pending[p] EXCEPT !.proved = TRUE]
    <3>1. \A q \in records : q.type \notin {"Commit", "CommitAck"}
      BY DEF Rec
    <3>2. Conclude(p, "Ready", attempt, records) /\ pending[p] # None /\ ~pending[p].proved
      BY <2>7 DEF ReceiveProbeAck, CurrentAttempt
    <3>3. pending[p] \in PendingMigration
      BY <3>2 DEF IInv, TypeOK
    <3>4. /\ attempt \in PendingMigration
          /\ attempt.generation = pending[p].generation /\ attempt.token = pending[p].token
          /\ pending[p].proved => attempt.proved
      BY <3>3 DEF PendingMigration
    <3>5. state[p] \notin Settling
      BY <3>2 DEF IInv, SettlingHasAttempt, Peers
    <3> HIDE DEF records, attempt
    <3>6. QED
      BY <1>2, <3>1, <3>2, <3>4, <3>5, ConcludeKeeps
  <2>8. ASSUME NEW p \in Peers, ReceiveReady(p, r) PROVE Cases
    <3> DEFINE attempt == [pending[p] EXCEPT !.peerReady = TRUE]
    <3>1. Conclude(p, state[p], attempt, {}) /\ pending[p] # None
      BY <2>8 DEF ReceiveReady, CurrentAttempt
    <3>2. pending[p] \in PendingMigration
      BY <3>1 DEF IInv, TypeOK
    <3>3. /\ attempt \in PendingMigration
          /\ attempt.generation = pending[p].generation /\ attempt.token = pending[p].token
          /\ pending[p].proved => attempt.proved
      BY <3>2 DEF PendingMigration
    <3> HIDE DEF attempt
    <3>4. QED
      BY <1>2, <3>1, <3>3, ConcludeKeeps
  <2>9. QED
    BY <1>8, <2>2, <2>3, <2>4, <2>5, <2>6, <2>7, <2>8 DEF Receive
<1>9. ASSUME NEW r \in sent, Lose(r) PROVE Cases
  BY <1>2, <1>9 DEF Lose, control, Harmless, IInv, SettlingHasAttempt, OneReplacement
<1>10. QED
  BY <1>3, <1>4, <1>5, <1>6, <1>7, <1>8, <1>9 DEF Next

\* Every step preserves the inductive invariant.
LEMMA NextIInv == IInv /\ [Next]_vars => IInv'
<1> SUFFICES ASSUME IInv, [Next]_vars PROVE IInv'
  OBVIOUS
<1>1. TypeOK'
  BY NextTypeOK DEF IInv
<1>2. CASE Harmless /\ OneReplacement'
  BY <1>1, <1>2, HarmlessKeeps DEF IInv
<1>3. ASSUME NEW r \in sent, ReceiveCommit(r) PROVE IInv'
  BY <1>1, <1>3, ReceiveCommitKeeps
<1>4. ASSUME NEW r \in sent, ReceiveCommitAck(r) PROVE IInv'
  BY <1>1, <1>4, ReceiveCommitAckKeeps
<1>5. QED
  BY <1>2, <1>3, <1>4, StepCases

\* The invariant holds of the initial state.
LEMMA InitIInv == Init => IInv
<1> SUFFICES ASSUME Init PROVE IInv
  OBVIOUS
<1>1. TypeOK
  BY InitTypeOK
<1>2. "Host" \in Peers /\ "Client" \in Peers
  BY DEF Peers
<1>3. Agreement /\ AckIsDurable /\ OneReplacement /\ CommitsAreCurrent /\ CommittedIsActive
  BY <1>2 DEF Init, Agreement, AckIsDurable, OneReplacement, CommitsAreCurrent, CommittedIsActive
<1>4. NoSplitBrain
  BY <1>2 DEF Init, NoSplitBrain, ApplicationSlot
<1>5. SettlingHasAttempt
  BY <1>2 DEF Init, SettlingHasAttempt, Settling
<1>6. QED
  BY <1>1, <1>3, <1>4, <1>5 DEF IInv

\* The inductive invariant holds throughout.
THEOREM Invariance == Spec => []IInv
BY InitIInv, NextIInv, PTL DEF Spec

\* The host never leads the client, and peers on one generation got there by the
\* same token, whatever is lost, delayed, repeated or timed out.
THEOREM AgreementHolds == Spec => []Agreement
<1>1. IInv => Agreement
  BY DEF IInv
<1>2. QED
  BY Invariance, <1>1, PTL

\* The host never sends application data on a path the client has left.
THEOREM NoSplitBrainHolds == Spec => []NoSplitBrain
<1>1. IInv => NoSplitBrain
  BY DEF IInv
<1>2. QED
  BY Invariance, <1>1, PTL

\* An acknowledgement is only ever sent by a client that has committed.
THEOREM AckIsDurableHolds == Spec => []AckIsDurable
<1>1. IInv => AckIsDurable
  BY DEF IInv
<1>2. QED
  BY Invariance, <1>1, PTL

\* There is never a second replacement, nor one beside a draining path.
THEOREM OneReplacementHolds == Spec => []OneReplacement
<1>1. IInv => OneReplacement
  BY DEF IInv
<1>2. QED
  BY Invariance, <1>1, PTL

-----------------------------------------------------------------------------
(* The handoff promised to the session, and no rollback *)

\* The client's commit point: a repeated acknowledgement, or a move of the client
\* to the generation the host is silent about.
LEMMA ReceiveCommitMoves ==
  ASSUME IInv, NEW r \in sent, ReceiveCommit(r)
  PROVE  \/ UNCHANGED <<state, active>>
         \/ /\ state["Host"] \in Settling
            /\ state'["Host"] = state["Host"]
            /\ active["Client"] = active["Host"]
            /\ active'["Client"] = active["Client"] + 1
            /\ active'["Host"] = active["Host"]
<1>1. "Host" \in Peers /\ "Client" \in Peers
  BY DEF Peers
<1>2. active["Host"] \in Nat /\ active["Client"] \in Nat
  BY <1>1 DEF IInv, TypeOK, Generations
<1>3. CASE UNCHANGED <<state, active, pending, committed, draining>>
  BY <1>3
<1>4. CASE CurrentAttempt("Client", r) /\ Activate("Client")
  <2>1. /\ r.generation = pending["Client"].generation
        /\ r.generation = active["Client"] + 1
    BY <1>4, <1>1 DEF CurrentAttempt, IInv, OneReplacement
  <2>2. r.type = "Commit" /\ r.generation > active["Host"]
    BY <2>1, <1>2 DEF ReceiveCommit, IInv, Agreement
  <2>3. state["Host"] \in Settling /\ r.generation = pending["Host"].generation
    BY <2>1, <2>2, <1>2 DEF IInv, CommitsAreCurrent
  <2>4. r.generation = active["Host"] + 1
    BY <2>3, <1>1 DEF IInv, OneReplacement, SettlingHasAttempt
  <2>5. /\ active'["Client"] = r.generation /\ active'["Host"] = active["Host"]
        /\ state'["Host"] = state["Host"]
    BY <1>4, <1>1, <2>1 DEF Activate, IInv, TypeOK
  <2>6. QED
    BY <1>2, <2>1, <2>3, <2>4, <2>5
<1>5. QED
  BY <1>3, <1>4 DEF ReceiveCommit

\* The host's commit point: the host follows a client that has moved.
LEMMA ReceiveCommitAckMoves ==
  ASSUME IInv, NEW r \in sent, ReceiveCommitAck(r)
  PROVE  /\ state["Host"] = "CommitPending" /\ state'["Host"] = "Active"
         /\ active["Client"] = active["Host"] + 1
         /\ active'["Host"] = active["Host"] + 1
         /\ active'["Client"] = active["Client"]
<1>1. "Host" \in Peers /\ "Client" \in Peers
  BY DEF Peers
<1>2. active["Host"] \in Nat /\ active["Client"] \in Nat
  BY <1>1 DEF IInv, TypeOK, Generations
<1>3. /\ r.type = "CommitAck" /\ state["Host"] = "CommitPending"
      /\ pending["Host"] # None /\ Activate("Host")
      /\ r.generation = pending["Host"].generation
  BY DEF ReceiveCommitAck, CurrentAttempt
<1>4. r.generation = active["Host"] + 1
  BY <1>3, <1>1 DEF IInv, OneReplacement
<1>5. active["Client"] = r.generation
  BY <1>2, <1>3, <1>4 DEF IInv, AckIsDurable, Agreement
<1>6. /\ active'["Host"] = r.generation /\ active'["Client"] = active["Client"]
      /\ state'["Host"] = "Active"
  BY <1>3, <1>1 DEF Activate, IInv, TypeOK, Peers
<1>7. QED
  BY <1>3, <1>4, <1>5, <1>6

\* Every step of the controllers is a step of the handoff, or none.
LEMMA StepRefines ==
  ASSUME IInv, [Next]_vars PROVE [Handoff!Next]_(Handoff!vars)
<1>1. "Host" \in Peers /\ "Client" \in Peers
  BY DEF Peers
<1>2. active["Host"] \in Nat /\ active["Client"] \in Nat
  BY <1>1 DEF IInv, TypeOK, Generations
<1> USE DEF Handoff!Next, Handoff!vars, Handoff!Silence, Handoff!ClientMoves,
            Handoff!HostFollows, Handoff!GiveUp, HostPhase
<1>3. CASE Harmless
  <2>1. active' = active
    BY <1>3 DEF Harmless
  <2>2. CASE state["Host"] \in Settling
    <3>1. state'["Host"] \in Settling
      BY <1>3, <2>2 DEF Harmless
    <3>2. QED
      BY <1>3, <2>1, <2>2, <3>1 DEF Harmless, Settling
  <2>3. CASE state["Host"] \notin Settling
    <3>1. state'["Host"] # "CommitUnconfirmed"
      BY <1>3, <2>3 DEF Harmless, Settling
    <3>2. CASE state'["Host"] = "CommitPending"
      <4>1. pending'["Host"] # None
        BY <1>3, <3>2 DEF Harmless, Settling
      <4>2. pending'["Host"].generation = active["Host"] + 1
            /\ pending'["Host"].generation \in Generations
        BY <4>1, <1>1, <2>1, NextIInv DEF IInv, OneReplacement, TypeOK, PendingMigration
      <4>3. active["Host"] < MaxGeneration
        BY <4>2, <1>2, MaxGenerationAssumption DEF Generations
      <4>4. QED
        BY <2>1, <2>3, <3>2, <4>3 DEF Settling
    <3>3. CASE state'["Host"] # "CommitPending"
      BY <2>1, <2>3, <3>1, <3>3 DEF Settling
    <3>4. QED
      BY <3>2, <3>3
  <2>4. QED
    BY <2>2, <2>3
<1>4. ASSUME NEW r \in sent, ReceiveCommit(r) PROVE [Handoff!Next]_(Handoff!vars)
  <2>1. CASE UNCHANGED <<state, active>>
    BY <2>1
  <2>2. CASE /\ state["Host"] \in Settling
             /\ state'["Host"] = state["Host"]
             /\ active["Client"] = active["Host"]
             /\ active'["Client"] = active["Client"] + 1
             /\ active'["Host"] = active["Host"]
    BY <2>2 DEF Settling
  <2>3. QED
    BY <1>4, <2>1, <2>2, ReceiveCommitMoves
<1>5. ASSUME NEW r \in sent, ReceiveCommitAck(r) PROVE [Handoff!Next]_(Handoff!vars)
  <2>1. /\ state["Host"] = "CommitPending" /\ state'["Host"] = "Active"
        /\ active["Client"] = active["Host"] + 1
        /\ active'["Host"] = active["Host"] + 1
        /\ active'["Client"] = active["Client"]
    BY <1>5, ReceiveCommitAckMoves
  <2>2. QED
    BY <2>1
<1>6. QED
  BY <1>3, <1>4, <1>5, StepCases

\* The two controllers, over any network, implement the abstract handoff.
THEOREM RefinesHandoff == Spec => ImplementsHandoff
<1>1. Init => Handoff!Init
  BY DEF Init, Handoff!Init, HostPhase, Peers
<1>2. IInv /\ [Next]_vars => [Handoff!Next]_(Handoff!vars)
  BY StepRefines
<1>3. QED
  BY <1>1, <1>2, Invariance, PTL DEF Spec, ImplementsHandoff, Handoff!Spec

\* A host whose commit is out never uses the old generation again.
THEOREM NoRollbackHolds == Spec => NoRollback
<1>1. ASSUME IInv, [Next]_vars
      PROVE  [state["Host"] \in {"CommitPending", "CommitUnconfirmed"} =>
                \/ ApplicationSlot("Host")' = None
                \/ active'["Host"] = active["Host"] + 1
                   /\ active'["Client"] = active'["Host"]]_vars
  <2> SUFFICES ASSUME state["Host"] \in Settling
               PROVE  \/ state'["Host"] \in Settling
                      \/ active'["Host"] = active["Host"] + 1
                         /\ active'["Client"] = active'["Host"]
    BY DEF Settling, ApplicationSlot
  <2>1. CASE Harmless
    BY <2>1 DEF Harmless
  <2>2. ASSUME NEW r \in sent, ReceiveCommit(r)
        PROVE  state'["Host"] \in Settling
    BY <1>1, <2>2, ReceiveCommitMoves
  <2>3. ASSUME NEW r \in sent, ReceiveCommitAck(r)
        PROVE  active'["Host"] = active["Host"] + 1 /\ active'["Client"] = active'["Host"]
    BY <1>1, <2>3, ReceiveCommitAckMoves
  <2>4. QED
    BY <1>1, <2>1, <2>2, <2>3, StepCases
<1>2. QED
  BY <1>1, Invariance, PTL DEF Spec, NoRollback

-----------------------------------------------------------------------------
(***************************************************************************)
(* No commit without a proof from both peers.  Records are never taken out *)
(* of sent, so that the evidence, once there, stays: what has to be        *)
(* followed is how it gets into the two controllers' flags.                *)
(***************************************************************************)

\* One of the records is an answer to peer p on the path of generation g under
\* token t.
Answered(records, p, g, t) ==
  \E a \in records : /\ a.type = "ProbeAck" /\ a.to = p
                     /\ a.slot = g /\ a.generation = g /\ a.token = t

\* A path is proved, and the peer's readiness believed, on evidence.
FlagsAreEvidence ==
  \A p \in Peers : pending[p] # None =>
    /\ pending[p].proved => Answered(sent, p, pending[p].generation, pending[p].token)
    /\ pending[p].peerReady => Answered(sent, Peer(p), pending[p].generation, pending[p].token)

\* A peer announces its readiness on evidence.
ReadyIsEvidence ==
  \A r \in sent : r.type = "Ready" => Answered(sent, Peer(r.to), r.generation, r.token)

\* An attempt whose commit is out has both flags.
CommitHasFlags ==
  \A p \in Peers : state[p] = "CommitPending" =>
    pending[p] # None /\ pending[p].proved /\ pending[p].peerReady

\* A commit is sent on the evidence of both peers.
CommitIsEvidence ==
  \A r \in sent : r.type = "Commit" => \A p \in Peers : Answered(sent, p, r.generation, r.token)

EvidenceInv == FlagsAreEvidence /\ ReadyIsEvidence /\ CommitHasFlags /\ CommitIsEvidence

\* What a step may do to the flags of peer p: clear them with a new attempt,
\* or keep the attempt and set one of them on evidence.
FlagsStep(p) ==
  pending'[p] # None =>
    \/ ~pending'[p].proved /\ ~pending'[p].peerReady
    \/ /\ pending[p] # None
       /\ pending'[p].generation = pending[p].generation
       /\ pending'[p].token = pending[p].token
       /\ pending'[p].proved =>
            \/ pending[p].proved
            \/ Answered(sent, p, pending[p].generation, pending[p].token)
       /\ pending'[p].peerReady =>
            \/ pending[p].peerReady
            \/ Answered(sent, Peer(p), pending[p].generation, pending[p].token)

\* A record that needs evidence has it.
Backed(r) ==
  /\ r.type = "Ready" => Answered(sent, Peer(r.to), r.generation, r.token)
  /\ r.type = "Commit" => \A p \in Peers : Answered(sent, p, r.generation, r.token)

-----------------------------------------------------------------------------

\* Initially there is no attempt and no record.
LEMMA InitEvidence == Init => EvidenceInv
BY DEF Init, EvidenceInv, FlagsAreEvidence, ReadyIsEvidence, CommitHasFlags, CommitIsEvidence

\* A step whose flags and whose new records are backed keeps the invariant.
LEMMA EvidenceKept ==
  ASSUME EvidenceInv, sent \subseteq sent', \A p \in Peers : FlagsStep(p), CommitHasFlags',
         \A r \in sent' \ sent : Backed(r)
  PROVE  EvidenceInv'
<1>1. FlagsAreEvidence'
  <2> SUFFICES ASSUME NEW p \in Peers, pending'[p] # None
               PROVE  /\ pending'[p].proved =>
                           Answered(sent', p, pending'[p].generation, pending'[p].token)
                      /\ pending'[p].peerReady =>
                           Answered(sent', Peer(p), pending'[p].generation, pending'[p].token)
    BY DEF FlagsAreEvidence
  <2>1. CASE ~pending'[p].proved /\ ~pending'[p].peerReady
    BY <2>1
  <2>2. CASE ~(~pending'[p].proved /\ ~pending'[p].peerReady)
    <3> DEFINE g == pending[p].generation
               t == pending[p].token
    <3>1. /\ pending[p] # None
          /\ pending'[p].generation = g /\ pending'[p].token = t
          /\ pending'[p].proved => pending[p].proved \/ Answered(sent, p, g, t)
          /\ pending'[p].peerReady => pending[p].peerReady \/ Answered(sent, Peer(p), g, t)
      BY <2>2 DEF FlagsStep
    <3>2. /\ pending'[p].proved => Answered(sent, p, g, t)
          /\ pending'[p].peerReady => Answered(sent, Peer(p), g, t)
      BY <3>1 DEF EvidenceInv, FlagsAreEvidence
    <3>3. /\ pending'[p].proved =>
               Answered(sent, p, pending'[p].generation, pending'[p].token)
          /\ pending'[p].peerReady =>
               Answered(sent, Peer(p), pending'[p].generation, pending'[p].token)
      BY <3>1, <3>2
    <3>4. QED
      BY <3>3 DEF Answered
  <2>3. QED
    BY <2>1, <2>2
<1>2. \A r \in sent' : Backed(r)
  BY DEF EvidenceInv, ReadyIsEvidence, CommitIsEvidence, Backed
<1>3. ReadyIsEvidence'
  BY <1>2 DEF ReadyIsEvidence, Backed, Answered
<1>4. CommitIsEvidence'
  BY <1>2 DEF CommitIsEvidence, Backed, Answered
<1>5. QED
  BY <1>1, <1>3, <1>4 DEF EvidenceInv

\* The new records of a step that writes with Emit are among those it writes.
LEMMA EmitBacked ==
  ASSUME NEW p, NEW STATE records, NEW STATE base, Emit(p, records, base),
         \A r \in records : Backed(r)
  PROVE  sent \subseteq sent' /\ \A r \in sent' \ sent : Backed(r)
BY EmitRecords

\* A record that is neither Ready nor Commit needs no evidence.
LEMMA PlainBacked ==
  ASSUME NEW r, r.type \notin {"Ready", "Commit"} PROVE Backed(r)
BY DEF Backed

\* Rec and Abort are of the type, and about the attempt, they are asked for.
LEMMA RecFields ==
  ASSUME NEW p \in Peers, NEW type, NEW slot, NEW g, NEW t
  PROVE  /\ Rec(p, type, slot, g, t).type = type
         /\ Peer(Rec(p, type, slot, g, t).to) = p
         /\ Rec(p, type, slot, g, t).generation = g
         /\ Rec(p, type, slot, g, t).token = t
         /\ Abort(p, slot, g).type = "Abort"
BY DEF Rec, Abort, Peer, Peers

\* Start clears the flags of the host and sends a Prepare.
LEMMA StartEvidence == ASSUME TypeOK, EvidenceInv, Start PROVE EvidenceInv'
<1>h. "Host" \in Peers
  BY DEF Peers
<1>1. PICK token \in Tokens :
        /\ Prepare("Host", active["Host"] + 1, token)
        /\ Emit("Host", {Rec("Host", "Prepare", active["Host"], active["Host"] + 1, token)},
                FALSE)
  BY DEF Start
<1>2. sent \subseteq sent' /\ \A r \in sent' \ sent : Backed(r)
  <2> DEFINE r0 == Rec("Host", "Prepare", active["Host"], active["Host"] + 1, token)
  <2>1. r0.type = "Prepare"
    BY DEF Rec
  <2>2. Emit("Host", {r0}, FALSE)
    BY <1>1
  <2> HIDE DEF r0
  <2>3. \A r \in {r0} : Backed(r)
    BY <2>1, PlainBacked
  <2>4. QED
    BY <2>2, <2>3 DEF Emit
<1>3. (\A p \in Peers : FlagsStep(p)) /\ CommitHasFlags'
  BY <1>1 DEF Prepare, FlagsStep, EvidenceInv, CommitHasFlags, TypeOK
<1>4. QED
  BY <1>2, <1>3, EvidenceKept

\* Dropping or giving up an attempt sends at most an Abort.
LEMMA FailEvidence ==
  ASSUME TypeOK, EvidenceInv, NEW p \in Peers, FailPreparation(p) PROVE EvidenceInv'
<1>1. (\A q \in Peers : FlagsStep(q)) /\ CommitHasFlags'
  BY DEF FailPreparation, FlagsStep, EvidenceInv, CommitHasFlags, TypeOK
<1>2. sent \subseteq sent' /\ \A r \in sent' \ sent : Backed(r)
  <2>1. CASE UNCHANGED sent
    BY <2>1
  <2>2. CASE Emit(p, {Abort(p, active[p], pending[p].generation)}, oldFailed[p])
    BY <2>2, EmitBacked, PlainBacked, RecFields
  <2>3. QED
    BY <2>1, <2>2 DEF FailPreparation
<1>3. QED
  BY <1>1, <1>2, EvidenceKept

\* The local steps of a peer.
LEMMA LocalEvidence ==
  ASSUME TypeOK, EvidenceInv, NEW p \in Peers, Local(p) PROVE EvidenceInv'
<1>1. CASE Opened(p)
  <2>1. sent \subseteq sent' /\ \A r \in sent' \ sent : Backed(r)
    BY <1>1, EmitBacked, PlainBacked, RecFields DEF Opened
  <2>2. /\ pending[p] \in PendingMigration
        /\ pending \in [Peers -> PendingMigration \cup {None}]
        /\ pending' = [pending EXCEPT ![p].opened = TRUE]
        /\ state' = state
    BY <1>1 DEF Opened, TypeOK
  <2>3. /\ pending'[p] = [pending[p] EXCEPT !.opened = TRUE]
        /\ \A q \in Peers \ {p} : pending'[q] = pending[q]
    BY <2>2
  <2>4. /\ pending'[p].generation = pending[p].generation
        /\ pending'[p].token = pending[p].token
        /\ pending'[p].proved = pending[p].proved
        /\ pending'[p].peerReady = pending[p].peerReady
        /\ pending'[p] \in PendingMigration
    BY <2>2, <2>3 DEF PendingMigration
  <2>5. \A q \in Peers : FlagsStep(q)
    BY <2>2, <2>3, <2>4, NoneAssumption DEF FlagsStep
  <2>6. CommitHasFlags'
    BY <2>2, <2>3, <2>4, NoneAssumption DEF EvidenceInv, CommitHasFlags
  <2>7. QED
    BY <2>1, <2>5, <2>6, EvidenceKept
<1>2. CASE AbortPreparation(p) \/ TimeOut(p)
  BY <1>2, FailEvidence DEF AbortPreparation, TimeOut
<1>3. CASE Retire(p) \/ GracePasses(p)
  BY <1>3, EvidenceKept DEF Retire, GracePasses, FlagsStep, EvidenceInv, CommitHasFlags
<1>4. CASE DeadlinePasses(p)
  <2>1. /\ sent' = sent /\ state' = state
        /\ \A q \in Peers : pending'[q] # None =>
             /\ pending[q] # None
             /\ pending'[q].generation = pending[q].generation
             /\ pending'[q].token = pending[q].token
             /\ pending'[q].proved = pending[q].proved
             /\ pending'[q].peerReady = pending[q].peerReady
        /\ \A q \in Peers : pending[q] # None => pending'[q] # None
    BY <1>4, NoneAssumption DEF DeadlinePasses, TypeOK, PendingMigration
  <2>2. (\A q \in Peers : FlagsStep(q)) /\ CommitHasFlags'
    BY <2>1 DEF FlagsStep, EvidenceInv, CommitHasFlags
  <2>3. QED
    BY <2>1, <2>2, EvidenceKept
<1>5. CASE Retry(p)
  <2> DEFINE g == pending[p].generation
             t == pending[p].token
  <2>1. ASSUME NEW r \in RetryRecords(p) PROVE Backed(r)
    <3>1. CASE /\ state[p] = "CommitPending"
               /\ r = Rec(p, "Commit", CommitSlot(p), g, t)
      <4>1. Answered(sent, p, g, t) /\ Answered(sent, Peer(p), g, t)
        BY <3>1 DEF EvidenceInv, FlagsAreEvidence, CommitHasFlags
      <4>2. \A q \in Peers : q = p \/ q = Peer(p)
        BY DEF Peers, Peer
      <4>3. QED
        BY <3>1, <4>1, <4>2, RecFields DEF Backed
    <3>2. CASE r = Rec(p, "Ready", active[p], g, t) /\ pending[p].proved
      BY <1>5, <3>2, RecFields DEF Backed, Retry, EvidenceInv, FlagsAreEvidence
    <3>3. CASE r \in {Rec(p, "Prepare", active[p], g, t), Rec(p, "Probe", g, g, t)}
      BY <3>3, PlainBacked, RecFields
    <3>4. QED
      BY <2>1, <3>1, <3>2, <3>3 DEF RetryRecords
  <2>2. sent \subseteq sent' /\ \A r \in sent' \ sent : Backed(r)
    BY <1>5, <2>1, EmitBacked DEF Retry
  <2>3. (\A q \in Peers : FlagsStep(q)) /\ CommitHasFlags'
    BY <1>5 DEF Retry, FlagsStep, EvidenceInv, CommitHasFlags
  <2>4. QED
    BY <2>2, <2>3, EvidenceKept
<1>6. QED
  BY <1>1, <1>2, <1>3, <1>4, <1>5 DEF Local

\* The end of receive(): the attempt's flags are backed by what the peer has
\* received, so a Commit is.
LEMMA ConcludeEvidence ==
  ASSUME TypeOK, EvidenceInv, NEW p \in Peers, NEW STATE st, NEW STATE attempt, NEW STATE records,
         pending[p] # None, attempt \in PendingMigration,
         attempt.generation = pending[p].generation, attempt.token = pending[p].token,
         attempt.proved => Answered(sent, p, attempt.generation, attempt.token),
         attempt.peerReady => Answered(sent, Peer(p), attempt.generation, attempt.token),
         st = "CommitPending" => attempt.proved /\ attempt.peerReady,
         \A r \in records : Backed(r),
         Conclude(p, st, attempt, records)
  PROVE  EvidenceInv'
<1> DEFINE commits == p = "Host" /\ attempt.proved /\ attempt.peerReady /\ st = "Ready"
           commit == Rec(p, "Commit", CommitSlot(p), attempt.generation, attempt.token)
           all == records \cup {c \in {commit} : commits}
<1>1. commits => Backed(commit)
  <2> SUFFICES ASSUME commits PROVE Backed(commit)
    OBVIOUS
  <2>1. \A q \in Peers : Answered(sent, q, attempt.generation, attempt.token)
    BY DEF Peers, Peer
  <2>2. QED
    BY <2>1, RecFields DEF Backed
<1>2. \A r \in all : Backed(r)
  BY <1>1
<1>3. Emit(p, all, oldFailed[p])
  BY DEF Conclude
<1> HIDE DEF all
<1>4. sent \subseteq sent' /\ \A r \in sent' \ sent : Backed(r)
  BY <1>2, <1>3, EmitBacked
<1>5. \A q \in Peers : FlagsStep(q)
  <2> SUFFICES ASSUME NEW q \in Peers PROVE FlagsStep(q)
    OBVIOUS
  <2>1. CASE q = p
    <3>1. pending'[q] = attempt
      BY <2>1 DEF Conclude, TypeOK
    <3>2. QED
      BY <2>1, <3>1 DEF FlagsStep
  <2>2. CASE q # p
    BY <2>2 DEF Conclude, TypeOK, FlagsStep
  <2>3. QED
    BY <2>1, <2>2
<1>6. CommitHasFlags'
  <2> SUFFICES ASSUME NEW q \in Peers, state'[q] = "CommitPending"
               PROVE  pending'[q] # None /\ pending'[q].proved /\ pending'[q].peerReady
    BY DEF CommitHasFlags
  <2>1. CASE q = p
    <3>1. pending'[q] = attempt /\ (commits \/ st = "CommitPending")
      BY <2>1 DEF Conclude, TypeOK
    <3>2. QED
      BY <3>1, NoneAssumption
  <2>2. CASE q # p
    BY <2>2 DEF Conclude, TypeOK, EvidenceInv, CommitHasFlags
  <2>3. QED
    BY <2>1, <2>2
<1>7. QED
  BY <1>4, <1>5, <1>6, EvidenceKept

\* The records a peer receives.
LEMMA ReceiveEvidence ==
  ASSUME TypeOK, EvidenceInv, NEW r \in sent, Receive(r) PROVE EvidenceInv'
<1>p. "Host" \in Peers /\ "Client" \in Peers
  BY DEF Peers
<1>t. \A q \in Peers : pending[q] # None => pending[q] \in PendingMigration
  BY DEF TypeOK
<1>1. CASE ReceivePrepare(r)
  <2>1. CASE Prepare("Client", r.generation, r.token) /\ UNCHANGED sent
    <3>1. (\A q \in Peers : FlagsStep(q)) /\ CommitHasFlags'
      BY <2>1 DEF Prepare, FlagsStep, EvidenceInv, CommitHasFlags, TypeOK
    <3>2. QED
      BY <2>1, <3>1, EvidenceKept
  <2>2. CASE ~(Prepare("Client", r.generation, r.token) /\ UNCHANGED sent)
    <3> DEFINE ready == Rec("Client", "Ready", r.slot, r.generation, r.token)
               probe == Rec("Client", "Probe", r.generation, r.generation, r.token)
               records == {IF pending["Client"].proved THEN ready ELSE probe}
    <3>1. /\ pending["Client"] # None
          /\ pending["Client"].generation = r.generation /\ pending["Client"].token = r.token
          /\ Emit("Client", records, oldFailed["Client"])
          /\ UNCHANGED <<state, pending>>
      BY <1>1, <2>2 DEF ReceivePrepare
    <3>2. pending["Client"].proved => Backed(ready)
      BY <1>p, <3>1, RecFields DEF Backed, EvidenceInv, FlagsAreEvidence
    <3>3. Backed(probe)
      BY <1>p, PlainBacked, RecFields
    <3>4. \A x \in records : Backed(x)
      BY <3>2, <3>3
    <3> HIDE DEF records
    <3>5. sent \subseteq sent' /\ \A x \in sent' \ sent : Backed(x)
      BY <3>1, <3>4, EmitBacked
    <3>6. (\A q \in Peers : FlagsStep(q)) /\ CommitHasFlags'
      BY <3>1 DEF FlagsStep, EvidenceInv, CommitHasFlags
    <3>7. QED
      BY <3>5, <3>6, EvidenceKept
  <2>3. QED
    BY <2>1, <2>2
<1>2. CASE ReceiveCommit(r)
  <2> DEFINE records == {Rec("Client", "CommitAck", r.generation, r.generation, r.token)}
  <2>1. Emit("Client", records, oldFailed["Client"])
    BY <1>2 DEF ReceiveCommit
  <2>2. \A x \in records : Backed(x)
    BY <1>p, PlainBacked, RecFields
  <2> HIDE DEF records
  <2>3. sent \subseteq sent' /\ \A x \in sent' \ sent : Backed(x)
    BY <2>1, <2>2, EmitBacked
  <2>4. (\A q \in Peers : FlagsStep(q)) /\ CommitHasFlags'
    BY <1>2 DEF ReceiveCommit, Activate, FlagsStep, EvidenceInv, CommitHasFlags, TypeOK
  <2>5. QED
    BY <2>3, <2>4, EvidenceKept
<1>3. CASE ReceiveCommitAck(r)
  <2>1. (\A q \in Peers : FlagsStep(q)) /\ CommitHasFlags' /\ sent' = sent
    BY <1>3 DEF ReceiveCommitAck, Activate, FlagsStep, EvidenceInv, CommitHasFlags, TypeOK
  <2>2. QED
    BY <2>1, EvidenceKept
<1>4. ASSUME NEW p \in Peers, ReceiveAbort(p, r) PROVE EvidenceInv'
  <2>1. (\A q \in Peers : FlagsStep(q)) /\ CommitHasFlags' /\ sent' = sent
    BY <1>4 DEF ReceiveAbort, FlagsStep, EvidenceInv, CommitHasFlags, TypeOK
  <2>2. QED
    BY <2>1, EvidenceKept
<1>5. ASSUME NEW p \in Peers, ReceiveProbe(p, r) PROVE EvidenceInv'
  <2>1. \A x \in {Rec(p, "ProbeAck", r.generation, r.generation, r.token)} : Backed(x)
    BY PlainBacked, RecFields
  <2>2. /\ pending[p] # None /\ pending[p] \in PendingMigration
        /\ pending[p].proved => Answered(sent, p, pending[p].generation, pending[p].token)
        /\ pending[p].peerReady =>
             Answered(sent, Peer(p), pending[p].generation, pending[p].token)
        /\ state[p] = "CommitPending" => pending[p].proved /\ pending[p].peerReady
    BY <1>5, <1>t DEF ReceiveProbe, CurrentAttempt, EvidenceInv, FlagsAreEvidence, CommitHasFlags
  <2>3. QED
    BY <1>5, <2>1, <2>2, ConcludeEvidence DEF ReceiveProbe
<1>6. ASSUME NEW p \in Peers, ReceiveProbeAck(p, r) PROVE EvidenceInv'
  <2> DEFINE attempt == [pending[p] EXCEPT !.proved = TRUE]
             ready == Rec(p, "Ready", active[p], r.generation, r.token)
  <2>1. pending[p] # None /\ pending[p] \in PendingMigration
    BY <1>6, <1>t DEF ReceiveProbeAck, CurrentAttempt
  <2>2. /\ attempt \in PendingMigration
        /\ attempt.generation = pending[p].generation /\ attempt.token = pending[p].token
        /\ attempt.peerReady = pending[p].peerReady
    BY <2>1 DEF PendingMigration
  <2>3. Answered(sent, p, pending[p].generation, pending[p].token)
    BY <1>6 DEF ReceiveProbeAck, Received, CurrentAttempt, Answered
  <2>4. /\ attempt.proved => Answered(sent, p, attempt.generation, attempt.token)
        /\ attempt.peerReady => Answered(sent, Peer(p), attempt.generation, attempt.token)
    BY <2>1, <2>2, <2>3 DEF EvidenceInv, FlagsAreEvidence
  <2>5. \A x \in {ready} : Backed(x)
    <3>1. r.generation = pending[p].generation /\ r.token = pending[p].token
      BY <1>6 DEF ReceiveProbeAck, CurrentAttempt
    <3>2. QED
      BY <2>3, <3>1, RecFields DEF Backed
  <2>6. Conclude(p, "Ready", attempt, {ready})
    BY <1>6 DEF ReceiveProbeAck
  <2> HIDE DEF attempt, ready
  <2>7. QED
    BY <2>1, <2>2, <2>4, <2>5, <2>6, ConcludeEvidence
<1>7. ASSUME NEW p \in Peers, ReceiveReady(p, r) PROVE EvidenceInv'
  <2> DEFINE attempt == [pending[p] EXCEPT !.peerReady = TRUE]
  <2>1. pending[p] # None /\ pending[p] \in PendingMigration
    BY <1>7, <1>t DEF ReceiveReady, CurrentAttempt
  <2>2. /\ attempt \in PendingMigration
        /\ attempt.generation = pending[p].generation /\ attempt.token = pending[p].token
        /\ attempt.proved = pending[p].proved
        /\ attempt.peerReady
    BY <2>1 DEF PendingMigration
  <2>3. Answered(sent, Peer(p), pending[p].generation, pending[p].token)
    <3>1. /\ r.type = "Ready" /\ r.to = p
          /\ r.generation = pending[p].generation /\ r.token = pending[p].token
      BY <1>7 DEF ReceiveReady, Received, CurrentAttempt
    <3>2. QED
      BY <3>1 DEF EvidenceInv, ReadyIsEvidence
  <2>4. /\ attempt.proved => Answered(sent, p, attempt.generation, attempt.token)
        /\ attempt.peerReady => Answered(sent, Peer(p), attempt.generation, attempt.token)
    BY <2>1, <2>2, <2>3 DEF EvidenceInv, FlagsAreEvidence
  <2>5. state[p] = "CommitPending" => attempt.proved /\ attempt.peerReady
    BY <2>2 DEF EvidenceInv, CommitHasFlags
  <2>6. Conclude(p, state[p], attempt, {})
    BY <1>7 DEF ReceiveReady
  <2> HIDE DEF attempt
  <2>7. QED
    BY <2>1, <2>2, <2>4, <2>5, <2>6, ConcludeEvidence
<1>8. QED
  BY <1>1, <1>2, <1>3, <1>4, <1>5, <1>6, <1>7 DEF Receive

\* Every step keeps the evidence.
LEMMA NextEvidence == TypeOK /\ EvidenceInv /\ [Next]_vars => EvidenceInv'
<1> SUFFICES ASSUME TypeOK, EvidenceInv, [Next]_vars PROVE EvidenceInv'
  OBVIOUS
<1>1. ASSUME UNCHANGED <<state, pending, sent>> PROVE EvidenceInv'
  BY <1>1 DEF EvidenceInv, FlagsAreEvidence, ReadyIsEvidence, CommitHasFlags, CommitIsEvidence
<1>2. CASE UNCHANGED vars
  BY <1>1, <1>2 DEF vars, control
<1>3. CASE MigrateTo
  BY <1>3, StartEvidence DEF MigrateTo
<1>4. CASE OldPathFailed
  BY <1>1, <1>4 DEF OldPathFailed
<1>5. ASSUME NEW id \in RequestIds, ReceiveRequest(id) PROVE EvidenceInv'
  <2>1. CASE RefuseRequest
    <3> DEFINE next == IF active["Host"] < MaxGeneration
                       THEN active["Host"] + 1 ELSE active["Host"]
               records == {Abort("Host", active["Host"], next)}
    <3>1. Emit("Host", records, oldFailed["Host"]) /\ UNCHANGED <<state, pending>>
      BY <2>1 DEF RefuseRequest
    <3>2. \A r \in records : Backed(r)
      BY PlainBacked DEF Abort
    <3> HIDE DEF records
    <3>3. sent \subseteq sent' /\ \A r \in sent' \ sent : Backed(r)
      BY <3>1, <3>2, EmitBacked
    <3>4. (\A q \in Peers : FlagsStep(q)) /\ CommitHasFlags'
      BY <3>1 DEF FlagsStep, EvidenceInv, CommitHasFlags
    <3>5. QED
      BY <3>3, <3>4, EvidenceKept
  <2>2. CASE Start
    BY <2>2, StartEvidence
  <2>3. CASE UNCHANGED <<state, pending, sent>>
    BY <1>1, <2>3
  <2>4. QED
    BY <1>5, <2>1, <2>2, <2>3 DEF ReceiveRequest
<1>6. ASSUME NEW r \in sent, Lose(r) PROVE EvidenceInv'
  BY <1>1, <1>6 DEF Lose, control
<1>7. QED
  BY <1>2, <1>3, <1>4, <1>5, <1>6, LocalEvidence, ReceiveEvidence DEF Next

\* A commit is only ever sent for a path both peers have proved, whatever is
\* lost, repeated or left over from an attempt that was given up.
THEOREM CommitNeedsTwoWayProofHolds == Spec => []CommitNeedsTwoWayProof
<1>1. EvidenceInv => CommitNeedsTwoWayProof
  BY DEF EvidenceInv, CommitIsEvidence, CommitNeedsTwoWayProof, Answered
<1>2. QED
  BY <1>1, InitEvidence, NextEvidence, TypeCorrect, PTL DEF Spec

=============================================================================
