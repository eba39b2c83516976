# OpenStream: TLA+ specifications and proofs

OpenStream streams a desktop from a host to clients. This directory models the parts of its Rust engine
(`src/engine/lowlat/crates`) and of its signal server in which several actors work on shared or replicated state, checks them with TLC on
small instances and proves the most important results with TLAPS for every value of the constants.
`PROJECT.json` lists components, runs, mutants, hazards and theorems, and maps each definition to the
source lines it translates.

1. Inventory of the system
2. The modules and the code
3. The runs, their bounds and what they show
4. Fairness
5. The proofs
6. Known deviations
7. Abstractions, and what is not modelled
8. Plan

## 1. Inventory

| Component | State | Operations | Hard behaviour | Correct means |
|---|---|---|---|---|
| Path migration (`client-core/src/path.rs`, driver in `client-core/src/lib.rs`) | a `MigrationController` per peer: state, active generation, pending attempt, committed generation and token, draining slot | `start`, `prepare`, `opened`, `receive` (eight record types), `tick`, `fail_preparation`, `old_path_failed` | two peers, two paths, records lost, delayed and repeated; deadlines that pass at one peer; a token-less `Abort` | the peers never send application data on different paths, a commit is never rolled back, every attempt ends |
| Ordered control channel (`protocol/src/lib.rs`, `ReliableControl` in `client-core`) | next and expected sequence number, outstanding and waiting messages, pending acknowledgement, per direction | `send`, `send_if_available`, `retry`, `receive` | loss, reordering, repeated acknowledgements, wrapping numbers, a transmission that fails half-way through `receive` | each accepted message is delivered once, in order, in the end |
| Capability handshake (`negotiate_host`, `negotiate_client`) | phase of each peer and its temporary control channel | Hello, HelloAck, wait for the acknowledgement, time out, fail | the host returns before its acknowledgement has arrived, or fails after it has left; the session starts its sequence numbers again | a client in its session has a host that took its HelloAck, nobody is handed a message of the other phase |
| Transport delivery feedback (`transport-policy/src/delivery.rs`, `client-core/src/transport_ack.rs`) | the sender's ring of packets in flight, the receiver's bitmap of counters | `can_record`, `record_sent`, `acknowledge`, `observe`, `due`, `take`, reset on a new generation | fixed capacity, generations that change at the two peers at different times, delayed and repeated acknowledgements | honest acknowledgements are accepted, and a packet counted as delivered was received |
| Outbound scheduler (`client-core/src/scheduler.rs`, `Pacer`) | three class queues, byte debts, a token bucket | `queue_packet`, `pop_due`, refill, rate change, reset | strict priority against starvation, debts and credit across rate changes | queued work always becomes due; what passes waiting audio or video is bounded |
| SPSC ring (`common/src/spsc.rs`) | slots, wrapping head and tail | `push`, `pop`, `drop` | lock-free, `unsafe` slot access, stale loads, counters that wrap | a bounded first-in first-out queue with no racing access and no leak |
| Host seats and frame delivery (`host/src/stream.rs`, `frames.rs`, `gate.rs`) | state of each seat, its rings, the roster, reference-counted frame and audio pools, the gates | a guest takes and drops a seat and pops; the loop admits, retires, encodes and publishes, rebuilds encoders; the audio thread publishes | three kinds of threads, joins in flight, encoders that fail with guests seated | a slot is reused only when nobody holds it, a guest gets an unbroken chain of frames, seats come back |
| Core channels (`core/src/send.rs`, `channel.rs`, `session.rs`) | a `SendRing` and a `RecvRing` per channel, the trigger of the next acknowledgement | `send_message`, the scan of `get_output`, `process_input`, group acknowledgement and keepalive, `take_message` | loss, duplication and reordering; slots and sequence numbers that wrap; one acknowledgement that speaks for every channel | messages come out whole and in order; what the sender forgets has arrived |
| Signal session (`signal-server/src/main.rs`) | the published sockets of host, client and guests with their generations, the readiness epoch, pending messages, relay slots | connect, admit, park, promote, kick, forward, register a relay, clean up, revoke | a task outlives its place and cleans up late; bounded queues that refuse; replacement while the peer is being told | both ends are in the same epoch, nothing dead stays published, a relay slot follows its owner |
| Account store (`signal-server/src/control_plane.rs`, desktop `control_plane.rs`) | device trust, live and retired refresh tokens, in memory and on disk; the client's token and retry key | sign in, refresh with a retry key, revoke, remove, enrol, restart | lost answers, replays, failed writes, crashes between two writes, limits and expiry | a chain never forks, the condemned and the revoked stay out, an honest retry is no theft |
| Secure Connect (`signal-server/src/connect.rs`, handlers in `main.rs`) | requests, approvals under way, the session map, device trust | ask, approve, mint, publish, collect, deny, withdraw, expire, revoke | three locks, taken one after the other; repeated approvals; revocation in between | one session per request, credentials that name it, both ends checked again |
| Replay window, congestion controller, media reassembly, latest-frame mailbox, path MTU search, presence, agents and brokers, capture and codecs, input, settings, applications | see `components` in `PROJECT.json` | | | not modelled yet or out of reach, with the reason |

How they interact: an application's event loop owns one `PeerSession`. It sends through the scheduler; each packet is
sealed with an outer counter and, when the delivery estimator has room for it, recorded there. Everything received
passes `Session::open` (at most once per datagram), is filtered by path generation, goes either to the migration
controller (path control), the delivery estimator (acknowledgements) or the application, and is observed for the
next acknowledgement. The control channel is a helper above the session's packets; the handshake uses an instance of
its own. The migration controller tells the session when to activate a path, which replaces the estimator and the
acknowledgement window. On the host side, frames and sound reach a guest's thread through SPSC rings owned by its seat.

The host engine that is embedded through the C interface has a transport of its own, the `core` crate, whose channels carry control,
input, video and sound. Devices find each other through the signal server: a sign-in yields the tokens of the account
store, Secure Connect turns a request and an approval into a session with one credential for each end, and those credentials open the two
primary sockets of a signal session, through which the peers exchange what they need to reach each other. A revocation touches
all three: the store drops the device's tokens, and `revoke_owned_sessions` removes its sessions from the map.

## 2. The modules and the code

| Module | Models | Extends or instantiates |
|---|---|---|
| `PathHandoff` | what a migration promises to the session: the host falls silent, the client moves, the host follows | |
| `PathMigration` | both controllers, their drivers and the records between them | `PathHandoff` as refinement target |
| `PathMigrationProofs` | theorems | `PathMigration`, `TLAPS` |
| `ControlChannel` | `control::Channel` and `ReliableControl` as operators from state to state and frames | |
| `ReliableControl` | two event loops using it over a bag of datagrams | `ControlChannel`, `Datagrams` |
| `Datagrams` | the datagrams in flight between two peers, as a bag | |
| `CapabilityPhases` | the phases of the exchange and what they must never be | `Datagrams` |
| `CapabilityHandshake` | the negotiation and the session's first messages | `ControlChannel`, `CapabilityPhases` |
| `ReliableControlProofs` | theorems on both, which share the channel's variables | `ReliableControl`, `CapabilityPhases`, `CapabilityHandshake` (instance), `TLAPS` |
| `TransportDelivery` | estimator and acknowledgement window of one direction, composed with the order of activations | `PathHandoff` (instance) |
| `TransportDeliveryProofs` | theorems | `TransportDelivery`, `TLAPS` |
| `OutboundScheduler`, `OutboundSchedulerProofs` | class queues, debts, pacer; theorems | `OutboundScheduler`, `TLAPS` |
| `BoundedQueue` | what a ring promises | |
| `SpscRing` | every atomic and slot access of push, pop and drop | `BoundedQueue` as refinement target |
| `SpscRingProofs` | theorems, and lemmas on `%` and `\div` for wrapping counters | `SpscRing`, `TLAPS` |
| `HostSeats`, `HostSeatsProofs` | guests, encode loop, audio thread, pools and rosters; theorems | `HostSeats`, `TLAPS` |
| `CoreChannel` | the rings of every channel of a core session and the datagrams between them | |
| `SignalSession`, `SignalSessionProofs` | one session of the signal server, a critical section at a time; theorems | `SignalSession`, `TLAPS` |
| `ControlPlane` | the devices of an account | |
| `AccountRecord` | the record of an account, what a request does to it and what must hold of it | `ControlPlane` |
| `AccountStore` | that record in memory and on disk, the requests, and the client that renews its sign-ins | `AccountRecord` |
| `ConnectBroker` | requests, approvals and the session map | `ControlPlane` |
| `ControlPlaneProofs` | theorems on the store and the broker | `ConnectBroker`, `AccountRecord`, `AccountStore` (instance), `TLAPS` |
| `MC…` | symmetry sets and the values a `.cfg` cannot write | the module it names |

Operators whose names end in a deviation (`ReceiveRedelivering`, `WindowFreeByOne`, …) stand before the definition they
deviate from. They are plausible slips of the same code and are used by no specification; `PROJECT.json` pairs each with
the property that notices it.

**PathMigration.** One variable per field of `MigrationController`, as a function of the peer. A step is a whole
call of the driver: the controller's transition and the writes of its action list, each of which may fail and then marks
the active path as failed, as `apply_migration_actions` does. `sent` is the set of all records ever written; a record in it
may be received at any time, any number of times, or never, which is what retransmission over a lossy network
amounts to. For liveness, records of the types in `Losable` can in addition be forgotten (`lost`) until they are written again. A
clock is whether a deadline has passed. A client's request, which nothing in this repository sends, is an input of the
host that may come at any time.

**ControlChannel, ReliableControl, CapabilityHandshake.** A call takes the control state and yields the state after it,
the frames it transmits and the messages it delivers. The n-th message is the number n. Datagrams are a bag, written as the map from a
record in flight to its copies: every retransmission is a datagram of its own and each is opened once. `Fresh` bounds the life of a
datagram to half the sequence space, the assumption behind a circular comparison. `SendFails` and `ReceiveFails`
are the calls that return an error, with which every caller ends its session. In the negotiation `Fail` is an error of `recv`, of the first send or
of a retry, and `ReceiveFails` one inside `ReliableControl::receive`, whose acknowledgement may have left before its flush fails; a host that had just taken the
HelloAck then is in phase `FailedAcking`.

**TransportDelivery.** `sender` is either peer and, like the order in which the two negotiations returned, chosen by `Init`.
Bitmaps are sets of offsets below the largest counter. The handoff variables are those of `PathHandoff`, which
`PathMigration` is proved to implement: the delivery accounting is thus checked against every order of
activations the migration can produce, without its records. `got`, `retired` and `sample` are history variables.

**OutboundScheduler.** Lengths are units of which a datagram has `Datagram`; the bucket is refilled at each
tick. `passed` counts the units served ahead of a class with due work.

**SpscRing.** `pushes` and `pops` count without wrapping; `Wrap` of them is what the code's `tail` and `head` hold. A load of the other
thread's counter returns any value between the last one seen and the current one, which is all an acquire load promises.

**HostSeats.** A guest is a thread: it claims a free seat (compare-exchange), sends its `Join`, pops frames, and on drop marks the
seat as leaving. The loop's load of a claimed seat and its store of `Streaming` are two steps. Publishing is
one push at a time, so a guest can take, send and release a frame while it is still being pushed to others. Where a slot waits is a set of places, a seat
and a position in its ring (`Queued`, `Sounding`); what `release` gives back, and what the counts must come to, are the sizes of these sets. A guest may leave at any
moment after its claim (`Leave` is the drop of a `SeatHold`), and an encoder may end in any of its three ways. `inherited` is a history variable, the guests that took a seat on which an earlier guest had left
something: a `Join` that is queued or being applied, a roster entry, a queued frame (`Traces`). A push or a pop is one step, because the ring is a bounded queue for one
producer and one consumer. Where the loop's `release` pops beside the guest, that is no longer so: `ArrivalContended` is what the two overlapping pops can come to, the same slot given
back twice included, and it sets `contended`.

**CoreChannel.** `tx[c]` and `rx[c]` are the rings of channel `c`, slot by slot. A pass of `get_output` is `BeginPass` and then one `Emit` (or
`EmitCapped`, at `OUTSTANDING_CAP`) per datagram; the order in which a pass takes the channels is left open, which includes
the quanta of the code. A receive takes a datagram out of the network or leaves it there, which is duplication. Whether a
retransmission timeout or the cadence of the keepalive has elapsed is a free choice. Both ends cut fragments to what a slot holds (`admission.rs` builds either ring with the same slot length), so
that `store` never answers `TooLarge`. `taken`, `refused` and `clashed` are history variables; the last has the channels that queued a fragment while a number less than a
ring before it had the same slot and was not yet acknowledged or not yet read (`SlotTaken`). `load`, chosen by `Init`, is what there is to send, where
both drained rings stand, and how many data datagrams of a channel the network holds.

**SignalSession.** Each action is one critical section of the session map's lock. `task[p][n]` is the task of the n-th connection of
principal `p`: it leaves its loop at some time, or because it is cancelled, and cleans up in a later step. Whether a `try_send` to an
established connection succeeds is an input of the step (`takes`); the queue of a connection that is being admitted starts empty, so its
messages are counted against `MAX_OUTBOUND_MESSAGES`. `told` holds the epochs a connection was told of and not reset from.

**AccountStore.** A request is a step, since it runs under the store's lock; `Save` and `SaveTwice` split it where it writes: a write may
fail, and the server may crash between the two writes of a rotation. Tokens are numbers in the order of issue, which is the order of their expiry. The client
(`Refresh`, `RefreshLost`, `RefreshRefused`, `ClearCredentials`) is the desktop's, which keeps its retry key until it has an answer.
Live tokens and tombstones are sequences in the order of the code's vectors; `Retain` is the `retain` of the code.
`client[f]` is whether the sign-in took place (`began`), and the client's token and key. `Replay` is a token presented by somebody else or by a delayed request. `disturbed` collects the sign-ins to which something has happened
that a retry key is not meant to repair.

**ConnectBroker.** An approval is a process (`call[c]`) of one critical section after another: both trust checks, approve, mint,
insert, mark, collect. The last takes the accounts' lock within the broker's to issue the session grant, and hands nothing out when that fails. The calls for one request run concurrently, as a client repeats one whose answer was lost. `lapsed[c]` is the set of devices
that have been untrusted ever since call `c` began.

## 3. The runs

Two workers are enough for each of them; states are distinct states.

| Run | Instance | States | Shows |
|---|---|---|---|
| `migration` | one token, generations 1 and 2, one client request, probes losable | 44 319 | agreement, no split brain, no commit without proof by both peers, refinement of `PathHandoff`; attempts and drains end, and with fair-lossy paths an attempt reaches the client's commit |
| `control` | four client messages, one host message, sequence space 4, window 2 | 27 849 | in-order delivery, nothing leaves the window undelivered, everything arrives |
| `handshake` | window 1, two session messages each, time-outs, failing sends and receives | 53 289 | the client joins only a host that has taken its HelloAck, which is in its session unless it failed in that very receive; nobody is rejected; the exchange completes, times out or fails |
| `delivery` | both directions, three counters, history and bitmap of two, three ticks, one migration | 1 889 743 | honest acknowledgements accepted, delivered means observed, exact bitmap, unbiased round trips |
| `scheduler` | datagrams of two units, two packets per class, rates 0, 1 and 3 | 517 615 | nothing stranded; bounded overtaking of audio and video |
| `ring` | capacity 3, counters of 9 values, 20 pushes | 1 342 | slots handed over, no leak, refinement of `BoundedQueue` |
| `seats` | two guests, two seats, two slots, rings of one, four frames, one encoder that ends, symmetry | 3 700 041 | intact frames; for a guest that inherited nothing, unbroken chains, the seat to itself in the roster, and no other popper |
| `seats_rebuild` | two guests, one seat, sound, two encoders that end | 233 913 | exact reference counts under failure, early leaving and sound, until a ring has had two consumers at once; guests that stay are admitted |
| `core` | rings of two slots, a sequence space of nine, one acknowledgement in flight; either a control message of one fragment and a video message of two from sequence zero, one data datagram of each in flight, or video messages of two, one and one fragments from three steps before the wrap, two data datagrams in flight | 2 516 180 | messages whole and in order, across the wrap too unless a fragment was queued in a slot still taken; a fragment is given up only when it has arrived, or in one of the exceptional cases of section 6 |
| `signal` | host and client with two connections each, two guests with one, pending queue of one, guest symmetry | 541 561 | shared epochs, no dead socket published and no live one lost, relay slots follow owners, a reconnect fits its queue |
| `accounts` | two sign-ins on one device, three tokens, two tombstones, two upsets (a failed write, a crash, an expiry or a decision on the device), symmetry | 284 963 | chains do not fork, condemnation and revocation survive failed writes and restarts, an honest retry is not condemned |
| `connect` | two devices, one request, two concurrent approvals, symmetry | 1 019 176 | credentials name the session, one session per request, both ends checked again |

Why the bounds are enough to be interesting. *Migration*: one token and two generations allow a failed attempt followed by another with the same
token, records of the first arriving during the second, and a draining path beside an idle controller; the safety properties were also checked with
two tokens and three generations (462 733 states) and are proved for all. *Control*: four messages take the sequence numbers of a space of four round to zero, with a
window that fills. *Handshake*: one message beyond the window reaches the retry of a session message. *Delivery*: three counters over two slots force the reuse of
a history slot and a shift beyond the bitmap; three ticks exceed every delay. *Scheduler*: rate 1 gives the smallest bucket (one datagram)
and rate 3 the largest, so both clamps act. *Ring*: twenty pushes wrap counters of nine values twice. *Seats*: two guests over two seats
take the same seat one after the other, and each finds the other beside it; four frames over two slots reuse a slot. *Core*: the first load has an acknowledgement of one channel speak for the other; in the second four
fragments reuse the slots of two, and two datagrams overtake one another or come late. As 4000 does not divide 2^32, two does not divide nine, so that numbers 8 and 0 share a slot; there are behaviours in which they
are in the window together and behaviours in which they are not. *Signal*: two connections each let a replaced task clean up after its successor, and two guests
let one be promoted while the other is parked. *Accounts*: three tokens are a rotation and its retry, or a rotation beside
a second sign-in, and two upsets a revocation and a restart after it; with one sign-in and five tokens, a retry of a retry that exceeds the limit of tombstones (192 222 states), and with two sign-ins, four tokens and room for one tombstone, where a rotation of one prunes the other's (1 725 365 states),
the result was the same. *Connect*: two calls are the
approval and its repetition; more of everything is covered by the proofs. So is what no run reaches for want of states: the pruning of live tokens and, in `accounts`, of tombstones, and in `signal` a guest that
is replaced by a second connection of its own.

Deadlock is not checked where the bounds end a behaviour. The scheduler is the exception: it can always tick.

Modules that hold a `TypeOK` are typed on the instances of their runs; the runs do not list it, because their other invariants are stronger where it matters. For
`PathMigration`, `SpscRing`, `OutboundScheduler`, `TransportDelivery` and `HostSeats` it is proved; `ConnectBroker`, `SignalSession` and `ReliableControl` are typed by a part of their
inductive invariants. What that part leaves out of `ReliableControl`'s `TypeOK` is the size of the buffer of messages received ahead of a gap and the copies of a datagram.

## 4. Fairness

*Migration.* While a migration is busy `recv_step` wakes at least every `COMMIT_RETRY` and calls `tick`, so `TimeOut`, `Retire`
and `Retry` are weakly fair (`TimePasses`), as is the clock. `HandshakeCompletes` needs more (`PromptFairness`): an
opening either succeeds or fails, and a record written again and again is written successfully and received infinitely
often (strong fairness of each receive), the usual meaning of a fair-lossy path. It claims nothing about a peer whose deadline
has passed. Both formulas are antecedents of the properties, so the run itself is unrestricted.

*Control and handshake.* Every event loop calls `retry` from a control tick (100 ms in the session, 250 ms in the
negotiation): weak fairness of `Retry`. A frame that keeps being transmitted gets through in the end, and so
does an acknowledgement that keeps being repeated: strong fairness of their arrival.

*Seats.* The loop's thread runs (weak fairness of its steps). Guests and the audio thread may stop anywhere.

The scheduler, the delivery accounting and the ring have no liveness property: the scheduler's bounds are stated as safety
(`passed`), which is stronger than eventual service. Nor have the core channels, whose progress depends on timers and on the stall escape
that are not modelled, nor the signal server: a client may never retry, and a socket may stay open for ever.

## 5. The proofs

**Path migration** (`PathMigrationProofs`), for every set of tokens and request identifiers and every largest generation. The assumptions are
`MaxGenerationAssumption` (a positive natural) and `NoneAssumption` (`None` is no token, record or slot).

- `TypeCorrect`: `Spec => []TypeOK`, one step per action.
- `Invariance`: `Spec => []IInv`, where `IInv` is `TypeOK`, `Agreement`, `NoSplitBrain`, `AckIsDurable`, `OneReplacement` and three
  facts without which those are not inductive: `SettlingHasAttempt` (a host that committed or gave up still has the attempt),
  `CommitsAreCurrent` (a `Commit` on the wire for the generation after the host's active one belongs to the host's
  attempt) and `CommittedIsActive` (what a peer committed last is what it uses). The argument: only a host with both proofs sends `Commit`, and
  it is silent from then on; the client moves only on a `Commit` of its own attempt, which `CommitsAreCurrent` ties to the host's;
  the host follows only on a `CommitAck`, which by `AckIsDurable` means that the client has moved. `StepCases` reduces
  `Next` to the client's move, the host's activation and steps that are harmless: they leave generations and commitments alone, and neither wake a
  silent host nor emit a `Commit` other than for the host's own attempt. Each kind has a lemma.
- `AgreementHolds`, `NoSplitBrainHolds`, `AckIsDurableHolds`, `OneReplacementHolds` follow.
- `RefinesHandoff`: `Spec => ImplementsHandoff`; each kind of step is a step of `PathHandoff` or a stutter.
- `NoRollbackHolds`: the action property, from the same case split.

**Proof before commitment** (the second half of `PathMigrationProofs`). `CommitNeedsTwoWayProofHolds`: `Spec => []CommitNeedsTwoWayProof`, from the same two
assumptions. A commit is written by a host from what it remembers of an attempt (`opened`, `proved`, `peer_ready`), and the
property speaks of the records that were written; the invariant `EvidenceInv` connects them. `FlagsAreEvidence`: a flag of a pending
attempt is backed by a `ProbeAck` of its token and generation, written on the new path to the peer the flag is about. `ReadyIsEvidence`: so is a `Ready` on the
wire. `CommitHasFlags`: an attempt whose commit is out has both flags. `CommitIsEvidence`: a `Commit` on the wire has the evidence of both peers. `TypeOK` comes from `TypeCorrect`.

**Secure Connect** (`ControlPlaneProofs`), for any sets of devices, requests and calls, from `DevicesAssumption` (`None` is no device).
`BrokerInvariance`: `Spec => []BrokerInv`, whose parts are `Types`; `MintersOwn`, a call from the minting to the marking
owns its request, which carries that call's session or is gone; `OneMinter`, no two calls are about to insert a session of the same request, and none is once there is
one; `InsertedOwn`, the call that made a session owns its request; `Informed`, what a call remembers of its request is still true; `PublishedIsInserted`, the session of a
published request was in the map; and `CredentialNamesSession` itself. `OneMinter` is what a repeated approval could break and why `approve_scoped` must decide and record in one critical section.
`CredentialNamesSessionHolds` and `OneSessionPerRequestHolds` follow. `BothEndsRecheckedHolds` is an action property; it needs
`RecheckInv` in addition, that a call past its check of a device has seen it trusted since it began.

**Account store** (the second half of `ControlPlaneProofs`), for any sets of devices and sign-ins and any limits, from `RecordAssumption` (positive limits; every sign-in has a device of the account or none; finitely many sign-ins, so that a client finds an unused key; `None` is neither a sign-in nor a number).
`StoreInvariance`: `Store!Spec => []StoreInv`. The properties speak of memory and of disk, and between the two writes of a rotation the two differ; what makes the invariant inductive is that *each* record on its own satisfies `Sound`: no two live tokens
of one sign-in, none of a sign-in that did not begin or was condemned, none of a device that is out, tombstones only of sign-ins that began, and every device whose revocation was acknowledged is out. Then it does not matter which
of the two a restart or a failed write makes the current one. `AccessSound` says the same of the access tokens, against memory. The argument for a rotation: consuming the one live token of a sign-in leaves none (`ConsumedSound`), so issuing one leaves one
(`IssuedSound`); every other request only narrows a record (`NarrowsSound`). What `retain` and the two prunings keep is derived from cardinalities, `Retain` being defined by them and not by recursion. `ChainNeverForksHolds`, `CondemnedStaysDeadHolds` and
`RevokedHoldsNothingHolds` follow.

`HonestIsNotCondemnedHolds` (an action property) needs a second invariant beside it, `HonestInv`. Its heart is `Answered`, which holds of every sign-in that is not `disturbed`: if the client's token has a tombstone and a token of the sign-in is live, then the tombstone
holds the client's key and names that token as its successor, *in memory and on disk*; a tombstone of the client's token on disk is in memory too (otherwise a restart would bring back evidence that memory had forgotten); and the grace of the client's token runs.
`Lineage` (a token belongs to one sign-in, and its number was issued) separates the sign-ins, and `Disjoint` (no token is live and retired in one record) says that the tombstone a rotation adds is a new one. The steps: a request for a token of another sign-in is
*aside* (`ServeAside`: it may prune tombstones of this one, but from both records); the client's own request leaves it answered, heard or lost (`ServeOwn`: every tombstone the retry was answered from is linked to the new token, and `KeyIsFound` gives
the retry a key); a request that only changes a key cannot break what has no tombstone (`ClientHonest`). Last, a step that leaves memory as a condemnation would is a replay (`OnlyReplayCondemns`: a rotation adds a tombstone), and the retry of an undisturbed client is not one (`OwnRetryIsAnswered`).
The attempt found one case that the property had not excepted: the pruning of item 15 below.

**SPSC ring** (`SpscRingProofs`), for every capacity that divides the counter space (`Divides`, a hypothesis of each
theorem; every capacity that is a power of two satisfies it). `IInv` says that the counters are at most a
capacity apart and each thread's view of the other lags (`Counters`), that a decision to write or to read stays right whatever the
other thread does since (`Decisions`), which slot holds which value (`SlotsHold`), and what is left after `drop`
(`Finished`). The lemmas on modular arithmetic give the two facts the code relies on: the
wrapping difference of two counters is their true difference, and two counts less than a capacity apart have different slots.
`RingTypes`, `WritesFreeSlotHolds`, `ReadsOldestHolds`, their conjunction `SlotsHandedOverHolds`, `NothingLeaksHolds` and `RefinesBoundedQueue` follow.

**Control channel** (`ReliableControlProofs`), for every even sequence space, every `max_pending` up to half of it and any number of messages, from
`SeqSpaceAssumption`, `MaxPendingAssumption` ("bounded far below half the sequence space", as the code says; half of it is enough), `NoneAssumption` and
`BoundsAssumption`, and with `Fresh` in the model: no datagram outlives half the sequence space. `ControlInvariance`: `Spec => []ControlInv`, whose parts follow one
direction at a time. `Sending`: the outstanding map is exactly the messages after some `lo` up to the last accepted, each under its wrapped number, and `lo` is at most what the
other caller was handed (unless its loop ended in the middle of a receive). `Receiving`: a loop that still runs expects the message after those its caller has, and buffers only messages
beyond that one. `Handed`: the caller has the messages 1, 2, …. `Carried`: a datagram in flight carries an accepted message, or acknowledges one that was delivered. The argument: an accepted message lies
within a window of what the receiver expects, because the sender's `lo` is at most that, so `sequence_at_or_before` decides as the unwrapped numbers would (`AtOrBeforeIsOrder`); hence the
message expected next, and the buffered run behind it, are the messages the caller lacks (`DeliverMoves`), a stale acknowledgement moves `lo` by at most what is delivered (`AcknowledgeMoves`), and
the window is as large as its numbers are many (`WindowCount`), so that `queue` never overwrites an outstanding message. Each call of `ReliableControl` has a lemma in these terms before the steps are treated. `InOrderDeliveryHolds` and `AckedIsDeliveredHolds` follow.

**Capability exchange** (the second half of `ReliableControlProofs`), for every sequence space, `max_pending`, number of copies in flight and of session messages. `ExchangeInvariance`: `Handshake!Spec => []ExchangeInv`. Both properties are about traffic that
is *not* there: until the host has taken the `HelloAck` (`HasTaken`: it is in its session, or failed in the receive that took it) nothing is in flight but `Hello`, `HelloAck` and the client's acknowledgements (`NothingElse`), the host's channel offers `Hello` alone and has received nothing (`Offers`, `Untouched`),
and a client that waits for the host still offers `HelloAck`. Hence no acknowledgement of `HelloAck` exists before the host has taken it, and the client cannot be in its session first (`ClientJoinsHostHolds`); and the only data frame that can reach either negotiation is the one it
waits for, since the sessions' messages, which reuse the same sequence numbers, start only after the host has left its own (`NobodyRejectedHolds`). A receive that fails keeps this: a client's leaves an acknowledgement at most, a host's happens on an acknowledgement, which delivers nothing, or on
the `HelloAck` (`ReceiveFailsInNegotiation`). That the host is then in its session cannot be proved, because it need not be (section 6, item 18).

**Delivery accounting** (`TransportDeliveryProofs`), for every ring, bitmap, threshold, delay and number of generations, from `DeliveryAssumption` (positive sizes; an acknowledgement is due before its delay
exceeds the largest it may report). `DeliveryInvariance`: `Spec => []DeliveryInv`. `Sending`: what is in flight or was observed on the sender's generation is known to the estimator, in the slot of its counter unless a later packet took it. `Unique`: counters
are never reused, so a counter is one datagram or one observation. `Observing`: the bitmap and the observations on its generation are the same set, as far as the bitmap reaches. `Acking`: an acknowledgement names
observations of its own generation and tells how long the largest waited. The properties are part of the invariant, because each survives an acknowledgement only by what the others say of it.
`HonestPeerAcceptedHolds`, `DeliveredWasObservedHolds`, `WindowIsExactHolds`, `RttIsTransitHolds` and `TypeOKHolds` follow.

**Scheduler** (`OutboundSchedulerProofs`), for every datagram size, burst, set of rates and queue capacities, from `SchedulerAssumption`. `SchedulerInvariance`: `Spec => []SchedulerInv`. A debt measures
what its class was served since it was last forgiven: below the quantum exactly, and the packet that fills the quantum adds less than a datagram. `AudioPassed` and `VideoPassed` bound what has passed a waiting class by those
debts; for video, every unit of audio may have brought a run of critical traffic with it, hence the product. `PriorityIsBoundedHolds`, `NothingStrandedHolds` and `TypeOKHolds` follow.

**Host seats** (`HostSeatsProofs`), for any finite sets of guests and seats, any slots, ring depths and bounds, from `SeatsAssumption` and `NoneAssumption`.

- Of every host, whatever guests leave early, encoders fail and sound is played, until a ring has had two consumers at once (`contended`): `SeatsInvariance`, `Spec => []SeatsInv`. Beside `TypeOK`, `HoldsCounted` and `FramesIntact` the invariant has `Threads` (what the loop's thread holds follows from where it stands, and
  the slot being published has the bytes of its frame) and `Once`: a guest announces itself once, and is then in one place, on its way, being admitted or in the roster. `Once` is why the count is right: `publish` counts roster entries and then pushes once
  for each distinct pair of seat and guest, and those agree only if no guest has two entries. The counts are compared as sizes of sets of places: a push adds one place, a pop shifts the places of one ring down by one and removes its
  first, `release` removes those of its seats (`Places` and its lemmas). A slot whose count is zero then waits in no ring and is in nobody's hands, which is `FramesIntact` when it is filled. `TypeOKHolds`, `HoldsCountedHolds` and `FramesIntactHolds` follow.
- Of every host too, for the guests that took a seat with nothing of an earlier guest left (`Clean`): `CleanInvariance`, with no hypothesis on who leaves when or which encoders end. `Discipline`: a seat has one guest at most, and none when it is `Free` or `Leaving`. `Settled`, of a clean guest: while its seat is `Claimed` the ring is empty, no `Join` for the seat is about but its own, and the roster has no entry for it; when it is `Streaming` no `Join` for it is left, and no entry but its own. This is inductive because whatever could change it, another `Join` or entry for the seat, would be a trace, and the guest would not be clean; what a later guest of the seat inherits
  does not matter any more. `Latch` adds that a clean guest whose gate is open has every frame encoded so far, or that the frame being published is still to be pushed to it or was refused by its ring. That is what makes `ChainUnbroken` inductive, because an open
  gate lets a predicted frame through without looking at the ring. `RosterIsSeatedHolds`, `ChainUnbrokenHolds` and the action property `GuestIsOnlyPopperHolds` follow. Of a guest that inherited something they are false, as `SingleConsumer` and `AnyChainUnbroken` show (section 6, item 6).

**Signal session** (`SignalSessionProofs`), for every set of guests, number of reconnects and pending queue, from `SignalAssumption` (`None` is no generation, principal, relay slot or pair of generations). `SignalInvariance`:
`Spec => []SignalInv`. Of the session: a published connection is the latest of its principal, and a guest's that of a guest still admitted; a ready pair is the published one, and only its ends were told of the epoch; at most one
bridged client or guest; a relay slot belongs to the connection that is published. Of the tasks: `PlaceServed`, a published connection has a task that still runs, and a task that runs and was not closed is published. That a task cleans up long after it
was replaced is harmless because the cleanup compares generations, and the invariant makes that comparison decide. Every operation on the session has a lemma that says which fields it leaves alone. `PublishedIsServedHolds`,
`RelayFollowsOwnerHolds` and `PairSharesEpochHolds` follow; `FreshSocketFitsHolds` is an action property, that the first messages of an admitted connection fit its empty queue.

**Only model-checked**: every liveness property and everything that needs `ENABLED`, which are out of the prover's reach (`HandshakeCompletes` of the migration and of the exchange, `AttemptSettles`, `EveryMessageArrives`, `GuestIsAdmitted`); and `InOrder` and `RetiredWasSeen` of the core channels. These two, even with the exception of `clashed`, are not true for every number of messages: nothing in `CoreChannel` bounds the life of a datagram, so that one that is a whole sequence space old could be taken
for its successor. The run is below that bound; a proof needs a `Fresh` such as the control channel has, and then what the ring and the control channel needed together.

## 6. Known deviations

What the code does and a comment or document beside it says otherwise, or what a property above has to except. None has a run of its own; each
is reproduced by the property and the change named. For those of the host, *the small host* is two guests, one seat, one slot, `Depth = 1`, no sound, `MaxFrames = 2`, `MaxExits = 1`.

*Path migration and handshake*

1. *A lost CommitAck may never be repeated* (`path.rs:544`). The host repeats `Commit` on the old path, which the client reads only for
   the drain grace of 250 ms, one retry interval. After that the acknowledgement is not repeated and the host ends in `CommitUnconfirmed` although both peers and
   both paths work. `path.rs:382`: "A committed responder repeats the ACK even when the first send was lost."; the design
   (`docs/superpowers/specs/2026-09-09-shared-path-controller-design.md:121`) says the client accepts a duplicate commit "on either of those two paths". Check `LostAckIsRepeated`
   under `PromptSpec` with `Tokens = {t1}`, `MaxGeneration = 2`, `RequestIds = {}`, `Losable = {}`.
2. *A frame of the negotiation acknowledges a session message* (`client-core/src/lib.rs:3840`). The negotiation's channel is dropped and the session's starts at
   sequence zero again, so a late acknowledgement removes the session's first message from the window. `mobile-ffi/src/lib.rs:459`: "Input state
   is ordered and must not disappear during a short Wi-Fi loss." Check `SessionMessagesSurvive` with `MaxPending = 2`, `MaxSession = 1`, `MaxCopies = 2`.
3. *Early path control* (`client-core/src/lib.rs:3701`): a path-control record that arrives before the receiver's negotiation has returned is treated as data and
   acknowledged; the sender never recorded it, so the acknowledgement is a `FutureCounter` and ends its `recv`. Check `TracksOnlyApplication` in
   `MCTransportDelivery.cfg`. `HonestPeerAccepted` excludes exactly this case.

*Host*

4. *A seat left early does not come back* (`host/src/stream.rs:3866`). A guest that leaves before its `Join` is taken while an encoder runs has its seat emptied and not
   freed; likewise when it leaves between the loop's load and its store (3866, 3870), where `Leaving` is overwritten by `Streaming`. Line 1459: "the seat comes back on drop, whatever path the
   guest's thread left by". Check `SeatComesBack` under `FairSpec` of the small host.
5. *Roster entry of a freed seat* (`stream.rs:2018`): `retire_leaving` frees a seat during a rebuild and keeps its roster entry; frames are pushed to a free
   seat and to its next guest. That guest is one of `inherited`, whom `RosterIsSeated` excepts: put `Occupants` for `Clean` there to see it. Line 31 says nothing is published once `Leaving` is seen.
6. *A Join names a seat, not a guest* (`stream.rs:3861`). A guest claims a seat, sends its `Join` and leaves; the waiting loop frees the seat with the `Join` still queued; a second guest claims the seat; the first
   guest's `Join` admits it; and the second guest's own `Join` then finds the seat `Streaming`, so that the loop releases its rings. Line 275 says "the loop is the only pusher and the seat's guest the only popper": check `SingleConsumer` of the small host.
   The release also takes a keyframe out of the ring without latching the gate, and a predicted frame follows, where `gate.rs:7` says "A guest that misses one frame must miss every frame until the next
   keyframe": check `AnyChainUnbroken` there. Two pops at once are outside the contract of the ring: both may give the same slot back, after which the counts of the pool mean nothing, and `HoldsCounted` and `FramesIntact` say nothing either (`contended`).
7. *Sound for a freed seat* (`stream.rs:806`): the audio thread pushes to a seat emptied and freed since it looked. Line 30 says that the loop is the only thing that pushes, and frees a seat only when it is empty: check `FreeSeatIsEmpty`
   of the small host with `SoundSlots = {p1}` and `MaxPackets = 1`.
8. *Stale fallback* (`stream.rs:1880`): the codec remembered by a reconfiguration is still the fallback when a much later encoder stops; the guests that stay are
   moved to it and `epoch` does not move. Visible in `Failed` (the case `fallback = {"codec"}`); frames carry no encoder in the model.
9. *Ring capacity and wrapping counters* (`spsc.rs:87`): `tail % N` is continuous over the wrap of `usize` only if `N` divides its range, and the
   audio ring has `N = 5`. Set `N = 5`, `CounterSpace = 16` in `MCSpscRing.cfg`: `SlotsHandedOver` fails. It takes 2^64 pushes.

*Core channels*

10. *A keepalive names control fragment 0* (`core/src/session.rs:1099`). "Nothing prompted it, so there is nothing to point at", yet the zeroed trigger is one: a sender whose control
    fragment 0 is still in flight takes the keepalive for its acknowledgement. Leave out the last disjunct of `RetiredWasSeen`.
11. *A fragment without a slot is acknowledged* (`core/src/session.rs:671`): the trigger is set before `store` answers `OutOfWindow`, so the
    sender never sends it again. Leave out the disjunct with `refused`. It takes a sender whose window is larger than the receiver's free ring, which `Depth` at both ends and
    slots that stay occupied until read allow. The stall escape, not modelled, is the code's remedy.
12. *Ring depth and 2^32* (`core/src/send.rs:239`). A slot is a sequence number modulo 4000, and 2^32 is 3296 more than a multiple of 4000: across the wrap two numbers 3296 apart have the same slot, so that a window of more than 3296
    fragments, which `window_free` admits, overwrites fragments that are not acknowledged, and a receiver takes one fragment for another. Check `InOrderAcrossTheWrap` in `MCCoreChannel.cfg`; `InOrder` and `RetiredWasSeen` except a channel to which it has happened
    (`clashed`). `send.rs:236` names the depth as the whole bound, and `docs/01-protocol.md:360` expects the wrap after fifteen days of video.

*Signal server*

13. *Revocation overtaken by an approval* (`signal-server/src/main.rs:2445`). "Revoking a compromised device must end its sessions now" (2437 and following), but an
    approval past its checks inserts its session after `revoke_owned_sessions` has swept the map. Check `RevocationEndsSessions` in `MCConnectBroker.cfg` (a trace of twelve states).
    `BothEndsRechecked` says what the checks do achieve. Likewise, a request that expires or is withdrawn between insert and mark leaves a session nobody can collect.
14. *Tombstones expire with their token* (`control_plane.rs:795`), where the comment at 362 says "The family's own expiry, not the token's". Check `EvidenceOutlivesFamily` in `MCAccountStore.cfg`.
15. *When an honest client is condemned after all* (`control_plane.rs:839` and the client's refresh): after a crash or a failed write between the two saves of a rotation;
    after a refusal (429 or 5xx) that costs the client its retry key; when a request it sent is delayed past the next rotation; and when the rotation of *another* sign-in prunes the client's tombstone and its first save fails, so that memory has forgotten
    what the disk still holds: the retry is then answered as an unknown token, which spends the key, and after a restart the next one is a replay (to see it, drop `Forgotten` from `disturbed'`, with `MaxRetired = 1`, `MaxTokens = 4`). These are the cases `disturbed` collects and `HonestIsNotCondemned` excepts.
16. *A failed save of a revocation* (`main.rs:2311` and following): when `set_device_trust` fails to save, the trust has changed in memory and the handler returns before it ends the device's sessions.
17. *Smaller things met while modelling the signal session*: a client's departure never promotes a parked guest, only a guest's does; the close sent to a kicked guest is dropped
    when its queue is full; a sender whose peer's queue is full loses its own connection; `guest.pending` is never filled.

*Capability exchange*

18. *A client alone in its session* (`client-core/src/lib.rs:2144`, `3956`): the host's `receive` has sent the acknowledgement of the `HelloAck` when its flush fails; `negotiate_host` returns the error, and the client, whose `HelloAck` is
    acknowledged, goes into its session. Lines 3915 to 3918 say what waiting for the acknowledgement is for, one-way loss, and do not claim more. `ClientJoinsHost` admits exactly this host (`FailedAcking`).

## 7. Abstractions, and what is not modelled

- Payloads, byte formats and cryptography: a record is its fields, a message a number; authenticity and
  at-most-once opening of a datagram are assumed (`protocol::Session`).
- Time: deadlines that pass at any moment, or ticks. Arithmetic on durations is not modelled.
- The driver of a migration is not cancelled in the middle of a step; hazards at `client-core/src/lib.rs:2322` and `3738` describe what that leaves out.
- One session, one pair of peers. Several guests appear only in `HostSeats`, whose rings are atomic because `SpscRing` is proved to be a bounded queue (for
  capacities that divide the counter space, and one consumer at a time; see `ArrivalContended` for two).
- The gate's high-water mark, its throttle of keyframe requests, controllers, the pointer and pacing of the encode loop.
- Core channels: one direction of a session, no pacing, no resizing for the path MTU, no stall escape (`escape_stall`), no watchdog.
- Signal session: one session; generations do not reach 2^64; rate limits and expiry by age are refusals or `Revoke`. Account store: one account; passwords and enrolment keys are outside.
  Secure Connect: one account; other accounts appear as a full broker or a full map.
- How much of the repository this is: most of its lines are generated bindings of media and graphics interfaces (`encode/src/ffi`), platform code around
  them, user interfaces, command lines, configuration and tests. They keep no replicated or shared state that a model of this kind could say something about. The modules
  cover the parts that do, the ones of the plan below excepted.
- The components listed as `not_modelled`, each with its reason in `PROJECT.json`.

## 8. Plan

Done: the modules above, in the order migration, control channel and handshake, delivery, scheduler, ring, seats, core channels, signal session, account store, Secure Connect.

Next modules, in this order:

1. `ReplayWindow` (`Session::open`; hazard: a datagram exactly one window behind, or a jump by exactly the width of the mask), to discharge the at-most-once assumption all models
   share, and `LatestFrame` (publish racing the two-phase close).
2. `PathDriver`: `migrate_to` and `recv` as cancellable sequences of steps (`client-core/src/lib.rs:2322`, `3738`), with the opening of a path, `path_candidate` (2548) and `migration_inbox` (2236);
   shown to implement `PathMigration` where it is not cancelled.
3. The composition of `OutboundScheduler` and `TransportDelivery` (`flush_outbound_inner`, `OutboundHistoryFull`).
4. The stall escape and the resizing of `SendRing`, and with them liveness of `CoreChannel`.
5. Host admission (`admission.rs`); the gate's high-water mark and throttle, and the host's stop, in `HostSeats`.
6. The presence table of the signal server; the congestion controller over the estimator's samples; media reassembly.

Next theorems, in this order: `CoreChannel` (`InOrder`, then `RetiredWasSeen`) with a bound on the life of a datagram.
