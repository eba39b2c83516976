---------------------------- MODULE ConnectBroker ----------------------------
(***************************************************************************)
(* Secure Connect: how a device of an account asks another one for a       *)
(* session, how the other approves, and how each end collects its own      *)
(* credential, while devices are revoked.                                  *)
(*                                                                         *)
(* The device trust, the broker's requests and the session map have a lock *)
(* each.  Every step below is one critical section of one of them, and an  *)
(* approval is a process of its own, run by an HTTP request that is        *)
(* repeated when its answer was lost.  Its last step alone holds two: the  *)
(* broker's lock, and within it the accounts', to issue the session grant. *)
(*                                                                         *)
(* A deadline may pass at any time and any device may be online.  The      *)
(* broker and the session map are shared with other accounts, and either   *)
(* may be full when this one needs room.                                   *)
(***************************************************************************)
EXTENDS ControlPlane

CONSTANTS
    Requests,          \* the request ids
    Calls              \* the approvals; each mints the session of its own name

VARIABLES
    trusted,           \* the devices the account trusts
    revoking,          \* those revoked whose sessions have not been ended yet
    asking,            \* connect_request past its checks: [requester, target]
    observing,         \* connect_observe past its check: [device, request]
    request,           \* by id: unused, a ConnectRequest, or gone
    call,              \* by approval, where connect_approve stands
    sessions,          \* the session map
    inserted,          \* history: the sessions that were ever in it
    handed,            \* history: the credentials that were handed out
    lapsed             \* history: by approval, the devices untrusted since it began

vars == <<trusted, revoking, asking, observing, request, call, sessions, inserted, handed, lapsed>>

-----------------------------------------------------------------------------
Unused == [state |-> "unused"]

Gone == [state |-> "gone"]

Exists(q) == request[q].state \notin {"unused", "gone"}

(* request_scoped *)
NewRequest(r, t) ==
    [state |-> "pending", requester |-> r, target |-> t, session |-> None, published |-> FALSE]

(* Party: the caller is the device being asked, or the one that asked. *)
IsTarget(q, d) == Exists(q) /\ request[q].target = d

IsRequester(q, d) == Exists(q) /\ request[q].requester = d

(* Mutant: a credential is handed out before its session is in the map. *)
CollectableEarly(q) == request[q].state = "approved"

(* collect_host_credential and collect_client_credential, past the party. *)
Collectable(q) == request[q].state = "approved" /\ request[q].published

Credential(q, d, role) ==
    [device |-> d, role |-> role, session |-> request[q].session, request |-> q]

Idle == [at |-> "idle"]

Over == [at |-> "over"]

-----------------------------------------------------------------------------
(* connect_request: the trust of both ends, then the request. *)
CheckAsk(r, t) ==
    /\ {r, t} \subseteq trusted
    /\ asking' = asking \cup {[requester |-> r, target |-> t]}
    /\ UNCHANGED <<trusted, revoking, observing, request, call, sessions, inserted, handed, lapsed>>

Ask(q, a, fits) ==
    /\ a \in asking
    /\ request[q] = Unused
    /\ asking' = asking \ {a}
    /\ request' = IF fits /\ a.requester # a.target
                  THEN [request EXCEPT ![q] = NewRequest(a.requester, a.target)] ELSE request
    /\ UNCHANGED <<trusted, revoking, observing, call, sessions, inserted, handed, lapsed>>

(* connect_deny *)
Deny(q, d) ==
    /\ IsTarget(q, d)
    /\ request[q].state = "pending"
    /\ request' = [request EXCEPT ![q].state = "denied"]
    /\ UNCHANGED <<trusted, revoking, asking, observing, call, sessions, inserted, handed, lapsed>>

(* connect_observe: the trust, then the state and the client's credential. *)
CheckObserve(q, d) ==
    /\ d \in trusted
    /\ Exists(q)
    /\ observing' = observing \cup {[device |-> d, request |-> q]}
    /\ UNCHANGED <<trusted, revoking, asking, request, call, sessions, inserted, handed, lapsed>>

Observe(o) ==
    /\ o \in observing
    /\ observing' = observing \ {o}
    /\ handed' = IF IsRequester(o.request, o.device) /\ Collectable(o.request)
                 THEN handed \cup {Credential(o.request, o.device, "client")} ELSE handed
    /\ UNCHANGED <<trusted, revoking, asking, request, call, sessions, inserted, lapsed>>

(* expire, at the head of any operation of the broker. *)
Expire(q) ==
    /\ Exists(q)
    /\ request' = [request EXCEPT ![q] = Gone]
    /\ UNCHANGED <<trusted, revoking, asking, observing, call, sessions, inserted, handed, lapsed>>

-----------------------------------------------------------------------------
(* connect_approve, one critical section after another. *)

Goto(c, at) == call' = [call EXCEPT ![c].at = at]

Finish(c) == call' = [call EXCEPT ![c] = Over]

(* The device named by its token answers request q. *)
Begin(c, d, q) ==
    /\ call[c] = Idle
    /\ request[q] # Unused
    /\ call' = [call EXCEPT ![c] = [at |-> "target", device |-> d, request |-> q,
                                    requester |-> None]]
    /\ lapsed' = [lapsed EXCEPT ![c] = Devices \ trusted]
    /\ UNCHANGED <<trusted, revoking, asking, observing, request, sessions, inserted, handed>>

(* require_trusted_device of the target. *)
CheckTarget(c) ==
    /\ call[c].at = "target"
    /\ IF call[c].device \in trusted THEN Goto(c, "lookup") ELSE Finish(c)
    /\ UNCHANGED <<trusted, revoking, asking, observing, request, sessions, inserted, handed, lapsed>>

(* requester_for_target *)
Lookup(c) ==
    /\ call[c].at = "lookup"
    /\ IF IsTarget(call[c].request, call[c].device)
       THEN call' = [call EXCEPT ![c].at = "requester",
                                 ![c].requester = request[call[c].request].requester]
       ELSE Goto(c, "approve")
    /\ UNCHANGED <<trusted, revoking, asking, observing, request, sessions, inserted, handed, lapsed>>

(* Mutant: the requester is not checked again. *)
CheckRequesterNot(c) ==
    /\ call[c].at = "requester"
    /\ Goto(c, "approve")
    /\ UNCHANGED <<trusted, revoking, asking, observing, request, sessions, inserted, handed, lapsed>>

(* require_trusted_device of the requester. *)
CheckRequester(c) ==
    /\ call[c].at = "requester"
    /\ Goto(c, IF call[c].requester \in trusted THEN "approve" ELSE "withdraw")
    /\ UNCHANGED <<trusted, revoking, asking, observing, request, sessions, inserted, handed, lapsed>>

(* Mutant: a repeated approval mints again. *)
ApproveAgain(c, allowed) ==
    LET q == call[c].request
        answers == IsTarget(q, call[c].device) /\ request[q].state # "denied"
    IN  /\ call[c].at = "approve"
        /\ request' = IF answers THEN [request EXCEPT ![q].state = "approved", ![q].session = c]
                      ELSE request
        /\ IF answers THEN Goto(c, IF allowed THEN "mint" ELSE "withdraw") ELSE Finish(c)
        /\ UNCHANGED <<trusted, revoking, asking, observing, sessions, inserted, handed, lapsed>>

(* approve_scoped, and the rate limit of a fresh approval.  One that stands  *)
(* already is a retry.                                                       *)
Approve(c, allowed) ==
    LET q == call[c].request
        fresh == IsTarget(q, call[c].device) /\ request[q].state = "pending"
        retry == IsTarget(q, call[c].device) /\ request[q].state = "approved"
    IN  /\ call[c].at = "approve"
        /\ request' = IF fresh THEN [request EXCEPT ![q].state = "approved", ![q].session = c]
                      ELSE request
        /\ CASE fresh -> Goto(c, IF allowed THEN "mint" ELSE "withdraw")
             [] retry -> Goto(c, "collect")
             [] OTHER -> Finish(c)
        /\ UNCHANGED <<trusted, revoking, asking, observing, sessions, inserted, handed, lapsed>>

(* minted_credentials *)
Mint(c) ==
    /\ call[c].at = "mint"
    /\ IF IsTarget(call[c].request, call[c].device)
       THEN call' = [call EXCEPT ![c].at = "insert",
                                 ![c].requester = request[call[c].request].requester]
       ELSE Finish(c)
    /\ UNCHANGED <<trusted, revoking, asking, observing, request, sessions, inserted, handed, lapsed>>

(* insert_session, which may find the map full. *)
InsertSession(c, fits) ==
    LET session == [id |-> c, request |-> call[c].request,
                    requester |-> call[c].requester, target |-> call[c].device]
    IN  /\ call[c].at = "insert"
        /\ Goto(c, IF fits THEN "mark" ELSE "withdraw")
        /\ sessions' = IF fits THEN sessions \cup {session} ELSE sessions
        /\ inserted' = IF fits THEN inserted \cup {session} ELSE inserted
        /\ UNCHANGED <<trusted, revoking, asking, observing, request, handed, lapsed>>

(* mark_published *)
MarkPublished(c) ==
    LET q == call[c].request
    IN  /\ call[c].at = "mark"
        /\ request' = IF Exists(q) THEN [request EXCEPT ![q].published = TRUE] ELSE request
        /\ Goto(c, "collect")
        /\ UNCHANGED <<trusted, revoking, asking, observing, sessions, inserted, handed, lapsed>>

(* collect_host_credential, and the answer: nothing when the session grant *)
(* cannot be issued.                                                       *)
CollectHost(c, granted) ==
    LET q == call[c].request
        d == call[c].device
    IN  /\ call[c].at = "collect"
        /\ handed' = IF IsTarget(q, d) /\ Collectable(q) /\ granted
                     THEN handed \cup {Credential(q, d, "host")} ELSE handed
        /\ Finish(c)
        /\ UNCHANGED <<trusted, revoking, asking, observing, request, sessions, inserted, lapsed>>

(* withdraw *)
Withdraw(c) ==
    /\ call[c].at = "withdraw"
    /\ request' = [request EXCEPT ![call[c].request] = Gone]
    /\ Finish(c)
    /\ UNCHANGED <<trusted, revoking, asking, observing, sessions, inserted, handed, lapsed>>

-----------------------------------------------------------------------------
(* set_account_device_trust, remove_account_device: the trust, then the      *)
(* sessions the device is an end of.                                         *)
Revoke(d) ==
    /\ d \in trusted
    /\ trusted' = trusted \ {d}
    /\ revoking' = revoking \cup {d}
    /\ UNCHANGED <<asking, observing, request, call, sessions, inserted, handed, lapsed>>

Ends(s) == {s.requester, s.target}

RevokeOwnedSessions(d) ==
    /\ d \in revoking
    /\ revoking' = revoking \ {d}
    /\ sessions' = {s \in sessions : d \notin Ends(s)}
    /\ UNCHANGED <<trusted, asking, observing, request, call, inserted, handed, lapsed>>

Trust(d) ==
    /\ d \notin trusted
    /\ trusted' = trusted \cup {d}
    /\ lapsed' = [c \in Calls |-> lapsed[c] \ {d}]
    /\ UNCHANGED <<revoking, asking, observing, request, call, sessions, inserted, handed>>

(* reap_expired_sessions, and the owner's delete. *)
EndSession(s) ==
    /\ s \in sessions
    /\ sessions' = sessions \ {s}
    /\ UNCHANGED <<trusted, revoking, asking, observing, request, call, inserted, handed, lapsed>>

-----------------------------------------------------------------------------
Init ==
    /\ trusted = Devices
    /\ revoking = {}
    /\ asking = {}
    /\ observing = {}
    /\ request = [q \in Requests |-> Unused]
    /\ call = [c \in Calls |-> Idle]
    /\ sessions = {}
    /\ inserted = {}
    /\ handed = {}
    /\ lapsed = [c \in Calls |-> {}]

Next ==
    \/ \E r, t \in Devices : CheckAsk(r, t)
    \/ \E q \in Requests, a \in asking, fits \in BOOLEAN : Ask(q, a, fits)
    \/ \E q \in Requests, d \in Devices : Deny(q, d) \/ CheckObserve(q, d)
    \/ \E o \in observing : Observe(o)
    \/ \E q \in Requests : Expire(q)
    \/ \E c \in Calls :
          \/ \E d \in Devices, q \in Requests : Begin(c, d, q)
          \/ CheckTarget(c) \/ Lookup(c) \/ CheckRequester(c)
          \/ \E allowed \in BOOLEAN : Approve(c, allowed)
          \/ \E fits \in BOOLEAN : InsertSession(c, fits)
          \/ \E granted \in BOOLEAN : CollectHost(c, granted)
          \/ Mint(c) \/ MarkPublished(c) \/ Withdraw(c)
    \/ \E d \in Devices : Revoke(d) \/ RevokeOwnedSessions(d) \/ Trust(d)
    \/ \E s \in sessions : EndSession(s)

Spec == Init /\ [][Next]_vars

-----------------------------------------------------------------------------
(* A credential that leaves the broker names a session that was put in the   *)
(* map, and went to that session's own end of that role, whatever approval   *)
(* was repeated, withdrawn or overtaken while the session was being          *)
(* published (mark_published, collect_host_credential,                       *)
(* collect_client_credential).                                               *)
CredentialNamesSession ==
    \A h \in handed : \E s \in inserted :
        /\ s.id = h.session /\ s.request = h.request
        /\ h.device = IF h.role = "host" THEN s.target ELSE s.requester

(* However often an approval is repeated, at once or later, a request makes  *)
(* one session and both of its ends are handed that one (approve_scoped).    *)
OneSessionPerRequest ==
    /\ \A s, z \in inserted : s.request = z.request => s = z
    /\ \A h, k \in handed : h.request = k.request => h.session = k.session

(* "Both ends are re-checked here, not only when the request was made": a    *)
(* device that was untrusted from the beginning of an approval to its end is *)
(* no end of the session that approval publishes (connect_approve).          *)
BothEndsRechecked ==
    [][\A s \in inserted' \ inserted : Ends(s) \cap lapsed[s.id] = {}]_vars

(* "Revoking a compromised device must end its sessions now": once the       *)
(* revocation of a device is through, no live session has it as an end       *)
(* (revoke_owned_sessions).                                                  *)
RevocationEndsSessions ==
    \A s \in sessions : Ends(s) \subseteq trusted \cup revoking

=============================================================================
