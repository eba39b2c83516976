------------------------- MODULE ControlPlaneProofs --------------------------
(***************************************************************************)
(* Proofs about the control plane: about ConnectBroker, for every set of   *)
(* devices, requests and approvals, and about AccountStore, for every set  *)
(* of devices and sign-ins and every limit.                                *)
(*                                                                         *)
(* The argument about the broker follows an approval: the one that found   *)
(* its request pending owns it, and no other ever mints for it, even after *)
(* the request has expired or was withdrawn.  The argument about the store *)
(* is that the record in memory and the one on disk each satisfy the same  *)
(* conditions, so that it does not matter which of the two is read next.   *)
(***************************************************************************)
EXTENDS ConnectBroker, AccountRecord, FiniteSetTheorems, TLAPS

\* The account store's own parameters; the rest it shares with AccountRecord.
CONSTANTS MaxTokens, MaxUpsets

VARIABLES client, upsets

Store == INSTANCE AccountStore

-----------------------------------------------------------------------------
(* The broker. *)
ConnectRequest ==
  [state : {"pending", "approved", "denied"}, requester : Devices, target : Devices,
   session : Calls \cup {None}, published : BOOLEAN]

Approval ==
  [at : {"target", "lookup", "requester", "approve", "mint", "insert", "mark", "collect", "withdraw"},
   device : Devices, request : Requests, requester : Devices \cup {None}]

\* The types of the broker's requests, of the approvals and of what they made.
Types ==
  /\ trusted \subseteq Devices
  /\ asking \subseteq [requester : Devices, target : Devices]
  /\ observing \subseteq [device : Devices, request : Requests]
  /\ request \in [Requests -> {Unused, Gone} \cup ConnectRequest]
  /\ call \in [Calls -> {Idle, Over} \cup Approval]
  /\ inserted \subseteq [id : Calls, request : Requests, requester : Devices, target : Devices]
  /\ handed \subseteq [device : Devices, role : {"host", "client"},
                       session : Calls \cup {None}, request : Requests]
  /\ lapsed \in [Calls -> SUBSET Devices]

\* Approval c owns request q, which may be gone by now.
Owns(c, q) ==
  \/ request[q].state = "gone"
  \/ request[q].state = "approved" /\ request[q].session = c

\* An approval that minted owns its request, and the request was known to
\* every approval under way.
MintersOwn ==
  /\ \A c \in Calls : call[c].at \in {"mint", "insert", "mark"} => Owns(c, call[c].request)
  /\ \A c \in Calls : call[c].at \notin {"idle", "over"} =>
        request[call[c].request].state # "unused"

\* No two approvals are about to insert a session of the same request, and
\* none is once there is one.
OneMinter ==
  /\ \A c, d \in Calls :
        /\ call[c].at \in {"mint", "insert"} /\ call[d].at \in {"mint", "insert"}
        /\ call[c].request = call[d].request
        => c = d
  /\ \A s \in inserted, c \in Calls :
        call[c].at \in {"mint", "insert"} => call[c].request # s.request

\* The approval that made a session owns the request, and the request has no other.
InsertedOwn ==
  /\ \A s \in inserted : Owns(s.id, s.request)
  /\ \A s, z \in inserted : s.request = z.request => s = z

\* What an approval knows of its request is true while the request is there.
Informed ==
  /\ \A c \in Calls :
        /\ call[c].at \in {"requester", "approve", "mint", "insert", "mark"}
        /\ IsTarget(call[c].request, call[c].device)
        => call[c].requester = request[call[c].request].requester
  /\ \A c \in Calls :
        call[c].at \in {"insert", "mark"} /\ Exists(call[c].request) =>
           IsTarget(call[c].request, call[c].device)
  /\ \A c \in Calls : call[c].at = "insert" => call[c].requester \in Devices

\* The session a request publishes is in the history of the map.
MadeBy(c, q, r, t) ==
  \E s \in inserted : s.id = c /\ s.request = q /\ s.requester = r /\ s.target = t

PublishedIsInserted ==
  /\ \A c \in Calls : call[c].at = "mark" =>
        MadeBy(c, call[c].request, call[c].requester, call[c].device)
  /\ \A q \in Requests : Exists(q) /\ request[q].published =>
        MadeBy(request[q].session, q, request[q].requester, request[q].target)

BrokerInv ==
  /\ Types
  /\ MintersOwn
  /\ OneMinter
  /\ InsertedOwn
  /\ Informed
  /\ PublishedIsInserted
  /\ CredentialNamesSession

-----------------------------------------------------------------------------

\* Nothing has been asked or approved in the beginning.
LEMMA InitBrokerInv == Init => BrokerInv
BY DEF Init, BrokerInv, Types, MintersOwn, OneMinter, InsertedOwn, Informed,
       PublishedIsInserted, CredentialNamesSession, Idle, Unused, Exists

\* A step that moves no approval, no request and makes no session.
LEMMA QuietKeeps ==
  ASSUME BrokerInv, UNCHANGED <<request, call, inserted, handed>>, Types'
  PROVE  BrokerInv'
BY DEF BrokerInv, MintersOwn, OneMinter, InsertedOwn, Informed, PublishedIsInserted,
       CredentialNamesSession, Owns, IsTarget, Exists, MadeBy

\* Trust decisions, checks and the end of a session are quiet.
LEMMA QuietSteps ==
  ASSUME BrokerInv,
         \/ \E r, t \in Devices : CheckAsk(r, t)
         \/ \E q \in Requests, d \in Devices : CheckObserve(q, d)
         \/ \E d \in Devices : Revoke(d) \/ RevokeOwnedSessions(d) \/ Trust(d)
         \/ \E s \in sessions : EndSession(s)
  PROVE  BrokerInv'
<1>1. UNCHANGED <<request, call, inserted, handed>>
  BY DEF CheckAsk, CheckObserve, Revoke, RevokeOwnedSessions, Trust, EndSession
<1>2. Types'
  <2>1. CASE \E r, t \in Devices : CheckAsk(r, t)
    BY <2>1 DEF CheckAsk, BrokerInv, Types
  <2>2. CASE \E q \in Requests, d \in Devices : CheckObserve(q, d)
    BY <2>2 DEF CheckObserve, BrokerInv, Types
  <2>3. CASE \E d \in Devices : Revoke(d) \/ RevokeOwnedSessions(d)
    BY <2>3 DEF Revoke, RevokeOwnedSessions, BrokerInv, Types
  <2>4. CASE \E d \in Devices : Trust(d)
    BY <2>4 DEF Trust, BrokerInv, Types
  <2>5. CASE \E s \in sessions : EndSession(s)
    BY <2>5 DEF EndSession, BrokerInv, Types
  <2>6. QED
    BY <2>1, <2>2, <2>3, <2>4, <2>5
<1>3. QED
  BY <1>1, <1>2, QuietKeeps

\* The states of an entry that is unused or gone.
LEMMA Placeholders == Unused.state = "unused" /\ Gone.state = "gone" /\ Idle.at = "idle" /\ Over.at = "over"
BY DEF Unused, Gone, Idle, Over

\* A new request belongs to no approval and has no session.
LEMMA AskKeeps ==
  ASSUME BrokerInv, NEW q \in Requests, NEW a \in asking, NEW fits \in BOOLEAN, Ask(q, a, fits)
  PROVE  BrokerInv'
<1>1. Types'
  BY DEF Ask, BrokerInv, Types, NewRequest, ConnectRequest
<1>2. CASE UNCHANGED request
  BY <1>1, <1>2, QuietKeeps DEF Ask
<1>3. CASE ~UNCHANGED request
  <2>1. /\ request[q].state = "unused"
        /\ request'[q].state = "pending" /\ ~request'[q].published
        /\ \A x \in Requests \ {q} : request'[x] = request[x]
        /\ UNCHANGED <<call, inserted, handed>>
    BY <1>3 DEF Ask, BrokerInv, Types, NewRequest, Unused
  <2>2. \A c \in Calls : call[c].at \notin {"idle", "over"} => call[c].request \in Requests \ {q}
    BY <2>1, Placeholders DEF BrokerInv, Types, MintersOwn, Approval
  <2>3. \A s \in inserted : s.request \in Requests \ {q}
    BY <2>1 DEF BrokerInv, Types, InsertedOwn, Owns
  <2>4. MintersOwn'
    BY <2>1, <2>2 DEF BrokerInv, MintersOwn, Owns
  <2>5. OneMinter' /\ CredentialNamesSession'
    BY <2>1 DEF BrokerInv, OneMinter, CredentialNamesSession
  <2>6. InsertedOwn'
    BY <2>1, <2>3 DEF BrokerInv, InsertedOwn, Owns
  <2>7. Informed'
    BY <2>1, <2>2 DEF BrokerInv, Informed, IsTarget, Exists
  <2>8. PublishedIsInserted'
    BY <2>1 DEF BrokerInv, PublishedIsInserted, Exists, MadeBy
  <2>9. QED
    BY <1>1, <2>4, <2>5, <2>6, <2>7, <2>8 DEF BrokerInv
<1>4. QED
  BY <1>2, <1>3

\* A request that is denied was nobody's; one that is gone stays with its owner.
LEMMA LeaveKeeps ==
  ASSUME BrokerInv, NEW q \in Requests, UNCHANGED <<call, inserted, handed>>, Types',
         \A x \in Requests \ {q} : request'[x] = request[x],
         \/ request[q].state # "unused" /\ request'[q].state = "gone"
         \/ /\ request[q].state = "pending" /\ request'[q].state = "denied"
            /\ request'[q].requester = request[q].requester
            /\ request'[q].target = request[q].target
            /\ request'[q].session = request[q].session
            /\ request'[q].published = request[q].published
  PROVE  BrokerInv'
<1>1. MintersOwn'
  BY Placeholders DEF BrokerInv, Types, Approval, MintersOwn, Owns
<1>2. OneMinter' /\ CredentialNamesSession'
  BY DEF BrokerInv, OneMinter, CredentialNamesSession
<1>3. InsertedOwn'
  BY DEF BrokerInv, Types, InsertedOwn, Owns
<1>4. Informed'
  BY Placeholders DEF BrokerInv, Types, Approval, Informed, IsTarget, Exists
<1>5. PublishedIsInserted'
  BY DEF BrokerInv, PublishedIsInserted, Exists, MadeBy
<1>6. QED
  BY <1>1, <1>2, <1>3, <1>4, <1>5 DEF BrokerInv

\* Deny and Expire.
LEMMA DenyKeeps ==
  ASSUME BrokerInv, NEW q \in Requests, NEW d \in Devices, Deny(q, d) PROVE BrokerInv'
<1>1. request[q] \in ConnectRequest
  BY Placeholders DEF Deny, BrokerInv, Types
<1>2. Types'
  BY <1>1 DEF Deny, BrokerInv, Types, ConnectRequest
<1>3. /\ request[q].state = "pending" /\ request'[q] = [request[q] EXCEPT !.state = "denied"]
      /\ \A x \in Requests \ {q} : request'[x] = request[x]
      /\ UNCHANGED <<call, inserted, handed>>
  BY DEF Deny, BrokerInv, Types
<1>4. QED
  BY <1>1, <1>2, <1>3, LeaveKeeps DEF ConnectRequest

\* Expire forgets a request and leaves its session and its owner alone.
LEMMA ExpireKeeps ==
  ASSUME BrokerInv, NEW q \in Requests, Expire(q) PROVE BrokerInv'
<1>1. Types'
  BY DEF Expire, BrokerInv, Types
<1>2. /\ request[q].state # "unused" /\ request'[q].state = "gone"
      /\ \A x \in Requests \ {q} : request'[x] = request[x]
      /\ UNCHANGED <<call, inserted, handed>>
  BY Placeholders DEF Expire, Exists, BrokerInv, Types
<1>3. QED
  BY <1>1, <1>2, LeaveKeeps

\* A credential that is handed out names a session of the map.
LEMMA HandedKeeps ==
  ASSUME BrokerInv, UNCHANGED <<request, inserted>>, Types',
         MintersOwn', OneMinter', Informed', PublishedIsInserted',
         \A h \in handed' \ handed :
            \E q \in Requests, d \in Devices :
               /\ Collectable(q)
               /\ \/ h = Credential(q, d, "host") /\ IsTarget(q, d)
                  \/ h = Credential(q, d, "client") /\ IsRequester(q, d)
  PROVE  BrokerInv'
<1>1. ASSUME NEW h \in handed' \ handed
      PROVE  \E s \in inserted :
               /\ s.id = h.session /\ s.request = h.request
               /\ h.device = IF h.role = "host" THEN s.target ELSE s.requester
  <2>1. PICK q \in Requests, d \in Devices :
          /\ Collectable(q)
          /\ \/ h = Credential(q, d, "host") /\ IsTarget(q, d)
             \/ h = Credential(q, d, "client") /\ IsRequester(q, d)
    BY <1>1
  <2>2. MadeBy(request[q].session, q, request[q].requester, request[q].target)
    BY <2>1 DEF BrokerInv, PublishedIsInserted, Collectable, IsTarget, IsRequester
  <2>3. QED
    BY <2>1, <2>2 DEF MadeBy, Credential, IsTarget, IsRequester
<1>2. CredentialNamesSession'
  BY <1>1 DEF BrokerInv, CredentialNamesSession
<1>3. InsertedOwn'
  BY DEF BrokerInv, InsertedOwn, Owns
<1>4. QED
  BY <1>2, <1>3 DEF BrokerInv

\* connect_observe hands the client's credential to the requester.
LEMMA ObserveKeeps ==
  ASSUME BrokerInv, NEW o \in observing, Observe(o) PROVE BrokerInv'
<1>1. o.request \in Requests /\ o.device \in Devices
  BY DEF BrokerInv, Types
<1>2. /\ UNCHANGED <<request, call, inserted>>
      /\ \A h \in handed' \ handed :
           /\ h = Credential(o.request, o.device, "client")
           /\ Collectable(o.request) /\ IsRequester(o.request, o.device)
  BY DEF Observe
<1>3. handed' \subseteq handed \cup {Credential(o.request, o.device, "client")}
  BY DEF Observe
<1>4. IsRequester(o.request, o.device) =>
         Credential(o.request, o.device, "client") \in
            [device : Devices, role : {"host", "client"}, session : Calls \cup {None}, request : Requests]
  BY <1>1, Placeholders DEF Credential, IsRequester, Exists, BrokerInv, Types, ConnectRequest
<1>5. Types'
  BY <1>2, <1>3, <1>4 DEF Observe, BrokerInv, Types
<1>6. MintersOwn' /\ OneMinter' /\ Informed' /\ PublishedIsInserted'
  BY <1>2 DEF BrokerInv, MintersOwn, OneMinter, Informed, PublishedIsInserted, Owns, IsTarget,
              Exists, MadeBy
<1>7. QED
  BY <1>1, <1>2, <1>5, <1>6, HandedKeeps

-----------------------------------------------------------------------------
(* The steps of an approval *)

\* What an approval must be told before it moves to its next place.
Prepared(a) ==
  /\ a.at \notin {"idle", "over"} => request[a.request].state # "unused"
  /\ /\ a.at \in {"requester", "approve", "mint", "insert", "mark"}
     /\ IsTarget(a.request, a.device)
     => a.requester = request[a.request].requester
  /\ a.at \in {"insert", "mark"} /\ Exists(a.request) => IsTarget(a.request, a.device)
  /\ a.at = "insert" => a.requester \in Devices

\* An approval that moves by itself keeps what it owns and mints nothing.
LEMMA MoveKeeps ==
  ASSUME BrokerInv, NEW c \in Calls, UNCHANGED <<request, inserted>>, Types',
         \A d \in Calls \ {c} : call'[d] = call[d],
         Prepared(call'[c]), call'[c].at # "mark",
         call'[c].at \in {"mint", "insert"} =>
            call[c].at = "mint" /\ call'[c].request = call[c].request
  PROVE  MintersOwn' /\ OneMinter' /\ Informed' /\ PublishedIsInserted'
<1>1. MintersOwn'
  BY DEF BrokerInv, MintersOwn, Prepared, Owns
<1>2. OneMinter'
  BY DEF BrokerInv, OneMinter
<1>3. Informed'
  BY DEF BrokerInv, Informed, Prepared, IsTarget, Exists
<1>4. PublishedIsInserted'
  BY DEF BrokerInv, PublishedIsInserted, Exists, MadeBy
<1>5. QED
  BY <1>1, <1>2, <1>3, <1>4

\* An approval that moves on without owning a request, or ends.
LEMMA MoveOnly ==
  ASSUME BrokerInv, NEW c \in Calls, UNCHANGED <<request, inserted, handed>>, Types',
         \A d \in Calls \ {c} : call'[d] = call[d],
         Prepared(call'[c]), call'[c].at # "mark",
         call'[c].at \in {"mint", "insert"} =>
            call[c].at = "mint" /\ call'[c].request = call[c].request
  PROVE  BrokerInv'
BY MoveKeeps, HandedKeeps

\* An approval that has ended needs to know nothing.
LEMMA OverPrepared == Prepared(Over)
BY Placeholders DEF Prepared

\* connect_approve starts on a known request and owns nothing yet.
LEMMA BeginKeeps ==
  ASSUME BrokerInv, NEW c \in Calls, NEW d \in Devices, NEW q \in Requests, Begin(c, d, q)
  PROVE  BrokerInv'
<1>1. call'[c] = [at |-> "target", device |-> d, request |-> q, requester |-> None]
      /\ \A x \in Calls \ {c} : call'[x] = call[x]
  BY DEF Begin, BrokerInv, Types
<1>2. Types'
  BY DEF Begin, BrokerInv, Types, Approval
<1>3. request[q].state # "unused"
  BY Placeholders DEF Begin, BrokerInv, Types, ConnectRequest
<1>4. Prepared(call'[c])
  BY <1>1, <1>3 DEF Prepared
<1>5. QED
  BY <1>1, <1>2, <1>4, MoveOnly DEF Begin

\* An approval under way is a record of an approval.
LEMMA UnderWay ==
  ASSUME BrokerInv, NEW c \in Calls, call[c].at \notin {"idle", "over"}
  PROVE  /\ call[c] \in Approval
         /\ request[call[c].request].state # "unused"
BY Placeholders DEF BrokerInv, Types, MintersOwn

\* The target's device is looked up: the approval moves on or is refused.
LEMMA CheckTargetKeeps ==
  ASSUME BrokerInv, NEW c \in Calls, CheckTarget(c) PROVE BrokerInv'
<1>1. call[c] \in Approval /\ request[call[c].request].state # "unused"
  BY UnderWay DEF CheckTarget
<1>2. /\ call'[c] = Over \/ call'[c] = [call[c] EXCEPT !.at = "lookup"]
      /\ \A x \in Calls \ {c} : call'[x] = call[x]
  BY DEF CheckTarget, Goto, Finish, BrokerInv, Types
<1>3. Types'
  BY <1>1 DEF CheckTarget, Goto, Finish, BrokerInv, Types, Approval
<1>4. Prepared(call'[c]) /\ call'[c].at \in {"over", "lookup"}
  BY <1>1, <1>2, OverPrepared, Placeholders DEF Prepared, Approval
<1>5. QED
  BY <1>2, <1>3, <1>4, MoveOnly DEF CheckTarget

\* The broker tells who asked, and whether the approval may go on.
LEMMA LookupKeeps ==
  ASSUME BrokerInv, NEW c \in Calls, Lookup(c) PROVE BrokerInv'
<1> DEFINE q == call[c].request
<1>1. call[c] \in Approval /\ request[q].state # "unused"
  BY UnderWay DEF Lookup
<1>2. CASE IsTarget(q, call[c].device)
  <2>1. request[q] \in ConnectRequest
    BY <1>1, <1>2, Placeholders DEF IsTarget, Exists, BrokerInv, Types, Approval
  <2>2. /\ call'[c] = [call[c] EXCEPT !.at = "requester", !.requester = request[q].requester]
        /\ \A x \in Calls \ {c} : call'[x] = call[x]
    BY <1>1, <1>2 DEF Lookup, BrokerInv, Types, Approval
  <2>3. call'[c] \in Approval
    BY <1>1, <2>1, <2>2 DEF Approval, ConnectRequest
  <2>4. Types'
    BY <1>2, <2>3 DEF Lookup, BrokerInv, Types
  <2>5. Prepared(call'[c]) /\ call'[c].at = "requester"
    BY <1>1, <2>2 DEF Prepared, Approval
  <2>6. QED
    BY <2>2, <2>4, <2>5, MoveOnly DEF Lookup
<1>3. CASE ~IsTarget(q, call[c].device)
  <2>1. /\ call'[c] = [call[c] EXCEPT !.at = "approve"]
        /\ \A x \in Calls \ {c} : call'[x] = call[x]
    BY <1>3 DEF Lookup, Goto, BrokerInv, Types
  <2>2. Types'
    BY <1>1, <1>3 DEF Lookup, Goto, BrokerInv, Types, Approval
  <2>3. Prepared(call'[c]) /\ call'[c].at = "approve"
    BY <1>1, <1>3, <2>1 DEF Prepared, Approval
  <2>4. QED
    BY <2>1, <2>2, <2>3, MoveOnly DEF Lookup
<1>4. QED
  BY <1>2, <1>3

\* The requester's device is looked up: the approval moves on or is refused.
LEMMA CheckRequesterKeeps ==
  ASSUME BrokerInv, NEW c \in Calls, CheckRequester(c) PROVE BrokerInv'
<1>1. call[c] \in Approval /\ request[call[c].request].state # "unused"
  BY UnderWay DEF CheckRequester
<1>2. /\ \/ call'[c] = [call[c] EXCEPT !.at = "approve"]
         \/ call'[c] = [call[c] EXCEPT !.at = "withdraw"]
      /\ \A x \in Calls \ {c} : call'[x] = call[x]
  BY DEF CheckRequester, Goto, BrokerInv, Types
<1>3. Types'
  BY <1>1 DEF CheckRequester, Goto, BrokerInv, Types, Approval
<1>4. IsTarget(call[c].request, call[c].device) =>
         call[c].requester = request[call[c].request].requester
  BY DEF CheckRequester, BrokerInv, Informed
<1>5. Prepared(call'[c]) /\ call'[c].at \in {"approve", "withdraw"}
  BY <1>1, <1>2, <1>4 DEF Prepared, Approval
<1>6. QED
  BY <1>2, <1>3, <1>5, MoveOnly DEF CheckRequester

\* The owner of a request picks the id its session will have.
LEMMA MintKeeps ==
  ASSUME BrokerInv, NEW c \in Calls, Mint(c) PROVE BrokerInv'
<1> DEFINE q == call[c].request
<1>1. call[c] \in Approval /\ request[q].state # "unused"
  BY UnderWay DEF Mint
<1>2. CASE IsTarget(q, call[c].device)
  <2>1. request[q] \in ConnectRequest
    BY <1>1, <1>2, Placeholders DEF IsTarget, Exists, BrokerInv, Types, Approval
  <2>2. /\ call'[c] = [call[c] EXCEPT !.at = "insert", !.requester = request[q].requester]
        /\ \A x \in Calls \ {c} : call'[x] = call[x]
    BY <1>1, <1>2 DEF Mint, BrokerInv, Types, Approval
  <2>3. call'[c] \in Approval
    BY <1>1, <2>1, <2>2 DEF Approval, ConnectRequest
  <2>4. Types'
    BY <1>2, <2>3 DEF Mint, BrokerInv, Types
  <2>5. Prepared(call'[c]) /\ call'[c].at = "insert" /\ call'[c].request = q
    BY <1>1, <1>2, <2>1, <2>2 DEF Prepared, Approval, ConnectRequest
  <2>6. QED
    BY <2>2, <2>4, <2>5, MoveOnly DEF Mint
<1>3. CASE ~IsTarget(q, call[c].device)
  <2>1. call'[c] = Over /\ \A x \in Calls \ {c} : call'[x] = call[x]
    BY <1>3 DEF Mint, Finish, BrokerInv, Types
  <2>2. Types'
    BY <1>3 DEF Mint, Finish, BrokerInv, Types
  <2>3. QED
    BY <2>1, <2>2, OverPrepared, Placeholders, MoveOnly DEF Mint
<1>4. QED
  BY <1>2, <1>3

\* An approval that finds its request pending becomes its one owner; any
\* other only collects, or ends.
LEMMA ApproveKeeps ==
  ASSUME BrokerInv, NEW c \in Calls, NEW allowed \in BOOLEAN, Approve(c, allowed)
  PROVE  BrokerInv'
<1> DEFINE q == call[c].request
           d == call[c].device
           next == IF allowed THEN "mint" ELSE "withdraw"
<1>1. call[c] \in Approval /\ request[q].state # "unused" /\ q \in Requests
  BY UnderWay DEF Approve, Approval
<1>2. CASE IsTarget(q, d) /\ request[q].state = "pending"
  <2>1. request[q] \in ConnectRequest
    BY <1>1, <1>2, Placeholders DEF BrokerInv, Types
  <2>2. /\ call' = [call EXCEPT ![c].at = next]
        /\ request' = [request EXCEPT ![q].state = "approved", ![q].session = c]
        /\ UNCHANGED <<trusted, asking, observing, inserted, handed, lapsed>>
    BY <1>2 DEF Approve, Goto
  <2>3. /\ request'[q].state = "approved" /\ request'[q].session = c
        /\ request'[q].requester = request[q].requester /\ request'[q].target = request[q].target
        /\ request'[q].published = request[q].published
        /\ request'[q] \in ConnectRequest
        /\ \A x \in Requests \ {q} : request'[x] = request[x]
    BY <1>1, <2>1, <2>2 DEF BrokerInv, Types, ConnectRequest
  <2>4. /\ call'[c].at \in {"mint", "withdraw"}
        /\ call'[c].request = q /\ call'[c].device = d /\ call'[c].requester = call[c].requester
        /\ call'[c] \in Approval
        /\ \A x \in Calls \ {c} : call'[x] = call[x]
    BY <1>1, <2>2 DEF BrokerInv, Types, Approval
  <2>5. Types'
    BY <2>2, <2>3, <2>4 DEF BrokerInv, Types
  <2>6. \A x \in Calls : call[x].at \in {"mint", "insert", "mark"} => call[x].request # q
    BY <1>2 DEF BrokerInv, MintersOwn, Owns
  <2>7. \A s \in inserted : s.request # q
    BY <1>2 DEF BrokerInv, InsertedOwn, Owns
  <2>8. \A x \in Calls : call[x].at \notin {"idle", "over"} => call[x].request \in Requests
    BY UnderWay DEF Approval
  <2>9. MintersOwn'
    BY <2>3, <2>4, <2>6, <2>8 DEF BrokerInv, MintersOwn, Owns
  <2>10. OneMinter'
    BY <2>2, <2>4, <2>6, <2>7 DEF BrokerInv, OneMinter
  <2>11. InsertedOwn'
    BY <2>2, <2>3, <2>7 DEF BrokerInv, Types, InsertedOwn, Owns
  <2>12. Informed'
    <3>1. call[c].requester = request[q].requester
      BY <1>2 DEF Approve, BrokerInv, Informed
    <3>2. QED
      BY <1>2, <2>3, <2>4, <2>8, <3>1 DEF BrokerInv, Informed, IsTarget, Exists
  <2>13. PublishedIsInserted'
    <3>1. ~request[q].published
      BY <1>1, <1>2, <2>7 DEF BrokerInv, PublishedIsInserted, IsTarget, MadeBy
    <3>2. \A x \in Calls : call'[x].at = "mark" =>
             x # c /\ MadeBy(x, call[x].request, call[x].requester, call[x].device)
      BY <2>4 DEF BrokerInv, PublishedIsInserted
    <3>3. \A x \in Requests : Exists(x)' /\ request'[x].published =>
             x # q /\ MadeBy(request[x].session, x, request[x].requester, request[x].target)
      BY <2>3, <3>1 DEF BrokerInv, PublishedIsInserted, Exists
    <3>4. inserted' = inserted
      BY <2>2
    <3>5. QED
      BY <2>3, <2>4, <3>2, <3>3, <3>4 DEF PublishedIsInserted, MadeBy
  <2>14. CredentialNamesSession'
    BY <2>2 DEF BrokerInv, CredentialNamesSession
  <2>15. QED
    BY <2>5, <2>9, <2>10, <2>11, <2>12, <2>13, <2>14 DEF BrokerInv
<1>3. CASE ~(IsTarget(q, d) /\ request[q].state = "pending")
  <2>1. /\ UNCHANGED <<request, trusted, asking, observing, inserted, handed, lapsed>>
        /\ \/ call' = [call EXCEPT ![c].at = "collect"]
           \/ call' = [call EXCEPT ![c] = Over]
    BY <1>3 DEF Approve, Goto, Finish
  <2>2. /\ call'[c] = [call[c] EXCEPT !.at = "collect"] \/ call'[c] = Over
        /\ \A x \in Calls \ {c} : call'[x] = call[x]
    BY <2>1 DEF BrokerInv, Types
  <2>3. Types'
    BY <1>1, <2>1 DEF BrokerInv, Types, Approval
  <2>4. Prepared(call'[c]) /\ call'[c].at \in {"collect", "over"}
    BY <1>1, <2>2, OverPrepared, Placeholders DEF Prepared, Approval
  <2>5. QED
    BY <2>1, <2>2, <2>3, <2>4, MoveOnly
<1>4. QED
  BY <1>2, <1>3

\* The owner of a request puts its one session in the map.
LEMMA InsertKeeps ==
  ASSUME BrokerInv, NEW c \in Calls, NEW fits \in BOOLEAN, InsertSession(c, fits)
  PROVE  BrokerInv'
<1> DEFINE q == call[c].request
           new == [id |-> c, request |-> q, requester |-> call[c].requester,
                   target |-> call[c].device]
<1>1. call[c] \in Approval /\ request[q].state # "unused" /\ call[c].at = "insert"
  BY UnderWay DEF InsertSession
<1>2. /\ call'[c] = [call[c] EXCEPT !.at = IF fits THEN "mark" ELSE "withdraw"]
      /\ \A x \in Calls \ {c} : call'[x] = call[x]
      /\ UNCHANGED <<trusted, asking, observing, request, handed, lapsed>>
      /\ inserted' = IF fits THEN inserted \cup {new} ELSE inserted
  BY DEF InsertSession, Goto, BrokerInv, Types
<1>3. call' \in [Calls -> {Idle, Over} \cup Approval]
  BY <1>1 DEF InsertSession, Goto, BrokerInv, Types, Approval
<1>4. new \in [id : Calls, request : Requests, requester : Devices, target : Devices]
  BY <1>1 DEF BrokerInv, Informed, Approval
<1>5. Types'
  BY <1>2, <1>3, <1>4 DEF BrokerInv, Types
<1>6. CASE fits
  <2>1. /\ call'[c].at = "mark" /\ call'[c].request = q /\ call'[c].device = call[c].device
        /\ call'[c].requester = call[c].requester
    BY <1>1, <1>2, <1>6 DEF Approval
  <2>2. /\ inserted' = inserted \cup {new}
        /\ new.id = c /\ new.request = q
        /\ new.requester = call[c].requester /\ new.target = call[c].device
    BY <1>2, <1>6
  <2>3. /\ \A x \in Calls \ {c} : call'[x] = call[x]
        /\ request' = request /\ handed' = handed /\ call[c].at = "insert"
    BY <1>1, <1>2
  <2>4. Owns(c, q) /\ request[q].state # "unused" /\ \A s \in inserted : s.request # q
    BY <1>1 DEF BrokerInv, MintersOwn, OneMinter
  <2>5. /\ \A x \in Calls \ {c} : call[x].at \in {"mint", "insert"} => call[x].request # q
        /\ Exists(q) => IsTarget(q, call[c].device)
        /\ IsTarget(q, call[c].device) => call[c].requester = request[q].requester
    BY <2>3 DEF BrokerInv, OneMinter, Informed
  <2> HIDE DEF new, q
  <2>6. MintersOwn'
    BY <2>1, <2>3, <2>4 DEF BrokerInv, MintersOwn, Owns
  <2>7. OneMinter'
    BY <2>1, <2>2, <2>3, <2>5 DEF BrokerInv, OneMinter
  <2>8. InsertedOwn'
    BY <2>2, <2>3, <2>4 DEF BrokerInv, InsertedOwn, Owns
  <2>9. Informed'
    BY <2>1, <2>3, <2>5 DEF BrokerInv, Informed, IsTarget, Exists
  <2>10. PublishedIsInserted'
    BY <2>1, <2>2, <2>3 DEF BrokerInv, PublishedIsInserted, Exists, MadeBy
  <2>11. CredentialNamesSession'
    BY <2>2, <2>3 DEF BrokerInv, CredentialNamesSession
  <2>12. QED
    BY <1>5, <2>6, <2>7, <2>8, <2>9, <2>10, <2>11 DEF BrokerInv
<1>7. CASE ~fits
  <2>1. Prepared(call'[c]) /\ call'[c].at = "withdraw" /\ inserted' = inserted
    BY <1>1, <1>2, <1>7 DEF Prepared, Approval
  <2>2. QED
    BY <1>2, <1>5, <2>1, MoveOnly
<1>8. QED
  BY <1>6, <1>7

\* The request is published once its owner's session is in the map.
LEMMA MarkKeeps ==
  ASSUME BrokerInv, NEW c \in Calls, MarkPublished(c) PROVE BrokerInv'
<1> DEFINE q == call[c].request
<1>1. call[c] \in Approval /\ request[q].state # "unused" /\ q \in Requests /\ call[c].at = "mark"
  BY UnderWay DEF MarkPublished, Approval
<1>2. /\ call'[c] = [call[c] EXCEPT !.at = "collect"]
      /\ \A x \in Calls \ {c} : call'[x] = call[x]
      /\ UNCHANGED <<trusted, asking, observing, inserted, handed, lapsed>>
      /\ request' = IF Exists(q) THEN [request EXCEPT ![q].published = TRUE] ELSE request
  BY DEF MarkPublished, Goto, BrokerInv, Types
<1>3. call' \in [Calls -> {Idle, Over} \cup Approval]
  BY <1>1 DEF MarkPublished, Goto, BrokerInv, Types, Approval
<1>4. Prepared(call'[c]) /\ call'[c].at = "collect"
  BY <1>1, <1>2 DEF Prepared, Approval
<1>5. CASE ~Exists(q)
  <2>1. Types'
    BY <1>2, <1>3, <1>5 DEF BrokerInv, Types
  <2>2. QED
    BY <1>2, <1>4, <1>5, <2>1, MoveOnly
<1>6. CASE Exists(q)
  <2>1. request[q] \in ConnectRequest
    BY <1>1, <1>6, Placeholders DEF Exists, BrokerInv, Types
  <2>2. /\ request'[q] = [request[q] EXCEPT !.published = TRUE]
        /\ \A x \in Requests \ {q} : request'[x] = request[x]
    BY <1>1, <1>2, <1>6 DEF BrokerInv, Types
  <2>3. /\ request'[q].state = request[q].state /\ request'[q].session = request[q].session
        /\ request'[q].requester = request[q].requester /\ request'[q].target = request[q].target
        /\ request'[q] \in ConnectRequest
    BY <2>1, <2>2 DEF ConnectRequest
  <2>4. Types'
    BY <1>2, <1>3, <2>2, <2>3, <1>6 DEF BrokerInv, Types
  <2>5. \A x \in Calls : call[x].at \notin {"idle", "over"} => call[x].request \in Requests
    BY UnderWay DEF Approval
  <2>6. MintersOwn'
    BY <1>1, <1>2, <1>4, <2>2, <2>3, <2>5 DEF BrokerInv, MintersOwn, Owns, Approval
  <2>u. /\ \A x \in Calls \ {c} : call'[x] = call[x]
        /\ inserted' = inserted /\ handed' = handed /\ call'[c].at = "collect"
    BY <1>2, <1>4
  <2>7. OneMinter' /\ CredentialNamesSession'
    BY <2>u DEF BrokerInv, OneMinter, CredentialNamesSession
  <2>8. InsertedOwn'
    BY <1>2, <2>2, <2>3 DEF BrokerInv, Types, InsertedOwn, Owns
  <2>9. Informed'
    <3>1. \A x \in Calls : call'[x].at \notin {"idle", "over", "collect"} =>
             x # c /\ call'[x] = call[x] /\ call[x].request \in Requests
      BY <2>u, <2>5
    <3>2. \A x \in Requests : /\ request'[x].state = request[x].state
                              /\ request'[x].requester = request[x].requester
                              /\ request'[x].target = request[x].target
      BY <2>2, <2>3
    <3>3. QED
      BY <3>1, <3>2 DEF BrokerInv, Informed, IsTarget, Exists
  <2>10. PublishedIsInserted'
    <3>1. MadeBy(c, q, call[c].requester, call[c].device)
      BY <1>1 DEF BrokerInv, PublishedIsInserted
    <3>2. /\ request[q].session = c
          /\ call[c].requester = request[q].requester /\ call[c].device = request[q].target
      BY <1>1, <1>6 DEF BrokerInv, MintersOwn, Owns, Informed, IsTarget, Exists
    <3>3. MadeBy(request'[q].session, q, request'[q].requester, request'[q].target)
      BY <2>3, <3>1, <3>2
    <3>4. \A x \in Calls : call'[x].at = "mark" =>
             x # c /\ MadeBy(x, call[x].request, call[x].requester, call[x].device)
      BY <2>u DEF BrokerInv, PublishedIsInserted
    <3>5. \A x \in Requests \ {q} : Exists(x)' /\ request'[x].published =>
             MadeBy(request'[x].session, x, request'[x].requester, request'[x].target)
      BY <2>2 DEF BrokerInv, PublishedIsInserted, Exists
    <3>6. QED
      BY <2>u, <3>3, <3>4, <3>5 DEF PublishedIsInserted, MadeBy
  <2>11. QED
    BY <2>4, <2>6, <2>7, <2>8, <2>9, <2>10 DEF BrokerInv
<1>7. QED
  BY <1>5, <1>6

\* connect_approve answers with the host's credential.
LEMMA CollectKeeps ==
  ASSUME BrokerInv, NEW c \in Calls, NEW granted \in BOOLEAN, CollectHost(c, granted)
  PROVE  BrokerInv'
<1> DEFINE q == call[c].request
           d == call[c].device
           h == Credential(q, d, "host")
<1>1. q \in Requests /\ d \in Devices
  BY UnderWay DEF CollectHost, Approval
<1>2. /\ call'[c] = Over /\ \A x \in Calls \ {c} : call'[x] = call[x]
      /\ UNCHANGED <<trusted, asking, observing, request, inserted, lapsed>>
      /\ handed' = IF IsTarget(q, d) /\ Collectable(q) /\ granted THEN handed \cup {h} ELSE handed
  BY DEF CollectHost, Finish, BrokerInv, Types
<1>3. IsTarget(q, d) => h \in [device : Devices, role : {"host", "client"},
                               session : Calls \cup {None}, request : Requests]
  BY <1>1, Placeholders DEF Credential, IsTarget, Exists, BrokerInv, Types, ConnectRequest
<1>4. call' \in [Calls -> {Idle, Over} \cup Approval]
  BY DEF CollectHost, Finish, BrokerInv, Types
<1>5. Types'
  BY <1>2, <1>3, <1>4 DEF BrokerInv, Types
<1>6. MintersOwn' /\ OneMinter' /\ Informed' /\ PublishedIsInserted'
  BY <1>2, <1>5, OverPrepared, Placeholders, MoveKeeps
<1>7. \A x \in handed' \ handed : x = h /\ IsTarget(q, d) /\ Collectable(q)
  BY <1>2
<1>8. QED
  BY <1>1, <1>2, <1>5, <1>6, <1>7, HandedKeeps

\* An approval that is taken back leaves with its request.
LEMMA WithdrawKeeps ==
  ASSUME BrokerInv, NEW c \in Calls, Withdraw(c) PROVE BrokerInv'
<1> DEFINE q == call[c].request
<1>1. q \in Requests /\ request[q].state # "unused"
  BY UnderWay DEF Withdraw, Approval
<1>2. /\ call'[c] = Over /\ \A x \in Calls \ {c} : call'[x] = call[x]
      /\ UNCHANGED <<trusted, asking, observing, inserted, handed, lapsed>>
      /\ request'[q] = Gone /\ \A x \in Requests \ {q} : request'[x] = request[x]
  BY <1>1 DEF Withdraw, Finish, BrokerInv, Types
<1>3. Types'
  BY <1>1 DEF Withdraw, Finish, BrokerInv, Types
<1>4. \A x \in Calls : call[x].at \notin {"idle", "over"} => call[x].request \in Requests
  BY UnderWay DEF Approval
<1>5. MintersOwn'
  BY <1>2, <1>4, Placeholders DEF BrokerInv, MintersOwn, Owns
<1>6. OneMinter' /\ CredentialNamesSession'
  BY <1>2, Placeholders DEF BrokerInv, OneMinter, CredentialNamesSession
<1>7. InsertedOwn'
  BY <1>2, Placeholders DEF BrokerInv, Types, InsertedOwn, Owns
<1>8. Informed'
  BY <1>2, <1>4, Placeholders DEF BrokerInv, Informed, IsTarget, Exists
<1>9. PublishedIsInserted'
  BY <1>2, Placeholders DEF BrokerInv, PublishedIsInserted, Exists, MadeBy
<1>10. QED
  BY <1>3, <1>5, <1>6, <1>7, <1>8, <1>9 DEF BrokerInv

-----------------------------------------------------------------------------

\* Every critical section of every handler keeps the invariant.
LEMMA NextBrokerInv == BrokerInv /\ [Next]_vars => BrokerInv'
<1> SUFFICES ASSUME BrokerInv, [Next]_vars PROVE BrokerInv'
  OBVIOUS
<1>1. CASE UNCHANGED vars
  <2>1. Types'
    BY <1>1 DEF vars, BrokerInv, Types
  <2>2. QED
    BY <1>1, <2>1, QuietKeeps DEF vars
<1>2. ASSUME NEW c \in Calls,
             \/ \E d \in Devices, q \in Requests : Begin(c, d, q)
             \/ CheckTarget(c) \/ Lookup(c) \/ CheckRequester(c)
             \/ \E allowed \in BOOLEAN : Approve(c, allowed)
             \/ \E fits \in BOOLEAN : InsertSession(c, fits)
             \/ \E granted \in BOOLEAN : CollectHost(c, granted)
             \/ Mint(c) \/ MarkPublished(c) \/ Withdraw(c)
      PROVE  BrokerInv'
  BY <1>2, BeginKeeps, CheckTargetKeeps, LookupKeeps, CheckRequesterKeeps, ApproveKeeps,
     InsertKeeps, MintKeeps, MarkKeeps, CollectKeeps, WithdrawKeeps
<1>3. CASE Next
  BY <1>2, <1>3, QuietSteps, AskKeeps, DenyKeeps, ObserveKeeps, ExpireKeeps DEF Next
<1>4. QED
  BY <1>1, <1>3

\* The invariant of the broker and of the approvals under way.
THEOREM BrokerInvariance == Spec => []BrokerInv
BY InitBrokerInv, NextBrokerInv, PTL DEF Spec

\* A credential names a session that was put in the map, and its own end of it.
THEOREM CredentialNamesSessionHolds == Spec => []CredentialNamesSession
<1>1. BrokerInv => CredentialNamesSession
  BY DEF BrokerInv
<1>2. QED
  BY <1>1, BrokerInvariance, PTL

\* A request makes one session, however often it is approved, and both ends
\* are handed that one.
THEOREM OneSessionPerRequestHolds == Spec => []OneSessionPerRequest
<1>1. BrokerInv => OneSessionPerRequest
  BY DEF BrokerInv, InsertedOwn, CredentialNamesSession, OneSessionPerRequest
<1>2. QED
  BY <1>1, BrokerInvariance, PTL
-----------------------------------------------------------------------------

\* What the two trust checks of an approval leave behind: past a check, its
\* device has been trusted at some time since the approval began.
RecheckInv ==
  /\ \A c \in Calls : lapsed[c] \cap trusted = {}
  /\ \A c \in Calls : call[c].at \in {"target", "lookup"} => call[c].requester = None
  /\ \A c \in Calls : call[c].at \in {"lookup", "requester", "approve", "mint", "insert"} =>
        call[c].device \notin lapsed[c]
  /\ \A c \in Calls : call[c].at \in {"approve", "mint", "insert"} =>
        call[c].requester \notin lapsed[c]

\* Nobody has been untrusted in the beginning.
LEMMA InitRecheck == Init => RecheckInv
BY DEF Init, RecheckInv, Idle

\* Trust decisions only take devices out of lapsed, or out of trusted.
LEMMA TrustRecheck ==
  ASSUME BrokerInv, RecheckInv, UNCHANGED call, NEW d \in Devices,
         \/ UNCHANGED <<trusted, lapsed>>
         \/ trusted' = trusted \ {d} /\ UNCHANGED lapsed
         \/ trusted' = trusted \cup {d} /\ lapsed' = [c \in Calls |-> lapsed[c] \ {d}]
  PROVE  RecheckInv'
<1>1. \A c \in Calls : lapsed'[c] \subseteq lapsed[c] /\ lapsed'[c] \cap trusted' = {}
  BY DEF BrokerInv, Types, RecheckInv
<1>2. QED
  BY <1>1 DEF RecheckInv

\* An approval that moves, all others and the trust left alone.
LEMMA MoveRecheck ==
  ASSUME RecheckInv, NEW c \in Calls, UNCHANGED <<trusted, lapsed>>,
         \A x \in Calls \ {c} : call'[x] = call[x],
         call'[c].at \in {"target", "lookup"} => call'[c].requester = None,
         call'[c].at \in {"lookup", "requester", "approve", "mint", "insert"} =>
            call'[c].device \notin lapsed[c],
         call'[c].at \in {"approve", "mint", "insert"} => call'[c].requester \notin lapsed[c]
  PROVE  RecheckInv'
BY DEF RecheckInv

\* Begin records who is untrusted; the two checks let no such device pass.
LEMMA CheckRecheck ==
  ASSUME BrokerInv, RecheckInv, NEW c \in Calls,
         \/ \E d \in Devices, q \in Requests : Begin(c, d, q)
         \/ CheckTarget(c) \/ CheckRequester(c)
  PROVE  RecheckInv'
<1>1. ASSUME NEW d \in Devices, NEW q \in Requests, Begin(c, d, q) PROVE RecheckInv'
  <2>1. /\ call'[c] = [at |-> "target", device |-> d, request |-> q, requester |-> None]
        /\ \A x \in Calls \ {c} : call'[x] = call[x] /\ lapsed'[x] = lapsed[x]
        /\ lapsed'[c] = Devices \ trusted /\ trusted' = trusted
    BY <1>1 DEF Begin, BrokerInv, Types
  <2>2. \A x \in Calls : lapsed'[x] \cap trusted' = {}
    BY <2>1 DEF RecheckInv
  <2>3. QED
    BY <2>1, <2>2 DEF RecheckInv
<1>2. CASE CheckTarget(c)
  <2>1. call[c] \in Approval /\ call[c].requester = None
    BY <1>2, UnderWay DEF CheckTarget, RecheckInv
  <2>2. /\ \/ call'[c] = Over
           \/ call'[c] = [call[c] EXCEPT !.at = "lookup"] /\ call[c].device \in trusted
        /\ \A x \in Calls \ {c} : call'[x] = call[x]
        /\ UNCHANGED <<trusted, lapsed>>
    BY <1>2 DEF CheckTarget, Goto, Finish, BrokerInv, Types
  <2>3. call'[c].at \in {"over", "lookup"}
    BY <2>1, <2>2, Placeholders DEF Approval
  <2>4. call'[c].at = "lookup" => call'[c].requester = None /\ call'[c].device \notin lapsed[c]
    BY <2>1, <2>2, Placeholders DEF Approval, RecheckInv
  <2>5. QED
    BY <2>2, <2>3, <2>4, MoveRecheck
<1>3. CASE CheckRequester(c)
  <2>1. call[c] \in Approval /\ call[c].device \notin lapsed[c]
    BY <1>3, UnderWay DEF CheckRequester, RecheckInv
  <2>2. /\ \/ call'[c] = [call[c] EXCEPT !.at = "withdraw"]
           \/ call'[c] = [call[c] EXCEPT !.at = "approve"] /\ call[c].requester \in trusted
        /\ \A x \in Calls \ {c} : call'[x] = call[x]
        /\ UNCHANGED <<trusted, lapsed>>
    BY <1>3 DEF CheckRequester, Goto, BrokerInv, Types
  <2>3. call'[c].at \in {"withdraw", "approve"}
    BY <2>1, <2>2 DEF Approval
  <2>4. call'[c].at = "approve" =>
           call'[c].requester \notin lapsed[c] /\ call'[c].device \notin lapsed[c]
    BY <2>1, <2>2 DEF Approval, RecheckInv
  <2>5. QED
    BY <2>2, <2>3, <2>4, MoveRecheck
<1>4. QED
  BY <1>1, <1>2, <1>3

\* The rest of an approval changes neither of its devices: the requester it
\* looks up again to mint is the one that was checked.
LEMMA LaterRecheck ==
  ASSUME BrokerInv, RecheckInv, NEW c \in Calls,
         \/ Lookup(c) \/ Mint(c)
         \/ \E allowed \in BOOLEAN : Approve(c, allowed)
         \/ \E fits \in BOOLEAN : InsertSession(c, fits)
         \/ \E granted \in BOOLEAN : CollectHost(c, granted)
         \/ MarkPublished(c) \/ Withdraw(c)
  PROVE  RecheckInv'
<1> DEFINE q == call[c].request
<1>0. call[c] \in Approval
  BY UnderWay DEF Lookup, Mint, Approve, InsertSession, MarkPublished, CollectHost, Withdraw
<1>1. CASE Lookup(c)
  <2>1. /\ \/ call'[c] = [call[c] EXCEPT !.at = "approve"]
           \/ call'[c] = [call[c] EXCEPT !.at = "requester", !.requester = request[q].requester]
        /\ \A x \in Calls \ {c} : call'[x] = call[x]
        /\ UNCHANGED <<trusted, lapsed>>
    BY <1>0, <1>1 DEF Lookup, Goto, BrokerInv, Types, Approval
  <2>2. call[c].requester \notin lapsed[c] /\ call[c].device \notin lapsed[c]
    BY <1>1, DevicesAssumption DEF Lookup, RecheckInv, BrokerInv, Types
  <2>3. /\ call'[c].at \in {"approve", "requester"}
        /\ call'[c].device = call[c].device
        /\ call'[c].at = "approve" => call'[c].requester = call[c].requester
    BY <1>0, <2>1 DEF Approval
  <2>4. QED
    BY <2>1, <2>2, <2>3, MoveRecheck
<1>2. CASE Mint(c)
  <2>1. IsTarget(q, call[c].device) => call[c].requester = request[q].requester
    BY <1>2 DEF Mint, BrokerInv, Informed
  <2>2. /\ \/ call'[c] = Over
           \/ call'[c] = [call[c] EXCEPT !.at = "insert", !.requester = request[q].requester]
              /\ IsTarget(q, call[c].device)
        /\ \A x \in Calls \ {c} : call'[x] = call[x]
        /\ UNCHANGED <<trusted, lapsed>>
    BY <1>0, <1>2 DEF Mint, Finish, BrokerInv, Types, Approval
  <2>3. /\ call'[c].at \in {"over", "insert"}
        /\ call'[c].at = "insert" =>
              call'[c].device = call[c].device /\ call'[c].requester = call[c].requester
    BY <1>0, <2>1, <2>2, Placeholders DEF Approval
  <2>4. call[c].requester \notin lapsed[c] /\ call[c].device \notin lapsed[c]
    BY <1>2 DEF Mint, RecheckInv
  <2>5. QED
    BY <2>2, <2>3, <2>4, MoveRecheck
<1>3. ASSUME NEW allowed \in BOOLEAN, Approve(c, allowed) PROVE RecheckInv'
  <2>1. /\ \/ call'[c] = Over
           \/ \E at \in {"mint", "withdraw", "collect"} : call'[c] = [call[c] EXCEPT !.at = at]
        /\ \A x \in Calls \ {c} : call'[x] = call[x]
        /\ UNCHANGED <<trusted, lapsed>>
    BY <1>0, <1>3 DEF Approve, Goto, Finish, BrokerInv, Types, Approval
  <2>2. /\ call'[c].at \in {"over", "mint", "withdraw", "collect"}
        /\ call'[c].at = "mint" =>
              call'[c].device = call[c].device /\ call'[c].requester = call[c].requester
    BY <1>0, <2>1, Placeholders DEF Approval
  <2>3. call[c].requester \notin lapsed[c] /\ call[c].device \notin lapsed[c]
    BY <1>3 DEF Approve, RecheckInv
  <2>4. QED
    BY <2>1, <2>2, <2>3, MoveRecheck
<1>4. CASE \/ \E fits \in BOOLEAN : InsertSession(c, fits)
           \/ \E granted \in BOOLEAN : CollectHost(c, granted)
           \/ MarkPublished(c) \/ Withdraw(c)
  <2>1. /\ \/ call'[c] = Over
           \/ \E at \in {"mark", "withdraw", "collect"} : call'[c] = [call[c] EXCEPT !.at = at]
        /\ \A x \in Calls \ {c} : call'[x] = call[x]
        /\ UNCHANGED <<trusted, lapsed>>
    BY <1>0, <1>4 DEF InsertSession, MarkPublished, CollectHost, Withdraw, Goto, Finish,
                      BrokerInv, Types, Approval
  <2>2. call'[c].at \in {"over", "mark", "withdraw", "collect"}
    BY <1>0, <2>1, Placeholders DEF Approval
  <2>3. QED
    BY <2>1, <2>2, MoveRecheck
<1>5. QED
  BY <1>1, <1>2, <1>3, <1>4

\* Every step keeps what the checks left behind.
LEMMA NextRecheck == BrokerInv /\ RecheckInv /\ [Next]_vars => RecheckInv'
<1> SUFFICES ASSUME BrokerInv, RecheckInv, [Next]_vars PROVE RecheckInv'
  OBVIOUS
<1>1. CASE UNCHANGED <<trusted, lapsed, call>>
  BY <1>1 DEF RecheckInv
<1>2. ASSUME NEW d \in Devices, Revoke(d) \/ Trust(d) PROVE RecheckInv'
  BY <1>2, TrustRecheck DEF Revoke, Trust
<1>3. ASSUME NEW c \in Calls,
             \/ \E d \in Devices, q \in Requests : Begin(c, d, q)
             \/ CheckTarget(c) \/ Lookup(c) \/ CheckRequester(c)
             \/ \E allowed \in BOOLEAN : Approve(c, allowed)
             \/ \E fits \in BOOLEAN : InsertSession(c, fits)
             \/ \E granted \in BOOLEAN : CollectHost(c, granted)
             \/ Mint(c) \/ MarkPublished(c) \/ Withdraw(c)
      PROVE  RecheckInv'
  BY <1>3, CheckRecheck, LaterRecheck
<1>4. \/ UNCHANGED <<trusted, lapsed, call>>
      \/ \E d \in Devices : Revoke(d) \/ Trust(d)
      \/ \E c \in Calls :
            \/ \E d \in Devices, q \in Requests : Begin(c, d, q)
            \/ CheckTarget(c) \/ Lookup(c) \/ CheckRequester(c)
            \/ \E allowed \in BOOLEAN : Approve(c, allowed)
            \/ \E fits \in BOOLEAN : InsertSession(c, fits)
            \/ \E granted \in BOOLEAN : CollectHost(c, granted)
            \/ Mint(c) \/ MarkPublished(c) \/ Withdraw(c)
  <2>1. CASE UNCHANGED vars
    BY <2>1 DEF vars
  <2>2. CASE Next
    BY <2>2 DEF Next, CheckAsk, Ask, Deny, CheckObserve, Observe, Expire,
                RevokeOwnedSessions, EndSession
  <2>3. QED
    BY <2>1, <2>2
<1>5. QED
  BY <1>1, <1>2, <1>3, <1>4

\* Only insert_session makes a session, and both of its ends were checked
\* since the approval began.
THEOREM BothEndsRecheckedHolds == Spec => BothEndsRechecked
<1>1. Spec => []RecheckInv
  BY InitRecheck, NextRecheck, BrokerInvariance, PTL DEF Spec
<1>2. RecheckInv /\ [Next]_vars =>
         [\A s \in inserted' \ inserted : Ends(s) \cap lapsed[s.id] = {}]_vars
  <2> SUFFICES ASSUME RecheckInv, [Next]_vars,
                      NEW s \in inserted' \ inserted
               PROVE  Ends(s) \cap lapsed[s.id] = {}
    OBVIOUS
  <2>1. PICK c \in Calls, fits \in BOOLEAN : InsertSession(c, fits)
    BY DEF Next, vars, CheckAsk, Ask, Deny, CheckObserve, Observe, Expire, Begin, CheckTarget,
           Lookup, CheckRequester, Approve, Mint, MarkPublished, CollectHost, Withdraw,
           Revoke, RevokeOwnedSessions, Trust, EndSession
  <2>2. s = [id |-> c, request |-> call[c].request,
             requester |-> call[c].requester, target |-> call[c].device]
    BY <2>1 DEF InsertSession
  <2>3. Ends(s) = {call[c].requester, call[c].device} /\ s.id = c
    BY <2>2 DEF Ends
  <2>4. call[c].requester \notin lapsed[c] /\ call[c].device \notin lapsed[c]
    BY <2>1 DEF InsertSession, RecheckInv
  <2>5. QED
    BY <2>3, <2>4
<1>3. QED
  BY <1>1, <1>2, PTL DEF Spec, BothEndsRechecked

-----------------------------------------------------------------------------
(* The account store. *)
\* A tombstone, as a record of its own fields.
IsTombstone(r) ==
  r \in [token : {r.token}, family : {r.family}, key : {r.key}, successor : {r.successor}]

\* An account's record: the trust of its devices and two lists.
Account(a) ==
  /\ a \in [trust : [Devices -> {"absent", "pending", "trusted", "revoked"}],
            live : {a.live}, retired : {a.retired}]
  /\ a.live \in Seq(Store!Range(a.live))
  /\ a.retired \in Seq(Store!Range(a.retired))
  /\ \A r \in Store!Range(a.retired) : IsTombstone(r)

\* What holds of a record whose account saw the sign-ins begun, of which the
\* ones of dead were condemned, and the revocations of gone.
Sound(a, begun, dead, gone) ==
  /\ Account(a)
  /\ \A r \in Store!Range(a.live) :
        /\ r.family \in begun /\ r.family \notin dead
        /\ ~Store!Out(a, DeviceOf[r.family])
  /\ \A r, q \in Store!Range(a.live) : r.family = q.family => r = q
  /\ \A r \in Store!Range(a.retired) : r.family \in begun
  /\ \A d \in gone : Store!Out(a, d)

\* n has the trust of a and no other live tokens or tombstones.
Narrows(n, a) ==
  /\ Account(n)
  /\ n.trust = a.trust
  /\ Store!Range(n.live) \subseteq Store!Range(a.live)
  /\ Store!Range(n.retired) \subseteq Store!Range(a.retired)

\* Counting is the same in the account store.
LEMMA StoreCounts ==
  ASSUME NEW S PROVE Store!Cardinality(S) = Cardinality(S)
BY Zenon DEF Store!Cardinality, Cardinality

\* The rank of a kept entry: how many are kept up to it.
Rank(kept, i) == Cardinality({j \in kept : j <= i})

\* Ranks are positions up to the number kept, and two entries have two ranks.
LEMMA RankOf ==
  ASSUME NEW n \in Nat, NEW kept \in SUBSET (1 .. n)
  PROVE  /\ IsFiniteSet(kept) /\ Cardinality(kept) \in Nat
         /\ \A i \in kept : Rank(kept, i) \in 1 .. Cardinality(kept)
         /\ \A i, m \in kept : Rank(kept, i) = Rank(kept, m) => i = m
<1> DEFINE upTo(i) == {j \in kept : j <= i}
           N == Cardinality(kept)
<1>1. IsFiniteSet(kept) /\ N \in Nat
  <2>1. IsFiniteSet(1 .. n)
    BY FS_Interval
  <2>2. IsFiniteSet(kept)
    BY <2>1, FS_Subset
  <2> QED BY <2>2, FS_CardinalityType
<1>2. ASSUME NEW i \in kept
      PROVE  /\ IsFiniteSet(upTo(i)) /\ Cardinality(upTo(i)) \in 1 .. N
  <2>1. upTo(i) \in SUBSET kept /\ i \in upTo(i)
    OBVIOUS
  <2>2. IsFiniteSet(upTo(i)) /\ Cardinality(upTo(i)) <= N
    BY <1>1, <2>1, FS_Subset
  <2>3. Cardinality(upTo(i)) \in Nat /\ Cardinality(upTo(i)) # 0
    BY <2>1, <2>2, FS_CardinalityType, FS_EmptySet
  <2> HIDE DEF upTo, N
  <2> QED BY <1>1, <2>2, <2>3
<1>3. ASSUME NEW i \in kept, NEW m \in kept, i < m
      PROVE  Cardinality(upTo(i)) # Cardinality(upTo(m))
  <2>1. upTo(i) \in SUBSET upTo(m) /\ m \in upTo(m) /\ m \notin upTo(i)
    <3>1. i \in Int /\ m \in Int /\ \A j \in kept : j \in Int
      OBVIOUS
    <3>2. \A j \in kept : j <= i => j <= m
      BY <1>3, <3>1
    <3>3. m <= m /\ ~(m <= i)
      BY <1>3, <3>1
    <3> QED BY <3>2, <3>3
  <2> QED BY <1>2, <2>1, FS_Subset
<1>4. \A i, m \in kept : i < m \/ m < i \/ i = m
  OBVIOUS
<1> QED BY <1>1, <1>2, <1>3, <1>4, Zenon DEF Rank

\* Every position up to the number kept is the rank of a kept entry.
LEMMA RankExists ==
  ASSUME NEW n \in Nat, NEW kept \in SUBSET (1 .. n), NEW k \in 1 .. Cardinality(kept)
  PROVE  \E i \in kept : Rank(kept, i) = k
<1> DEFINE rank == [i \in kept |-> Rank(kept, i)]
           N == Cardinality(kept)
           T == 1 .. N
<1>1. IsFiniteSet(kept) /\ N \in Nat
  BY RankOf
<1>2. rank \in [kept -> T]
  BY RankOf
<1>3. \A i, m \in kept : rank[i] = rank[m] => i = m
  BY RankOf
<1>4. IsFiniteSet(T) /\ Cardinality(T) = N
  BY <1>1, FS_Interval
<1>5. rank \in Injection(kept, T)
  <2> HIDE DEF rank, T
  <2> QED BY <1>2, <1>3, Zenon DEF Injection, IsInjective
<1>6. rank \in Surjection(kept, T)
  <2> HIDE DEF rank, T
  <2> QED BY <1>1, <1>4, <1>5, FS_Injection
<1>7. \E i \in kept : rank[i] = k
  <2> HIDE DEF rank
  <2> QED BY <1>6 DEF Surjection
<1> QED BY <1>7

\* What is retained is a list of kept entries.
LEMMA RetainedWasKept ==
  ASSUME NEW s, s \in Seq(Store!Range(s)), NEW kept \in SUBSET DOMAIN s
  PROVE  /\ Store!Retain(s, kept) \in Seq(Store!Range(Store!Retain(s, kept)))
         /\ \A r \in Store!Range(Store!Retain(s, kept)) : \E i \in kept : r = s[i]
<1> DEFINE at(k) == CHOOSE i \in kept : Rank(kept, i) = k
           q == [k \in 1 .. Cardinality(kept) |-> s[at(k)]]
<1>1. Store!Retain(s, kept) = q
  BY Zenon DEF Store!Retain, Store!Cardinality, Cardinality, Rank
<1>2. PICK n \in Nat : DOMAIN s = 1 .. n
  BY Len(s) \in Nat /\ DOMAIN s = 1 .. Len(s)
<1>3. \A k \in 1 .. Cardinality(kept) : at(k) \in kept
  BY <1>2, RankExists
<1>4. Cardinality(kept) \in Nat
  <2>1. IsFiniteSet(1 .. n)
    BY FS_Interval
  <2>2. IsFiniteSet(kept)
    BY <1>2, <2>1, FS_Subset
  <2> QED BY <2>2, FS_CardinalityType
<1> HIDE DEF at
<1>5. \A r \in Store!Range(q) : \E i \in kept : r = s[i]
  BY <1>3 DEF Store!Range
<1>6. q \in Seq(Store!Range(q))
  <2>1. \A k \in 1 .. Cardinality(kept) : q[k] \in Store!Range(q)
    BY DEF Store!Range
  <2> QED BY <1>4, <2>1
<1> HIDE DEF q
<1> QED BY <1>1, <1>5, <1>6

\* Every kept entry is retained, and the last of the list stays the last.
LEMMA KeptIsRetained ==
  ASSUME NEW s, s \in Seq(Store!Range(s)), NEW kept \in SUBSET DOMAIN s
  PROVE  /\ \A i \in kept : s[i] \in Store!Range(Store!Retain(s, kept))
         /\ Len(s) \in kept =>
               LET q == Store!Retain(s, kept)
               IN  Len(q) \in Nat \ {0} /\ q[Len(q)] = s[Len(s)]
<1> DEFINE at(k) == CHOOSE i \in kept : Rank(kept, i) = k
           N == Cardinality(kept)
           q == [k \in 1 .. N |-> s[at(k)]]
<1>1. Store!Retain(s, kept) = q
  BY Zenon DEF Store!Retain, Store!Cardinality, Cardinality, Rank
<1>2. Len(s) \in Nat /\ DOMAIN s = 1 .. Len(s)
  OBVIOUS
<1>3. /\ IsFiniteSet(kept) /\ N \in Nat
      /\ \A i \in kept : Rank(kept, i) \in 1 .. N
      /\ \A i, m \in kept : Rank(kept, i) = Rank(kept, m) => i = m
  BY <1>2, RankOf
<1>4. \A i \in kept : at(Rank(kept, i)) = i
  BY <1>3
<1> HIDE DEF at, N
<1>5. \A i \in kept : q[Rank(kept, i)] = s[i]
  BY <1>3, <1>4
<1>6. DOMAIN q = 1 .. N /\ Len(q) = N
  BY <1>3
<1>7. ASSUME Len(s) \in kept PROVE Len(q) \in Nat \ {0} /\ q[Len(q)] = s[Len(s)]
  <2>1. {j \in kept : j <= Len(s)} = kept
    BY <1>2
  <2>2. Rank(kept, Len(s)) = N
    BY <2>1 DEF Rank, N
  <2>3. N \in 1 .. N /\ q[N] = s[Len(s)]
    BY <1>3, <1>5, <1>7, <2>2
  <2> QED BY <1>3, <1>6, <2>3
<1> HIDE DEF q
<1>8. \A i \in kept : s[i] \in Store!Range(q)
  BY <1>3, <1>5, <1>6 DEF Store!Range
<1> QED BY <1>1, <1>7, <1>8

\* Appending adds one entry.
LEMMA AppendedEntries ==
  ASSUME NEW s, s \in Seq(Store!Range(s)), NEW x
  PROVE  /\ Append(s, x) \in Seq(Store!Range(Append(s, x)))
         /\ Store!Range(Append(s, x)) = Store!Range(s) \cup {x}
<1> DEFINE q == Append(s, x)
           n == Len(s)
<1>1. n \in Nat /\ DOMAIN s = 1 .. n
  OBVIOUS
<1>2. s \in Seq(Store!Range(s) \cup {x})
  OBVIOUS
<1>3. q \in Seq(Store!Range(s) \cup {x}) /\ Len(q) = n + 1 /\ q[n + 1] = x
  BY <1>1, <1>2
<1>4. \A i \in 1 .. n : q[i] = s[i]
  BY <1>1, <1>2
<1> HIDE DEF q, n
<1>5. DOMAIN q = 1 .. n + 1
  BY <1>3
<1>6. \A i \in DOMAIN q : i \in 1 .. n \/ i = n + 1
  BY <1>1, <1>5
<1>7. \A i \in 1 .. n : i \in DOMAIN q
  BY <1>1, <1>5
<1>8. n + 1 \in DOMAIN q
  BY <1>1, <1>5
<1>9. Store!Range(q) = Store!Range(s) \cup {x}
  BY <1>1, <1>3, <1>4, <1>6, <1>7, <1>8 DEF Store!Range
<1> QED BY <1>3, <1>9 DEF q

\* q is a list of entries of s.
ListOf(q, s) == q \in Seq(Store!Range(q)) /\ Store!Range(q) \subseteq Store!Range(s)

\* Retaining positions of a list makes a list of its entries.
LEMMA RetainListOf ==
  ASSUME NEW s, s \in Seq(Store!Range(s)), NEW kept \in SUBSET DOMAIN s
  PROVE  ListOf(Store!Retain(s, kept), s)
<1>1. \A i \in kept : s[i] \in Store!Range(s)
  BY DEF Store!Range
<1> QED BY <1>1, RetainedWasKept DEF ListOf

\* The newest entries.
LEMMA CappedListOf ==
  ASSUME NEW s, s \in Seq(Store!Range(s)), NEW n
  PROVE  ListOf(Store!Capped(s, n), s)
BY RetainListOf DEF Store!Capped

\* The tokens that have not expired.
LEMMA UnexpiredListOf ==
  ASSUME NEW s, s \in Seq(Store!Range(s))
  PROVE  ListOf(Store!Unexpired(s), s)
BY RetainListOf DEF Store!Unexpired

\* The tokens of other sign-ins.
LEMMA WithoutListOf ==
  ASSUME NEW s, s \in Seq(Store!Range(s)), NEW f
  PROVE  /\ ListOf(Store!Without(s, f), s)
         /\ \A r \in Store!Range(Store!Without(s, f)) : r.family # f
BY RetainListOf, RetainedWasKept DEF Store!Without

\* The other tokens.
LEMMA WithoutTokenListOf ==
  ASSUME NEW s, s \in Seq(Store!Range(s)), NEW t
  PROVE  /\ ListOf(Store!WithoutToken(s, t), s)
         /\ \A r \in Store!Range(Store!WithoutToken(s, t)) : r.token # t
BY RetainListOf, RetainedWasKept DEF Store!WithoutToken

\* The tokens of other devices.
LEMMA WithoutTokensOfListOf ==
  ASSUME NEW s, s \in Seq(Store!Range(s)), NEW d
  PROVE  /\ ListOf(Store!WithoutTokensOf(s, d), s)
         /\ \A r \in Store!Range(Store!WithoutTokensOf(s, d)) : DeviceOf[r.family] # d
BY RetainListOf, RetainedWasKept DEF Store!WithoutTokensOf

\* Both lists of a record replaced.
LEMMA AccountRecord ==
  ASSUME NEW a, Account(a), NEW l, NEW q
  PROVE  [a EXCEPT !.live = l, !.retired = q] = [trust |-> a.trust, live |-> l, retired |-> q]
<1>1. PICK n : n = [a EXCEPT !.live = l, !.retired = q]
  OBVIOUS
<1>2. n = [trust |-> a.trust, live |-> l, retired |-> q]
  BY <1>1 DEF Account
<1> QED BY <1>1, <1>2

\* A record made of the trust of a and of other lists.
LEMMA AccountOf ==
  ASSUME NEW a, Account(a), NEW l, NEW q,
         l \in Seq(Store!Range(l)), q \in Seq(Store!Range(q)),
         \A r \in Store!Range(q) : IsTombstone(r)
  PROVE  Account([trust |-> a.trust, live |-> l, retired |-> q])
BY DEF Account

\* revoke_refresh_family
LEMMA CondemnedNarrows ==
  ASSUME NEW a, Account(a), NEW f
  PROVE  /\ Narrows(Store!Condemned(a, f), a)
         /\ \A r \in Store!Range(Store!Condemned(a, f).live) : r.family # f
<1> DEFINE l == Store!Without(a.live, f)
           q == Store!Without(a.retired, f)
<1>1. ListOf(l, a.live) /\ ListOf(q, a.retired) /\ \A r \in Store!Range(l) : r.family # f
  BY WithoutListOf DEF Account
<1>2. Store!Condemned(a, f) = [trust |-> a.trust, live |-> l, retired |-> q]
  <2>1. Store!Condemned(a, f) = [a EXCEPT !.live = l, !.retired = q]
    BY Zenon DEF Store!Condemned
  <2> HIDE DEF l, q
  <2> QED BY <2>1, AccountRecord
<1> HIDE DEF l, q
<1>3. Account([trust |-> a.trust, live |-> l, retired |-> q])
  BY <1>1, AccountOf DEF ListOf, Account
<1> QED BY <1>1, <1>2, <1>3 DEF Narrows, ListOf

\* invalidate_device_tokens
LEMMA InvalidatedNarrows ==
  ASSUME NEW a, Account(a), NEW d
  PROVE  /\ Narrows(Store!Invalidated(a, d), a)
         /\ \A r \in Store!Range(Store!Invalidated(a, d).live) : DeviceOf[r.family] # d
<1> DEFINE l == Store!WithoutTokensOf(a.live, d)
<1>1. ListOf(l, a.live) /\ \A r \in Store!Range(l) : DeviceOf[r.family] # d
  BY WithoutTokensOfListOf DEF Account
<1>2. Store!Invalidated(a, d) = [trust |-> a.trust, live |-> l, retired |-> a.retired]
  BY DEF Account, Store!Invalidated
<1> HIDE DEF l
<1>3. Account([trust |-> a.trust, live |-> l, retired |-> a.retired])
  BY <1>1, AccountOf DEF ListOf, Account
<1> QED BY <1>1, <1>2, <1>3 DEF Narrows, ListOf

\* prune_retired_refresh_tokens
LEMMA RetiredPrunedNarrows ==
  ASSUME NEW a, Account(a)
  PROVE  Narrows(Store!RetiredPruned(a), a)
<1> DEFINE u == Store!Unexpired(a.retired)
           q == Store!Capped(u, MaxRetired)
<1>1. ListOf(u, a.retired)
  BY UnexpiredListOf DEF Account
<1>2. ListOf(q, u)
  <2> HIDE DEF u
  <2> QED BY <1>1, CappedListOf DEF ListOf
<1>3. Store!RetiredPruned(a) = [trust |-> a.trust, live |-> a.live, retired |-> q]
  BY DEF Account, Store!RetiredPruned
<1> HIDE DEF u, q
<1>4. Account([trust |-> a.trust, live |-> a.live, retired |-> q])
  BY <1>1, <1>2, AccountOf DEF ListOf, Account
<1> QED BY <1>1, <1>2, <1>3, <1>4 DEF Narrows, ListOf

\* prune_refresh_tokens
LEMMA LivePrunedNarrows ==
  ASSUME NEW a, Account(a)
  PROVE  Narrows(Store!LivePruned(a), a)
<1> DEFINE u == Store!Unexpired(a.live)
           l == Store!Capped(u, MaxLive)
<1>1. ListOf(u, a.live)
  BY UnexpiredListOf DEF Account
<1>2. ListOf(l, u)
  <2> HIDE DEF u
  <2> QED BY <1>1, CappedListOf DEF ListOf
<1>3. Store!LivePruned(a) = [trust |-> a.trust, live |-> l, retired |-> a.retired]
  BY DEF Account, Store!LivePruned
<1> HIDE DEF u, l
<1>4. Account([trust |-> a.trust, live |-> l, retired |-> a.retired])
  BY <1>1, <1>2, AccountOf DEF ListOf, Account
<1> QED BY <1>1, <1>2, <1>3, <1>4 DEF Narrows, ListOf

\* An expired token is dropped.
LEMMA DroppedNarrows ==
  ASSUME NEW a, Account(a), NEW t
  PROVE  Narrows([a EXCEPT !.live = Store!WithoutToken(@, t)], a)
<1> DEFINE l == Store!WithoutToken(a.live, t)
<1>1. ListOf(l, a.live)
  BY WithoutTokenListOf DEF Account
<1>2. [a EXCEPT !.live = Store!WithoutToken(@, t)]
        = [trust |-> a.trust, live |-> l, retired |-> a.retired]
  BY DEF Account
<1> HIDE DEF l
<1>3. Account([trust |-> a.trust, live |-> l, retired |-> a.retired])
  BY <1>1, AccountOf DEF ListOf, Account
<1> QED BY <1>1, <1>2, <1>3 DEF Narrows, ListOf

\* A record that narrows a sound one is sound.
LEMMA NarrowsSound ==
  ASSUME NEW a, NEW n, NEW begun, NEW dead, NEW gone,
         Sound(a, begun, dead, gone), Narrows(n, a)
  PROVE  Sound(n, begun, dead, gone)
<1>1. \A d : Store!Out(n, d) <=> Store!Out(a, d)
  BY DEF Narrows, Store!Out
<1> QED BY <1>1 DEF Sound, Narrows

\* More sign-ins and fewer revocations to account for.
LEMMA WeakerSound ==
  ASSUME NEW a, NEW begun, NEW dead, NEW gone, NEW b, NEW g,
         Sound(a, begun, dead, gone), begun \subseteq b, g \subseteq gone
  PROVE  Sound(a, b, dead, g)
BY DEF Sound

\* The entry a token is found by.
LEMMA FamilyFound ==
  ASSUME NEW s, NEW t, Store!Find(s, t) # {}
  PROVE  \E r \in Store!Range(s) : r.token = t /\ Store!FamilyOf(s, t) = r.family
BY DEF Store!Find, Store!FamilyOf

\* The token consumed leaves the live ones, and no other token of its sign-in is there.
LEMMA ConsumedSound ==
  ASSUME NEW a, NEW begun, NEW dead, NEW gone, NEW t, NEW key,
         Sound(a, begun, dead, gone), Store!IsLive(a, t)
  PROVE  /\ Sound(Store!Consumed(a, t, key), begun, dead, gone)
         /\ Store!Consumed(a, t, key).trust = a.trust
         /\ \A r \in Store!Range(Store!Consumed(a, t, key).live) :
               r.family # Store!FamilyOf(a.live, t)
<1> DEFINE f == Store!FamilyOf(a.live, t)
           x == [token |-> t, family |-> f, key |-> key, successor |-> None]
           l == Store!WithoutToken(a.live, t)
           q == Append(a.retired, x)
           n == [trust |-> a.trust, live |-> l, retired |-> q]
<1>1. PICK r \in Store!Range(a.live) : r.token = t /\ f = r.family
  BY FamilyFound DEF Store!IsLive
<1>2. /\ ListOf(l, a.live)
      /\ \A z \in Store!Range(l) : z.token # t
  BY WithoutTokenListOf DEF Sound, Account
<1>3. q \in Seq(Store!Range(q)) /\ Store!Range(q) = Store!Range(a.retired) \cup {x}
  BY AppendedEntries DEF Sound, Account
<1>4. IsTombstone(x) /\ x.family = f
  BY DEF IsTombstone
<1>5. Store!Consumed(a, t, key) = n
  <2>1. Store!Consumed(a, t, key) = [a EXCEPT !.live = l, !.retired = q]
    BY Zenon DEF Store!Consumed
  <2> HIDE DEF l, q
  <2> QED BY <2>1, AccountRecord DEF Sound
<1> HIDE DEF f, x, l, q
<1>6. Account(n)
  <2>1. \A z \in Store!Range(q) : IsTombstone(z)
    BY <1>3, <1>4 DEF Sound, Account
  <2> QED BY <1>2, <1>3, <2>1, AccountOf DEF ListOf, Sound
<1>7. n.trust = a.trust /\ n.live = l /\ n.retired = q
  OBVIOUS
<1> HIDE DEF n
<1>8. \A d : Store!Out(n, d) <=> Store!Out(a, d)
  BY <1>7 DEF Store!Out
<1>9. \A z \in Store!Range(l) : z.family # f
  BY <1>1, <1>2 DEF ListOf, Sound
<1>10. f \in begun
  BY <1>1 DEF Sound
<1>11. Sound(n, begun, dead, gone)
  BY <1>2, <1>3, <1>4, <1>6, <1>7, <1>8, <1>10 DEF ListOf, Sound
<1> QED BY <1>5, <1>7, <1>9, <1>11 DEF f

\* A token is issued to a sign-in that has none.
LEMMA IssuedSound ==
  ASSUME NEW a, NEW begun, NEW dead, NEW gone, NEW f, NEW relink,
         Sound(a, begun, dead, gone), f \in begun, f \notin dead,
         ~Store!Out(a, DeviceOf[f]),
         \A r \in Store!Range(a.live) : r.family # f
  PROVE  /\ Sound(Store!Issued(a, f, relink), begun, dead, gone)
         /\ Store!Issued(a, f, relink).trust = a.trust
<1> DEFINE x == [token |-> issued + 1, family |-> f]
           l == Append(a.live, x)
           q == [i \in DOMAIN a.retired |-> IF a.retired[i].token \in relink
                                            THEN [a.retired[i] EXCEPT !.successor = issued + 1]
                                            ELSE a.retired[i]]
           n == [trust |-> a.trust, live |-> l, retired |-> q]
<1>1. l \in Seq(Store!Range(l)) /\ Store!Range(l) = Store!Range(a.live) \cup {x}
  BY AppendedEntries DEF Sound, Account
<1>2. x.family = f
  OBVIOUS
<1>3. ASSUME NEW i \in DOMAIN a.retired
      PROVE  IsTombstone(q[i]) /\ q[i].family = a.retired[i].family
  <2> DEFINE z == a.retired[i]
  <2>1. IsTombstone(z)
    BY DEF Sound, Account, Store!Range
  <2>2. q[i] = z \/ q[i] = [z EXCEPT !.successor = issued + 1]
    OBVIOUS
  <2> HIDE DEF z, q
  <2>3. LET y == [z EXCEPT !.successor = issued + 1] IN IsTombstone(y) /\ y.family = z.family
    BY <2>1 DEF IsTombstone
  <2> QED BY <2>1, <2>2, <2>3 DEF z
<1>4. q \in Seq(Store!Range(q))
  <2>1. \A i \in DOMAIN q : q[i] \in Store!Range(q)
    BY DEF Store!Range
  <2>2. PICK m \in Nat : DOMAIN a.retired = 1 .. m
    BY Len(a.retired) \in Nat DEF Sound, Account
  <2>3. q \in [1 .. m -> Store!Range(q)]
    BY <2>1, <2>2
  <2> HIDE DEF q
  <2> QED BY <2>3
<1>5. Store!Issued(a, f, relink) = Store!LivePruned(n)
  <2>1. Store!Issued(a, f, relink) = Store!LivePruned([a EXCEPT !.live = l, !.retired = q])
    BY Zenon DEF Store!Issued
  <2> HIDE DEF l, q
  <2>2. [a EXCEPT !.live = l, !.retired = q] = n
    BY AccountRecord DEF Sound
  <2> QED BY <2>1, <2>2, Zenon
<1>6. \A z \in Store!Range(q) : IsTombstone(z) /\ \E y \in Store!Range(a.retired) : z.family = y.family
  BY <1>3 DEF Store!Range
<1> HIDE DEF x, l, q
<1>7. Account(n)
  BY <1>1, <1>4, <1>6, AccountOf DEF Sound
<1>8. n.trust = a.trust /\ n.live = l /\ n.retired = q
  OBVIOUS
<1> HIDE DEF n
<1>9. \A d : Store!Out(n, d) <=> Store!Out(a, d)
  BY <1>8 DEF Store!Out
<1>10. Sound(n, begun, dead, gone)
  BY <1>1, <1>2, <1>6, <1>7, <1>8, <1>9 DEF Sound
<1>11. Narrows(Store!LivePruned(n), n)
  BY <1>7, LivePrunedNarrows
<1>12. Sound(Store!LivePruned(n), begun, dead, gone)
  BY <1>10, <1>11, NarrowsSound
<1> QED BY <1>5, <1>8, <1>11, <1>12 DEF Narrows

\* The sign-ins that took place.
Begun == {f \in Families : client[f].began}

\* A client's state, by sign-in.
ClientState(c) ==
  /\ c \in [Families -> {c[f] : f \in Families}]
  /\ \A f \in Families : c[f] \in [began : BOOLEAN, token : {c[f].token}, key : {c[f].key}]

\* The access tokens, beside the record in memory.
AccessSound(tokens, a, dead) ==
  \A x \in tokens :
     /\ x \in [family : Families \cup {None}, device : Devices \cup {None}]
     /\ x.family \notin dead
     /\ ~Store!Out(a, x.device)

\* The inductive invariant: what is in memory and what a restart would read
\* back are both sound.
StoreInv ==
  /\ ClientState(client)
  /\ condemned \subseteq Begun
  /\ revoked \subseteq Devices
  /\ Sound(mem, Begun, condemned, revoked)
  /\ Sound(disk, Begun, condemned, revoked)
  /\ AccessSound(access, mem, condemned)

\* A device becomes one that may hold credentials.
LEMMA AdmittedSound ==
  ASSUME NEW a, NEW begun \in SUBSET Families, NEW dead,
         NEW gone \in SUBSET Devices, Sound(a, begun, dead, gone),
         NEW d \in Devices, NEW trust \in {"pending", "trusted"}
  PROVE  LET n == [a EXCEPT !.trust[d] = trust]
         IN  /\ Sound(n, begun, dead, gone \ {d})
             /\ \A e \in Devices \cup {None} : Store!Out(n, e) => Store!Out(a, e)
             /\ ~Store!Out(n, d)
<1> DEFINE n == [a EXCEPT !.trust[d] = trust]
<1>1. Account(n) /\ n.live = a.live /\ n.retired = a.retired
  BY DEF Sound, Account
<1>2. \A e \in Devices : n.trust[e] = IF e = d THEN trust ELSE a.trust[e]
  BY DEF Sound, Account
<1> HIDE DEF n
<1>3. /\ ~Store!Out(n, d)
      /\ \A e \in Devices \cup {None} : Store!Out(n, e) => Store!Out(a, e)
      /\ \A e \in Devices : e # d /\ Store!Out(a, e) => Store!Out(n, e)
  BY <1>2 DEF Store!Out
<1>4. \A f \in Families : DeviceOf[f] \in Devices \cup {None}
  BY RecordAssumption, DevicesAssumption
<1>5. Sound(n, begun, dead, gone \ {d})
  BY <1>1, <1>3, <1>4 DEF Sound
<1> QED BY <1>3, <1>5 DEF n

\* A device becomes one that may not, and its tokens are invalidated.
LEMMA ExpelledSound ==
  ASSUME NEW a, NEW begun \in SUBSET Families, NEW dead,
         NEW gone \in SUBSET Devices, Sound(a, begun, dead, gone),
         NEW d \in Devices, NEW trust \in {"revoked", "absent"}
  PROVE  LET n == Store!Invalidated([a EXCEPT !.trust[d] = trust], d)
         IN  /\ Sound(n, begun, dead, gone \cup {d})
             /\ \A e \in Devices \cup {None} : Store!Out(n, e) => e = d \/ Store!Out(a, e)
<1> DEFINE m == [a EXCEPT !.trust[d] = trust]
           n == Store!Invalidated(m, d)
<1>1. Account(m) /\ m.live = a.live /\ m.retired = a.retired
  BY DEF Sound, Account
<1>2. \A e \in Devices : m.trust[e] = IF e = d THEN trust ELSE a.trust[e]
  BY DEF Sound, Account
<1>3. d # None
  BY RecordAssumption, DevicesAssumption
<1> HIDE DEF m
<1>4. Narrows(n, m) /\ \A r \in Store!Range(n.live) : DeviceOf[r.family] # d
  BY <1>1, InvalidatedNarrows
<1> HIDE DEF n
<1>5. \A e : Store!Out(n, e) <=> Store!Out(m, e)
  BY <1>4 DEF Narrows, Store!Out
<1>6. /\ \A e \in Devices \cup {None} : Store!Out(m, e) => e = d \/ Store!Out(a, e)
      /\ \A e \in Devices : Store!Out(a, e) => Store!Out(m, e)
      /\ Store!Out(m, d)
  BY <1>2, <1>3 DEF Store!Out
<1>7. \A f \in Families : DeviceOf[f] \in Devices \cup {None}
  BY RecordAssumption, DevicesAssumption
<1>8. Sound(n, begun, dead, gone \cup {d})
  <2>1. \A r \in Store!Range(n.live) : r \in Store!Range(a.live) /\ ~Store!Out(n, DeviceOf[r.family])
    BY <1>1, <1>4, <1>5, <1>6, <1>7 DEF Sound, Narrows
  <2>2. \A e \in gone \cup {d} : Store!Out(n, e)
    BY <1>5, <1>6 DEF Sound
  <2>3. \A r \in Store!Range(n.retired) : r.family \in begun
    BY <1>1, <1>4 DEF Sound, Narrows
  <2>4. Account(n)
    BY <1>4 DEF Narrows
  <2> QED BY <2>1, <2>2, <2>3, <2>4 DEF Sound
<1> QED BY <1>5, <1>6, <1>8 DEF m, n

\* What is left of the access tokens when devices are admitted or expelled.
LEMMA AccessKept ==
  ASSUME NEW acc, NEW tokens, NEW a, NEW n, NEW dead, tokens \subseteq acc,
         AccessSound(acc, a, dead),
         \A x \in tokens : Store!Out(n, x.device) => Store!Out(a, x.device)
  PROVE  AccessSound(tokens, n, dead)
BY DEF AccessSound

\* The two saves of a request that issues a token.
LEMMA SaveTwiceSound ==
  ASSUME StoreInv,
         NEW first, NEW second, NEW f \in Families, NEW ends, NEW begun, NEW gone,
         Sound(disk, begun, condemned, gone),
         Sound(first, begun, condemned, gone), Sound(second, begun, condemned, gone),
         second.trust = first.trust, f \notin condemned, ~Store!Out(first, DeviceOf[f]),
         \A e \in Devices \cup {None} : Store!Out(first, e) => Store!Out(mem, e),
         Store!SaveTwice(first, second, f, ends)
  PROVE  /\ Sound(mem', begun, condemned, gone)
         /\ Sound(disk', begun, condemned, gone)
         /\ AccessSound(access', mem', condemned)
<1>1. mem' = first \/ mem' = second
  BY DEF Store!SaveTwice
<1>2. disk' = first \/ disk' = second \/ disk' = disk
  BY DEF Store!SaveTwice
<1>3. access' \subseteq access \cup {Store!AccessOf(f)}
  BY DEF Store!SaveTwice
<1>4. \A e : Store!Out(mem', e) <=> Store!Out(first, e)
  BY <1>1 DEF Store!Out
<1>5. AccessSound(access \cup {Store!AccessOf(f)}, mem', condemned)
  <2>1. DeviceOf[f] \in Devices \cup {None}
    BY RecordAssumption, DevicesAssumption
  <2> QED BY <1>4, <2>1 DEF AccessSound, Store!AccessOf, StoreInv
<1>6. AccessSound(access', mem', condemned)
  BY <1>3, <1>5 DEF AccessSound
<1> QED BY <1>1, <1>2, <1>6

\* refresh_with_retry_key, whichever way it ends.
LEMMA ServeSound ==
  ASSUME StoreInv, NEW t, NEW key, NEW ends,
         Store!Serve(t, key, ends)
  PROVE  /\ condemned' \subseteq Begun
         /\ Sound(mem', Begun, condemned', revoked)
         /\ Sound(disk', Begun, condemned', revoked)
         /\ AccessSound(access', mem', condemned')
<1> DEFINE retired == Store!IsRetired(mem, t)
           successor == IF retired THEN Store!UnusedSuccessor(mem, t, key) ELSE None
           replay == retired /\ successor = None
           u == IF successor # None THEN successor ELSE t
           lost == Store!FamilyOf(mem.retired, t)
           family == Store!FamilyOf(mem.live, u)
           device == DeviceOf[family]
           consumed == Store!Consumed(mem, u, key)
           first == Store!RetiredPruned(consumed)
<1>0. Sound(mem, Begun, condemned, revoked) /\ Sound(disk, Begun, condemned, revoked)
  BY DEF StoreInv
<1>1. CASE /\ replay
           /\ Store!Save(Store!Condemned(mem, lost), ends = "saved")
           /\ access' = {x \in access : x.family # lost}
           /\ condemned' = IF ends = "saved" THEN condemned \cup {lost} ELSE condemned
  <2> DEFINE n == Store!Condemned(mem, lost)
  <2>1. lost \in Begun
    <3>1. Store!Find(mem.retired, t) # {}
      BY <1>1 DEF Store!IsRetired
    <3> QED BY <1>0, <3>1, FamilyFound DEF Sound
  <2> HIDE DEF lost, replay
  <2>2. Narrows(n, mem) /\ \A r \in Store!Range(n.live) : r.family # lost
    BY <1>0, CondemnedNarrows DEF Sound
  <2> HIDE DEF n
  <2>3. Sound(n, Begun, condemned, revoked)
    BY <1>0, <2>2, NarrowsSound
  <2>4. Sound(n, Begun, condemned \cup {lost}, revoked)
    BY <2>2, <2>3 DEF Sound
  <2>5. mem' = n /\ disk' = IF ends = "saved" THEN n ELSE disk
    BY <1>1 DEF Store!Save, n
  <2>6. AccessSound(access', mem', condemned')
    <3>1. \A e : Store!Out(mem', e) <=> Store!Out(mem, e)
      BY <2>2, <2>5 DEF Narrows, Store!Out
    <3> QED BY <1>1, <3>1 DEF AccessSound, StoreInv
  <2>7. condemned' \subseteq Begun
    BY <1>1, <2>1 DEF StoreInv
  <2> QED BY <1>0, <1>1, <2>3, <2>4, <2>5, <2>6, <2>7
<1>2. CASE UNCHANGED <<mem, disk, access, condemned>>
  BY <1>2 DEF StoreInv
<1>3. CASE /\ Store!Save([mem EXCEPT !.live = Store!WithoutToken(@, u)], ends = "saved")
           /\ UNCHANGED <<access, condemned>>
  <2> DEFINE n == [mem EXCEPT !.live = Store!WithoutToken(@, u)]
  <2> HIDE DEF u
  <2>1. Narrows(n, mem)
    BY <1>0, DroppedNarrows DEF Sound
  <2> HIDE DEF n
  <2>2. Sound(n, Begun, condemned, revoked)
    BY <1>0, <2>1, NarrowsSound
  <2>3. mem' = n /\ (disk' = n \/ disk' = disk)
    BY <1>3 DEF Store!Save, n
  <2>4. AccessSound(access', mem', condemned')
    BY <1>3, <2>1, <2>3 DEF AccessSound, StoreInv, Narrows, Store!Out
  <2> QED BY <1>0, <1>3, <2>2, <2>3, <2>4 DEF StoreInv
<1>4. CASE /\ Store!IsLive(mem, u)
           /\ Store!Save(Store!Invalidated(consumed, device), ends = "saved")
           /\ access' = Store!WithoutDevice(access, device)
           /\ condemned' = condemned
  <2> DEFINE n == Store!Invalidated(consumed, device)
  <2> HIDE DEF u
  <2>1. Sound(consumed, Begun, condemned, revoked) /\ consumed.trust = mem.trust
    BY <1>0, <1>4, ConsumedSound
  <2> HIDE DEF consumed, device
  <2>2. Narrows(n, consumed)
    BY <2>1, InvalidatedNarrows DEF Sound
  <2> HIDE DEF n
  <2>3. Sound(n, Begun, condemned, revoked) /\ n.trust = mem.trust
    BY <2>1, <2>2, NarrowsSound DEF Narrows
  <2>4. mem' = n /\ (disk' = n \/ disk' = disk)
    BY <1>4 DEF Store!Save, n
  <2>5. access' \subseteq access
    BY <1>4 DEF Store!WithoutDevice
  <2>6. AccessSound(access', mem', condemned')
    BY <1>4, <2>3, <2>4, <2>5 DEF AccessSound, StoreInv, Store!Out
  <2> QED BY <1>0, <1>4, <2>3, <2>4, <2>6 DEF StoreInv
<1>5. CASE /\ Store!IsLive(mem, u) /\ Store!Trusted(mem, device)
           /\ Store!SaveTwice(first, Store!Issued(first, family, {t, u}), family, ends)
           /\ condemned' = condemned
  <2> DEFINE second == Store!Issued(first, family, {t, u})
             relink == {t, u}
  <2> HIDE DEF u
  <2>1. /\ Sound(consumed, Begun, condemned, revoked) /\ consumed.trust = mem.trust
        /\ \A r \in Store!Range(consumed.live) : r.family # family
    BY <1>0, <1>5, ConsumedSound
  <2>2. family \in Begun /\ family \notin condemned
    <3>1. Store!Find(mem.live, u) # {}
      BY <1>5 DEF Store!IsLive
    <3> QED BY <1>0, <3>1, FamilyFound DEF Sound
  <2>3. ~Store!Out(mem, device)
    BY <1>5 DEF Store!Trusted, Store!Out
  <2> HIDE DEF consumed, family
  <2>4. Narrows(first, consumed)
    BY <2>1, RetiredPrunedNarrows DEF Sound
  <2> HIDE DEF first
  <2>5. Sound(first, Begun, condemned, revoked) /\ first.trust = mem.trust
    BY <2>1, <2>4, NarrowsSound DEF Narrows
  <2>6. \A e : Store!Out(first, e) <=> Store!Out(mem, e)
    BY <2>5 DEF Store!Out
  <2>7. \A r \in Store!Range(first.live) : r.family # family
    BY <2>1, <2>4 DEF Narrows
  <2>8. Sound(second, Begun, condemned, revoked) /\ second.trust = first.trust
    <3> HIDE DEF relink
    <3>1. /\ Sound(Store!Issued(first, family, relink), Begun, condemned, revoked)
          /\ Store!Issued(first, family, relink).trust = first.trust
      BY <2>2, <2>3, <2>5, <2>6, <2>7, IssuedSound
    <3> QED BY <3>1 DEF relink
  <2>9. Store!SaveTwice(first, second, family, ends)
    BY <1>5
  <2>10. family \in Families
    BY <2>2 DEF Begun
  <2>11. ~Store!Out(first, DeviceOf[family])
    BY <2>3, <2>6
  <2> HIDE DEF second
  <2>12. /\ Sound(mem', Begun, condemned, revoked) /\ Sound(disk', Begun, condemned, revoked)
         /\ AccessSound(access', mem', condemned)
    BY <1>0, <2>2, <2>5, <2>6, <2>8, <2>9, <2>10, <2>11, SaveTwiceSound
  <2> QED BY <1>5, <2>12 DEF StoreInv
<1> QED BY <1>1, <1>2, <1>3, <1>4, <1>5 DEF Store!Serve

\* A client that spends or keeps a key, or takes a token, has signed in as before.
LEMMA ClientMoves ==
  ASSUME ClientState(client), NEW f \in Families, NEW key, NEW token,
         client' = [client EXCEPT ![f].key = key, ![f].token = token]
  PROVE  ClientState(client') /\ Begun' = Begun
<1>1. \A g \in Families :
        client'[g] = IF g = f THEN [began |-> client[f].began, token |-> token, key |-> key]
                     ELSE client[g]
  <2>1. \A g \in Families \ {f} : client'[g] = client[g]
    BY DEF ClientState
  <2>2. client[f] = [began |-> client[f].began, token |-> client[f].token, key |-> client[f].key]
    BY DEF ClientState
  <2>3. client'[f] = [client[f] EXCEPT !.key = key, !.token = token]
    BY DEF ClientState
  <2>4. client'[f] = [began |-> client[f].began, token |-> token, key |-> key]
    BY <2>2, <2>3
  <2> QED BY <2>1, <2>4
<1>2. DOMAIN client' = Families /\ client' = [g \in Families |-> client'[g]]
  BY DEF ClientState
<1>3. \A g \in Families : client'[g].began = client[g].began
  <2>1. \A x : [began |-> x, token |-> token, key |-> key].began = x
    OBVIOUS
  <2> QED BY <1>1, <2>1
<1>4. \A g \in Families :
        client'[g] \in [began : BOOLEAN, token : {client'[g].token}, key : {client'[g].key}]
  BY <1>1 DEF ClientState
<1>5. client' \in [Families -> {client'[g] : g \in Families}]
  BY <1>2
<1> QED BY <1>3, <1>4, <1>5 DEF ClientState, Begun

\* One initial record is sound, and the other is equal to it.
LEMMA StoreInit == ASSUME Store!Init PROVE StoreInv
<1>1. mem.live = <<>> /\ mem.retired = <<>> /\ disk = mem
  BY DEF Store!Init
<1>2. Store!Range(mem.live) = {} /\ Store!Range(mem.retired) = {}
  BY <1>1 DEF Store!Range
<1>3. Account(mem)
  <2>1. <<>> \in Seq({})
    OBVIOUS
  <2>2. mem = [trust |-> [d \in Devices |-> "absent"], live |-> <<>>, retired |-> <<>>]
    BY DEF Store!Init
  <2>3. mem \in [trust : [Devices -> {"absent", "pending", "trusted", "revoked"}],
                 live : {mem.live}, retired : {mem.retired}]
    BY <2>2
  <2> QED BY <1>1, <1>2, <2>1, <2>3 DEF Account
<1>4. Begun = {} /\ ClientState(client)
  BY DEF Store!Init, Begun, ClientState
<1>5. revoked = {} /\ condemned = {} /\ access = {}
  BY DEF Store!Init
<1> QED BY <1>1, <1>2, <1>3, <1>4, <1>5 DEF StoreInv, Sound, AccessSound

\* A client's refresh keeps both records sound.
LEMMA RefreshStep ==
  ASSUME StoreInv, NEW f \in Families, NEW ends, NEW delivered,
         Store!Refresh(f, ends, delivered)
  PROVE  StoreInv'
<1>1. \E t, key : Store!Serve(t, key, ends)
  BY DEF Store!Refresh
<1>2. /\ condemned' \subseteq Begun
      /\ Sound(mem', Begun, condemned', revoked) /\ Sound(disk', Begun, condemned', revoked)
      /\ AccessSound(access', mem', condemned')
  BY <1>1, ServeSound
<1>3. \E key, token : client' = [client EXCEPT ![f].key = key, ![f].token = token]
  BY DEF Store!Refresh
<1>4. ClientState(client') /\ Begun' = Begun
  BY <1>3, ClientMoves DEF StoreInv
<1>5. revoked' = revoked
  BY DEF Store!Refresh
<1> QED BY <1>2, <1>4, <1>5 DEF StoreInv

\* So does a token somebody else presents.
LEMMA ReplayStep ==
  ASSUME StoreInv, NEW t, NEW key, NEW ends, Store!Replay(t, key, ends)
  PROVE  StoreInv'
<1>1. Store!Serve(t, key, ends) /\ client' = client /\ revoked' = revoked
  BY DEF Store!Replay
<1>2. /\ condemned' \subseteq Begun
      /\ Sound(mem', Begun, condemned', revoked) /\ Sound(disk', Begun, condemned', revoked)
      /\ AccessSound(access', mem', condemned')
  BY <1>1, ServeSound
<1> QED BY <1>1, <1>2 DEF StoreInv, Begun

\* The client's own steps.
LEMMA ClientStep ==
  ASSUME StoreInv, NEW f \in Families,
         Store!RefreshLost(f) \/ Store!RefreshRefused(f) \/ Store!ClearCredentials(f)
  PROVE  StoreInv'
<1>1. UNCHANGED <<mem, disk, access, revoked, condemned>>
  BY DEF Store!RefreshLost, Store!RefreshRefused, Store!ClearCredentials, Store!history
<1>2. \E key, token : client' = [client EXCEPT ![f].key = key, ![f].token = token]
  <2>1. CASE Store!RefreshLost(f)
    <3>1. PICK key : client' = [client EXCEPT ![f].key = key]
      BY <2>1 DEF Store!RefreshLost
    <3>2. client' = [client EXCEPT ![f].key = key, ![f].token = client[f].token]
      BY <3>1 DEF StoreInv, ClientState
    <3> QED BY <3>2
  <2>2. CASE Store!RefreshRefused(f)
    <3>1. client' = [client EXCEPT ![f].key = None]
      BY <2>2 DEF Store!RefreshRefused
    <3>2. client' = [client EXCEPT ![f].key = None, ![f].token = client[f].token]
      BY <3>1 DEF StoreInv, ClientState
    <3> QED BY <3>2
  <2>3. CASE Store!ClearCredentials(f)
    <3>1. client' = [client EXCEPT ![f].token = None, ![f].key = None]
      BY <2>3 DEF Store!ClearCredentials
    <3>2. client' = [client EXCEPT ![f].key = None, ![f].token = None]
      BY <3>1 DEF StoreInv, ClientState
    <3> QED BY <3>2
  <2> QED BY <2>1, <2>2, <2>3
<1>3. ClientState(client') /\ Begun' = Begun
  BY <1>2, ClientMoves DEF StoreInv
<1> QED BY <1>1, <1>3 DEF StoreInv

\* The decisions on a device.
LEMMA DecisionStep ==
  ASSUME StoreInv, NEW d \in Devices, NEW ok \in BOOLEAN,
         \/ \E trust \in {"trusted", "revoked"} : Store!SetDeviceTrust(d, trust, ok)
         \/ Store!IdentityMismatch(d, ok) \/ Store!RemoveDevice(d, ok) \/ Store!EnrollDevice(d, ok)
  PROVE  StoreInv'
<1>0. /\ Sound(mem, Begun, condemned, revoked) /\ Sound(disk, Begun, condemned, revoked)
      /\ Begun \in SUBSET Families /\ revoked \in SUBSET Devices
  BY DEF StoreInv, Begun
<1>1. client' = client /\ condemned' = condemned
  BY DEF Store!SetDeviceTrust, Store!IdentityMismatch, Store!RemoveDevice, Store!EnrollDevice
<1>2. \/ \E trust \in {"pending", "trusted"} :
            /\ Store!Save([mem EXCEPT !.trust[d] = trust], ok)
            /\ access' = access /\ revoked' = revoked \ {d}
      \/ \E trust \in {"revoked", "absent"} :
            /\ Store!Save(Store!Invalidated([mem EXCEPT !.trust[d] = trust], d), ok)
            /\ access' = Store!WithoutDevice(access, d)
            /\ revoked' = IF ok THEN revoked \cup {d} ELSE revoked \ {d}
  BY DEF Store!SetDeviceTrust, Store!IdentityMismatch, Store!RemoveDevice, Store!EnrollDevice
<1>3. CASE \E trust \in {"pending", "trusted"} :
             /\ Store!Save([mem EXCEPT !.trust[d] = trust], ok)
             /\ access' = access /\ revoked' = revoked \ {d}
  <2>1. PICK trust \in {"pending", "trusted"} :
          /\ Store!Save([mem EXCEPT !.trust[d] = trust], ok)
          /\ access' = access /\ revoked' = revoked \ {d}
    BY <1>3
  <2> DEFINE n == [mem EXCEPT !.trust[d] = trust]
  <2>2. /\ Sound(n, Begun, condemned, revoked \ {d})
        /\ \A e \in Devices \cup {None} : Store!Out(n, e) => Store!Out(mem, e)
    BY <1>0, AdmittedSound
  <2>3. Sound(disk, Begun, condemned, revoked \ {d})
    BY <1>0, WeakerSound
  <2>4. mem' = n /\ (disk' = n \/ disk' = disk)
    BY <2>1 DEF Store!Save
  <2> HIDE DEF n
  <2>5. AccessSound(access', mem', condemned)
    BY <2>1, <2>2, <2>4 DEF AccessSound, StoreInv
  <2> QED BY <1>1, <2>1, <2>2, <2>3, <2>4, <2>5 DEF StoreInv, Begun
<1>4. CASE \E trust \in {"revoked", "absent"} :
             /\ Store!Save(Store!Invalidated([mem EXCEPT !.trust[d] = trust], d), ok)
             /\ access' = Store!WithoutDevice(access, d)
             /\ revoked' = IF ok THEN revoked \cup {d} ELSE revoked \ {d}
  <2>1. PICK trust \in {"revoked", "absent"} :
          /\ Store!Save(Store!Invalidated([mem EXCEPT !.trust[d] = trust], d), ok)
          /\ access' = Store!WithoutDevice(access, d)
          /\ revoked' = IF ok THEN revoked \cup {d} ELSE revoked \ {d}
    BY <1>4
  <2> DEFINE n == Store!Invalidated([mem EXCEPT !.trust[d] = trust], d)
  <2>2. /\ Sound(n, Begun, condemned, revoked \cup {d})
        /\ \A e \in Devices \cup {None} : Store!Out(n, e) => e = d \/ Store!Out(mem, e)
    BY <1>0, ExpelledSound
  <2>3. mem' = n /\ disk' = IF ok THEN n ELSE disk
    BY <2>1 DEF Store!Save
  <2> HIDE DEF n
  <2>4. revoked' \subseteq revoked \cup {d}
    BY <2>1
  <2>5. Sound(mem', Begun, condemned, revoked')
    BY <2>2, <2>3, <2>4, WeakerSound
  <2>6. Sound(disk', Begun, condemned, revoked')
    <3>1. CASE ok
      BY <2>3, <2>5, <3>1
    <3>2. CASE ~ok
      BY <1>0, <2>1, <2>3, <3>2, WeakerSound
    <3> QED BY <3>1, <3>2
  <2>7. AccessSound(access', mem', condemned)
    BY <2>1, <2>2, <2>3 DEF AccessSound, StoreInv, Store!WithoutDevice
  <2>8. revoked' \subseteq Devices
    BY <1>0, <2>4
  <2> QED BY <1>1, <2>5, <2>6, <2>7, <2>8 DEF StoreInv, Begun
<1> QED BY <1>2, <1>3, <1>4

\* The device a sign-in comes from is known once the sign-in is under way.
LEMMA KnownDeviceSound ==
  ASSUME StoreInv, NEW d \in Devices \cup {None}, NEW first \in {"pending", "trusted"},
         d # None => mem.trust[d] # "revoked"
  PROVE  LET n == IF d # None /\ mem.trust[d] = "absent" THEN [mem EXCEPT !.trust[d] = first] ELSE mem
         IN  /\ Sound(n, Begun, condemned, revoked \ {d})
             /\ \A e \in Devices \cup {None} : Store!Out(n, e) => Store!Out(mem, e)
             /\ ~Store!Out(n, d)
<1>0. /\ Sound(mem, Begun, condemned, revoked)
      /\ Begun \in SUBSET Families /\ revoked \in SUBSET Devices
  BY DEF StoreInv, Begun
<1>1. CASE d # None /\ mem.trust[d] = "absent"
  <2>1. d \in Devices
    BY <1>1
  <2> DEFINE n == [mem EXCEPT !.trust[d] = first]
  <2>2. /\ Sound(n, Begun, condemned, revoked \ {d})
        /\ \A e \in Devices \cup {None} : Store!Out(n, e) => Store!Out(mem, e)
        /\ ~Store!Out(n, d)
    BY <1>0, <2>1, AdmittedSound
  <2> HIDE DEF n
  <2> QED BY <1>1, <2>2 DEF n
<1>2. CASE ~(d # None /\ mem.trust[d] = "absent")
  <2>1. Sound(mem, Begun, condemned, revoked \ {d})
    BY <1>0, WeakerSound
  <2>2. ~Store!Out(mem, d)
    BY <1>2 DEF Store!Out
  <2> QED BY <1>2, <2>1, <2>2
<1> QED BY <1>1, <1>2

\* A sign-in, whose device may be new to the account, keeps both records sound.
LEMMA SignInStep ==
  ASSUME StoreInv, NEW f \in Families, NEW ends, NEW delivered,
         Store!SignIn(f, ends, delivered)
  PROVE  StoreInv'
<1> DEFINE d == DeviceOf[f]
           first == IF \A e \in Devices : mem.trust[e] = "absent" THEN "trusted" ELSE "pending"
           known == IF d # None /\ mem.trust[d] = "absent"
                    THEN [mem EXCEPT !.trust[d] = first] ELSE mem
           pruned == Store!LivePruned(known)
           second == Store!Issued(pruned, f, {})
           begun == Begun \cup {f}
           gone == revoked \ {d}
<1>1. /\ ~client[f].began
      /\ d # None => mem.trust[d] # "revoked"
      /\ Store!SaveTwice(pruned, second, f, ends)
      /\ revoked' = gone
      /\ condemned' = condemned
  BY DEF Store!SignIn
<1>2. \E token : client' = [client EXCEPT ![f].began = TRUE, ![f].token = token]
  BY DEF Store!SignIn
<1>3. d \in Devices \cup {None} /\ first \in {"pending", "trusted"}
  BY RecordAssumption, DevicesAssumption
<1>4. f \notin Begun /\ f \notin condemned
  BY <1>1 DEF Begun, StoreInv
<1> HIDE DEF first
<1>5. /\ Sound(known, Begun, condemned, gone)
      /\ \A e \in Devices \cup {None} : Store!Out(known, e) => Store!Out(mem, e)
      /\ ~Store!Out(known, d)
  <2> HIDE DEF d
  <2> QED BY <1>1, <1>3, KnownDeviceSound
<1> HIDE DEF known
<1>6. Narrows(pruned, known)
  BY <1>5, LivePrunedNarrows DEF Sound
<1> HIDE DEF pruned
<1>7. Sound(pruned, Begun, condemned, gone)
  BY <1>5, <1>6, NarrowsSound
<1>8. \A e : Store!Out(pruned, e) <=> Store!Out(known, e)
  BY <1>6 DEF Narrows, Store!Out
<1>9. \A r \in Store!Range(pruned.live) : r.family # f
  BY <1>4, <1>7 DEF Sound
<1>10. Sound(pruned, begun, condemned, gone)
  BY <1>7, WeakerSound
<1>11. Sound(second, begun, condemned, gone) /\ second.trust = pruned.trust
  BY <1>4, <1>5, <1>8, <1>9, <1>10, IssuedSound
<1>12. Sound(disk, begun, condemned, gone)
  <2>1. Sound(disk, Begun, condemned, revoked)
    BY DEF StoreInv
  <2> QED BY <2>1, WeakerSound
<1> HIDE DEF second
<1>13. /\ Sound(mem', begun, condemned, gone)
       /\ Sound(disk', begun, condemned, gone)
       /\ AccessSound(access', mem', condemned)
  BY <1>1, <1>4, <1>5, <1>8, <1>10, <1>11, <1>12, SaveTwiceSound
<1>14. ClientState(client') /\ Begun' = begun
  <2>1. PICK token : client' = [client EXCEPT ![f].began = TRUE, ![f].token = token]
    BY <1>2
  <2>2. client[f] = [began |-> client[f].began, token |-> client[f].token, key |-> client[f].key]
    BY DEF StoreInv, ClientState
  <2>3. \A g \in Families \ {f} : client'[g] = client[g]
    BY <2>1 DEF StoreInv, ClientState
  <2>4. client'[f] = [client[f] EXCEPT !.began = TRUE, !.token = token]
    BY <2>1 DEF StoreInv, ClientState
  <2>5. client'[f] = [began |-> TRUE, token |-> token, key |-> client[f].key]
    BY <2>2, <2>4
  <2>6. client' = [g \in Families |-> client'[g]]
    BY <2>1 DEF StoreInv, ClientState
  <2>7. client' \in [Families -> {client'[g] : g \in Families}]
    BY <2>6
  <2>8. \A g \in Families :
          client'[g] \in [began : BOOLEAN, token : {client'[g].token}, key : {client'[g].key}]
    <3>1. client'[f] \in [began : BOOLEAN, token : {client'[f].token}, key : {client'[f].key}]
      BY <2>5
    <3> QED BY <2>3, <3>1 DEF StoreInv, ClientState
  <2>9. client'[f].began
    BY <2>5
  <2> QED BY <2>3, <2>7, <2>8, <2>9 DEF ClientState, Begun
<1>15. condemned' \subseteq begun /\ gone \subseteq Devices
  BY <1>1 DEF StoreInv
<1> QED BY <1>1, <1>13, <1>14, <1>15 DEF StoreInv

\* An access token of no sign-in goes to a device that is not out.
LEMMA DeviceAuthStep ==
  ASSUME StoreInv, NEW d \in Devices, Store!DeviceAuth(d)
  PROVE  StoreInv'
<1> DEFINE x == [family |-> None, device |-> d]
<1>1. access' = access \cup {x} /\ UNCHANGED <<mem, disk, client, revoked, condemned>>
  BY DEF Store!DeviceAuth, Store!history
<1>2. x \in [family : Families \cup {None}, device : Devices \cup {None}]
  OBVIOUS
<1>3. x.family = None /\ x.device = d
  OBVIOUS
<1>4. None \notin condemned
  BY RecordAssumption DEF StoreInv, Begun
<1>5. ~Store!Out(mem, d)
  BY DEF Store!DeviceAuth, Store!Out
<1> HIDE DEF x
<1>6. AccessSound(access', mem', condemned')
  BY <1>1, <1>2, <1>3, <1>4, <1>5 DEF AccessSound, StoreInv
<1> QED BY <1>1, <1>6 DEF StoreInv, Begun

\* A restart reads the record on disk, and time passes.
LEMMA RestartStep ==
  ASSUME StoreInv, Store!Crash \/ Store!Expire \/ \E t \in 1 .. issued : Store!GraceEnds(t)
  PROVE  StoreInv'
<1>1. CASE Store!Crash
  BY <1>1 DEF Store!Crash, Store!history, StoreInv, Begun, AccessSound
<1>2. CASE Store!Expire \/ \E t \in 1 .. issued : Store!GraceEnds(t)
  <2>1. UNCHANGED <<mem, disk, access, client, revoked, condemned>>
    BY <1>2 DEF Store!Expire, Store!GraceEnds, Store!history
  <2> QED BY <2>1 DEF StoreInv, Begun
<1> QED BY <1>1, <1>2

\* Every step keeps both records sound.
LEMMA StoreStep ==
  ASSUME StoreInv, [Store!Next]_(Store!vars)
  PROVE  StoreInv'
<1>1. CASE Store!Next
  BY <1>1, RefreshStep, ReplayStep, ClientStep, DecisionStep, SignInStep, DeviceAuthStep, RestartStep
     DEF Store!Next
<1>2. CASE UNCHANGED Store!vars
  BY <1>2 DEF Store!vars, StoreInv, Begun
<1> QED BY <1>1, <1>2

\* The record in memory and the one on disk stay sound, whatever is retried,
\* replayed, lost or interrupted.
THEOREM StoreInvariance ==
  Store!Spec => []StoreInv
BY StoreInit, StoreStep, PTL DEF Store!Spec

\* A rotation chain never forks, in memory or on disk.
THEOREM ChainNeverForksHolds ==
  Store!Spec => []ChainNeverForks
<1>1. StoreInv => ChainNeverForks
  BY DEF StoreInv, Sound, ChainNeverForks, Range, Store!Range
<1> QED BY <1>1, StoreInvariance, PTL

\* A condemned sign-in stays dead.
THEOREM CondemnedStaysDeadHolds ==
  Store!Spec => []CondemnedStaysDead
<1>1. StoreInv => CondemnedStaysDead
  BY DEF StoreInv, Sound, AccessSound, CondemnedStaysDead, Range, Store!Range
<1> QED BY <1>1, StoreInvariance, PTL

\* A device that is out holds no credential.
THEOREM RevokedHoldsNothingHolds ==
  Store!Spec => []RevokedHoldsNothing
<1>1. StoreInv => RevokedHoldsNothing
  BY DEF StoreInv, Sound, AccessSound, RevokedHoldsNothing, Out, Store!Out, Range, Store!Range
<1> QED BY <1>1, StoreInvariance, PTL

-----------------------------------------------------------------------------
(* The client that retries a request whose answer it did not get. *)

\* The tombstones and the live tokens of a sign-in.
Tombs(a, f) == {r \in Store!Range(a.retired) : r.family = f}

Lives(a, f) == {r \in Store!Range(a.live) : r.family = f}

\* The tokens of a record, each with the sign-in it belongs to.
PairsOf(a) ==
  {<<x.token, x.family>> : x \in Store!Range(a.live) \cup Store!Range(a.retired)}
    \cup {<<r.successor, r.family>> : r \in {q \in Store!Range(a.retired) : q.successor # None}}

\* A token is live or rotated away, not both.
Disjoint(a) == \A r \in Store!Range(a.live), q \in Store!Range(a.retired) : r.token # q.token

\* The tombstone of a token that was live.
Tombstone(a, t, key) ==
  [token |-> t, family |-> Store!FamilyOf(a.live, t), key |-> key, successor |-> None]

\* A tombstone after token number issued + 1 was linked to the tokens of relink.
Relinked(r, relink) ==
  IF r.token \in relink THEN [r EXCEPT !.successor = issued + 1] ELSE r

\* Exactly the entries of other sign-ins.
LEMMA WithoutEntries ==
  ASSUME NEW s, s \in Seq(Store!Range(s)), NEW f
  PROVE  Store!Range(Store!Without(s, f)) = {r \in Store!Range(s) : r.family # f}
<1> DEFINE kept == {i \in DOMAIN s : s[i].family # f}
<1>1. \A r \in Store!Range(s) : r.family # f => \E i \in kept : r = s[i]
  BY DEF Store!Range
<1>2. \A i \in kept : s[i] \in Store!Range(Store!Retain(s, kept))
  BY KeptIsRetained
<1>3. Store!Without(s, f) = Store!Retain(s, kept)
  BY Zenon DEF Store!Without
<1> HIDE DEF kept
<1> QED BY <1>1, <1>2, <1>3, WithoutListOf DEF ListOf

\* Exactly the other tokens.
LEMMA WithoutTokenEntries ==
  ASSUME NEW s, s \in Seq(Store!Range(s)), NEW t
  PROVE  Store!Range(Store!WithoutToken(s, t)) = {r \in Store!Range(s) : r.token # t}
<1> DEFINE kept == {i \in DOMAIN s : s[i].token # t}
<1>1. \A r \in Store!Range(s) : r.token # t => \E i \in kept : r = s[i]
  BY DEF Store!Range
<1>2. \A i \in kept : s[i] \in Store!Range(Store!Retain(s, kept))
  BY KeptIsRetained
<1>3. Store!WithoutToken(s, t) = Store!Retain(s, kept)
  BY Zenon DEF Store!WithoutToken
<1> HIDE DEF kept
<1> QED BY <1>1, <1>2, <1>3, WithoutTokenListOf DEF ListOf

\* A condemnation takes the tombstones of its sign-in and no others.
LEMMA CondemnedEntries ==
  ASSUME NEW a, Account(a), NEW g
  PROVE  Store!Range(Store!Condemned(a, g).retired) = {r \in Store!Range(a.retired) : r.family # g}
<1>1. Store!Condemned(a, g).retired = Store!Without(a.retired, g)
  BY DEF Store!Condemned, Account
<1> QED BY <1>1, WithoutEntries DEF Account

\* What leaves the tombstones alone.
LEMMA TombsKept ==
  ASSUME NEW a, Account(a)
  PROVE  /\ Store!LivePruned(a).retired = a.retired
         /\ \A d : Store!Invalidated(a, d).retired = a.retired
         /\ \A t : [a EXCEPT !.live = Store!WithoutToken(@, t)].retired = a.retired
         /\ Store!RetiredPruned(a).live = a.live
BY DEF Store!LivePruned, Store!Invalidated, Store!RetiredPruned, Account

\* The entries after a token was consumed.
LEMMA ConsumedEntries ==
  ASSUME NEW a, Account(a), NEW t, NEW key
  PROVE  LET n == Store!Consumed(a, t, key)
             x == Tombstone(a, t, key)
         IN  /\ Store!Range(n.live) = {r \in Store!Range(a.live) : r.token # t}
             /\ Store!Range(n.retired) = Store!Range(a.retired) \cup {x}
             /\ n.retired = Append(a.retired, x)
             /\ Account(n)
<1> DEFINE x == Tombstone(a, t, key)
           l == Store!WithoutToken(a.live, t)
           q == Append(a.retired, x)
           n == [trust |-> a.trust, live |-> l, retired |-> q]
<1>1. Store!Range(l) = {r \in Store!Range(a.live) : r.token # t} /\ ListOf(l, a.live)
  BY WithoutTokenEntries, WithoutTokenListOf DEF Account
<1>2. q \in Seq(Store!Range(q)) /\ Store!Range(q) = Store!Range(a.retired) \cup {x}
  BY AppendedEntries DEF Account
<1>3. IsTombstone(x)
  BY DEF IsTombstone, Tombstone
<1>4. Store!Consumed(a, t, key) = n
  <2>1. Store!Consumed(a, t, key) = [a EXCEPT !.live = l, !.retired = q]
    BY Zenon DEF Store!Consumed, Tombstone
  <2> HIDE DEF l, q
  <2> QED BY <2>1, AccountRecord
<1> HIDE DEF x
<1>5. q = Append(a.retired, x)
  OBVIOUS
<1> HIDE DEF l, q
<1>6. Account(n)
  <2>1. \A z \in Store!Range(q) : IsTombstone(z)
    BY <1>2, <1>3 DEF Account
  <2> QED BY <1>1, <1>2, <2>1, AccountOf DEF ListOf
<1>7. n.live = l /\ n.retired = q
  OBVIOUS
<1> HIDE DEF n
<1> QED BY <1>1, <1>2, <1>4, <1>5, <1>6, <1>7 DEF x

\* The newest tombstone survives the pruning, unless it has expired.
LEMMA NewestSurvives ==
  ASSUME NEW a, Account(a), NEW s, s \in Seq(Store!Range(s)), NEW x,
         a.retired = Append(s, x), x.token > expired
  PROVE  x \in Store!Range(Store!RetiredPruned(a).retired)
<1> DEFINE q == a.retired
           kept == {i \in DOMAIN q : q[i].token > expired}
           u == Store!Retain(q, kept)
           newest == {i \in DOMAIN u : i > Len(u) - MaxRetired}
<1>1. q \in Seq(Store!Range(q)) /\ Len(q) \in DOMAIN q /\ q[Len(q)] = x
  <2>1. Len(s) \in Nat /\ DOMAIN s = 1 .. Len(s) /\ s \in Seq(Store!Range(s) \cup {x})
    OBVIOUS
  <2>2. Len(q) = Len(s) + 1 /\ q[Len(s) + 1] = x /\ DOMAIN q = 1 .. Len(s) + 1
    BY <2>1
  <2> QED BY <2>1, <2>2 DEF Account
<1>2. Len(q) \in kept
  BY <1>1
<1>3. u \in Seq(Store!Range(u)) /\ Len(u) \in Nat \ {0} /\ u[Len(u)] = x
  BY <1>1, <1>2, KeptIsRetained, RetainedWasKept
<1>4. Store!Unexpired(q) = u
  BY Zenon DEF Store!Unexpired
<1> HIDE DEF u
<1>5. Len(u) \in newest
  <2>1. DOMAIN u = 1 .. Len(u)
    BY <1>3
  <2> QED BY <1>3, <2>1, RecordAssumption
<1>6. x \in Store!Range(Store!Retain(u, newest))
  BY <1>3, <1>5, KeptIsRetained
<1>7. Store!Capped(u, MaxRetired) = Store!Retain(u, newest)
  BY Zenon DEF Store!Capped
<1>8. Store!RetiredPruned(a).retired = Store!Capped(Store!Unexpired(a.retired), MaxRetired)
  BY DEF Store!RetiredPruned, Account
<1> QED BY <1>4, <1>6, <1>7, <1>8

\* The entries after a token was issued.
LEMMA IssuedEntries ==
  ASSUME NEW a, Account(a), NEW f, NEW relink
  PROVE  LET n == Store!Issued(a, f, relink)
         IN  /\ Store!Range(n.live) \subseteq Store!Range(a.live) \cup {[token |-> issued + 1, family |-> f]}
             /\ Store!Range(n.retired) = {Relinked(r, relink) : r \in Store!Range(a.retired)}
<1> DEFINE x == [token |-> issued + 1, family |-> f]
           l == Append(a.live, x)
           q == [i \in DOMAIN a.retired |-> IF a.retired[i].token \in relink
                                            THEN [a.retired[i] EXCEPT !.successor = issued + 1]
                                            ELSE a.retired[i]]
           n == [trust |-> a.trust, live |-> l, retired |-> q]
           pruned == Store!Capped(Store!Unexpired(l), MaxLive)
<1>1. l \in Seq(Store!Range(l)) /\ Store!Range(l) = Store!Range(a.live) \cup {x}
  BY AppendedEntries DEF Account
<1>2. ListOf(Store!Unexpired(l), l)
  <2> HIDE DEF l
  <2> QED BY <1>1, UnexpiredListOf
<1>3. ListOf(pruned, Store!Unexpired(l))
  <2> DEFINE w == Store!Unexpired(l)
  <2> HIDE DEF w
  <2>1. w \in Seq(Store!Range(w))
    BY <1>2 DEF ListOf, w
  <2>2. ListOf(Store!Capped(w, MaxLive), w)
    BY <2>1, CappedListOf
  <2> QED BY <2>2 DEF w
<1>4. Store!Range(pruned) \subseteq Store!Range(a.live) \cup {x}
  BY <1>1, <1>2, <1>3, Zenon DEF ListOf
<1>5. \A i \in DOMAIN a.retired : q[i] = Relinked(a.retired[i], relink)
  BY DEF Relinked
<1>6. DOMAIN q = DOMAIN a.retired
  OBVIOUS
<1>7. Store!Issued(a, f, relink) = [n EXCEPT !.live = pruned]
  <2>1. Store!Issued(a, f, relink) = Store!LivePruned([a EXCEPT !.live = l, !.retired = q])
    BY Zenon DEF Store!Issued
  <2> HIDE DEF l, q
  <2>2. [a EXCEPT !.live = l, !.retired = q] = n
    BY AccountRecord
  <2>3. Store!LivePruned(n) = [n EXCEPT !.live = pruned]
    BY DEF Store!LivePruned
  <2> QED BY <2>1, <2>2, <2>3, Zenon
<1> HIDE DEF x, l, q, pruned
<1>8. Store!Issued(a, f, relink).live = pruned /\ Store!Issued(a, f, relink).retired = q
  BY <1>7
<1>9. Store!Range(q) = {Relinked(r, relink) : r \in Store!Range(a.retired)}
  BY <1>5, <1>6 DEF Store!Range
<1> QED BY <1>4, <1>8, <1>9 DEF x

\* n is record a after a token was issued.
IssuedFrom(n, a, f, relink) ==
  /\ Store!Range(n.live) \subseteq Store!Range(a.live) \cup {[token |-> issued + 1, family |-> f]}
  /\ Store!Range(n.retired) = {Relinked(r, relink) : r \in Store!Range(a.retired)}

\* That is what issuing a token makes of it.
LEMMA IssuedOf ==
  ASSUME NEW a, Account(a), NEW f, NEW relink
  PROVE  IssuedFrom(Store!Issued(a, f, relink), a, f, relink)
<1>1. PICK n : n = Store!Issued(a, f, relink)
  OBVIOUS
<1>2. /\ Store!Range(n.live) \subseteq Store!Range(a.live) \cup {[token |-> issued + 1, family |-> f]}
      /\ Store!Range(n.retired) = {Relinked(r, relink) : r \in Store!Range(a.retired)}
  BY <1>1, IssuedEntries
<1> QED BY <1>1, <1>2 DEF IssuedFrom

\* Tokens are numbered up to last, and a token belongs to one sign-in.
Lineage(pairs, last) ==
  /\ \A p \in pairs : p[1] \in 1 .. last
  /\ \A p, q \in pairs : p[1] = q[1] => p[2] = q[2]

\* What is asked of the tokens of a record and of other tokens.
LEMMA PairsHold ==
  ASSUME NEW a
  PROVE  /\ \A r \in Store!Range(a.live) : <<r.token, r.family>> \in PairsOf(a)
         /\ \A r \in Store!Range(a.retired) : <<r.token, r.family>> \in PairsOf(a)
         /\ \A r \in Store!Range(a.retired) :
               r.successor # None => <<r.successor, r.family>> \in PairsOf(a)
BY DEF PairsOf

\* Pairs of another lineage, if they are among the pairs of this one.
LEMMA PairsAmong ==
  ASSUME NEW a, NEW P,
         \A r \in Store!Range(a.live) : <<r.token, r.family>> \in P,
         \A r \in Store!Range(a.retired) : <<r.token, r.family>> \in P,
         \A r \in Store!Range(a.retired) : r.successor # None => <<r.successor, r.family>> \in P
  PROVE  PairsOf(a) \subseteq P
BY DEF PairsOf

\* A record that narrows another has no other pairs.
LEMMA PairsNarrow ==
  ASSUME NEW a, NEW n,
         Store!Range(n.live) \subseteq Store!Range(a.live),
         Store!Range(n.retired) \subseteq Store!Range(a.retired)
  PROVE  PairsOf(n) \subseteq PairsOf(a) /\ (Disjoint(a) => Disjoint(n))
BY DEF PairsOf, Disjoint

\* Nor has one in which a live token was consumed.
LEMMA PairsConsumed ==
  ASSUME NEW a, Account(a), NEW t, NEW key, Store!IsLive(a, t)
  PROVE  LET n == Store!Consumed(a, t, key)
         IN  PairsOf(n) \subseteq PairsOf(a) /\ (Disjoint(a) => Disjoint(n))
<1> DEFINE x == Tombstone(a, t, key)
<1>1. PICK q \in Store!Range(a.live) : q.token = t /\ Store!FamilyOf(a.live, t) = q.family
  BY FamilyFound DEF Store!IsLive
<1>2. x.token = t /\ x.family = q.family /\ x.successor = None
  BY <1>1 DEF Tombstone
<1>3. PICK n : n = Store!Consumed(a, t, key)
  OBVIOUS
<1>4. /\ Store!Range(n.live) = {r \in Store!Range(a.live) : r.token # t}
      /\ Store!Range(n.retired) = Store!Range(a.retired) \cup {x}
  BY <1>3, ConsumedEntries
<1> HIDE DEF x
<1>5. PairsOf(n) \subseteq PairsOf(a)
  <2> SUFFICES /\ \A r \in Store!Range(n.live) : <<r.token, r.family>> \in PairsOf(a)
               /\ \A r \in Store!Range(n.retired) : <<r.token, r.family>> \in PairsOf(a)
               /\ \A r \in Store!Range(n.retired) :
                     r.successor # None => <<r.successor, r.family>> \in PairsOf(a)
    BY PairsAmong
  <2>1. <<t, q.family>> \in PairsOf(a)
    BY <1>1, PairsHold
  <2> QED BY <1>2, <1>4, <2>1, PairsHold
<1>6. Disjoint(a) => Disjoint(n)
  BY <1>2, <1>4 DEF Disjoint
<1> QED BY <1>3, <1>5, <1>6

\* A tombstone that is linked anew keeps its token, sign-in and key.
LEMMA RelinkedFields ==
  ASSUME NEW r, IsTombstone(r), NEW relink
  PROVE  LET z == Relinked(r, relink)
         IN  /\ z.token = r.token /\ z.family = r.family /\ z.key = r.key
             /\ z.successor = IF r.token \in relink THEN issued + 1 ELSE r.successor
             /\ r.token \notin relink => z = r
BY DEF Relinked, IsTombstone

\* An issued token is a new pair.
LEMMA PairsIssued ==
  ASSUME NEW a, Account(a), NEW f, NEW relink,
         \A r \in Store!Range(a.retired) : r.token \in relink => r.family = f
  PROVE  LET n == Store!Issued(a, f, relink)
         IN  /\ PairsOf(n) \subseteq PairsOf(a) \cup {<<issued + 1, f>>}
             /\ Disjoint(a) /\ (\A r \in Store!Range(a.retired) : r.token # issued + 1) => Disjoint(n)
<1> DEFINE x == [token |-> issued + 1, family |-> f]
           P == PairsOf(a) \cup {<<issued + 1, f>>}
<1>1. x.token = issued + 1 /\ x.family = f
  OBVIOUS
<1>2. PICK n : n = Store!Issued(a, f, relink)
  OBVIOUS
<1>3. /\ Store!Range(n.live) \subseteq Store!Range(a.live) \cup {x}
      /\ Store!Range(n.retired) = {Relinked(r, relink) : r \in Store!Range(a.retired)}
  BY <1>2, IssuedEntries
<1> HIDE DEF x
<1>4. \A z \in Store!Range(n.retired) : \E r \in Store!Range(a.retired) :
         /\ z.token = r.token /\ z.family = r.family
         /\ z.successor = IF r.token \in relink THEN issued + 1 ELSE r.successor
  <2> TAKE z \in Store!Range(n.retired)
  <2>1. PICK r \in Store!Range(a.retired) : z = Relinked(r, relink)
    BY <1>3
  <2>2. IsTombstone(r)
    BY DEF Account
  <2> QED BY <2>1, <2>2, RelinkedFields
<1>5. PairsOf(n) \subseteq P
  <2>1. /\ \A r \in Store!Range(a.live) : <<r.token, r.family>> \in P
        /\ \A r \in Store!Range(a.retired) : <<r.token, r.family>> \in P
        /\ \A r \in Store!Range(a.retired) : r.successor # None => <<r.successor, r.family>> \in P
        /\ <<issued + 1, f>> \in P
    BY PairsHold
  <2> HIDE DEF P
  <2>2. \A r \in Store!Range(n.live) : <<r.token, r.family>> \in P
    BY <1>1, <1>3, <2>1
  <2>3. \A r \in Store!Range(n.retired) : <<r.token, r.family>> \in P
    BY <1>4, <2>1
  <2>4. \A r \in Store!Range(n.retired) : r.successor # None => <<r.successor, r.family>> \in P
    BY <1>4, <2>1
  <2> QED BY <2>2, <2>3, <2>4, PairsAmong
<1>6. Disjoint(a) /\ (\A r \in Store!Range(a.retired) : r.token # issued + 1) => Disjoint(n)
  BY <1>1, <1>3, <1>4 DEF Disjoint
<1> QED BY <1>2, <1>5, <1>6

\* Fewer tokens, and later ones.
LEMMA LineageGrows ==
  ASSUME NEW P, NEW Q, NEW last \in Nat, NEW f, Lineage(P, last)
  PROVE  /\ Q \subseteq P => Lineage(Q, last)
         /\ Q \subseteq P \cup {<<last + 1, f>>} => Lineage(Q, last + 1)
<1>1. Q \subseteq P => Lineage(Q, last)
  BY DEF Lineage
<1>2. ASSUME Q \subseteq P \cup {<<last + 1, f>>} PROVE Lineage(Q, last + 1)
  <2>1. \A p \in Q : p \in P \/ (p[1] = last + 1 /\ p[2] = f)
    BY <1>2
  <2>2. \A p \in P : p[1] \in 1 .. last + 1 /\ p[1] # last + 1
    BY DEF Lineage
  <2>3. last + 1 \in 1 .. last + 1
    OBVIOUS
  <2> QED BY <2>1, <2>2, <2>3 DEF Lineage
<1> QED BY <1>1, <1>2

\* A record from which sign-in f has lost tombstones and live tokens at most.
Calm(n, a, f) == Tombs(n, f) \subseteq Tombs(a, f) /\ Lives(n, f) \subseteq Lives(a, f)

\* If the client's token has a tombstone and the sign-in a live token, then
\* the tombstone names the client's key and that token.
Answerable(a, f, c) ==
  \A r \in Tombs(a, f), q \in Lives(a, f) :
     r.token = c.token => c.key # None /\ r.key = c.key /\ r.successor = q.token

\* The retry of a client c of sign-in f would be answered, from memory m and,
\* after a restart, from disk d.
Answered(f, c, m, d, old, over) ==
  /\ Tombs(m, f) # {} => Tombs(d, f) # {}
  /\ c.token # None =>
       /\ c.token \notin over
       /\ c.token > old =>
            /\ Answerable(m, f, c) /\ Answerable(d, f, c)
            /\ (\E r \in Tombs(d, f) : r.token = c.token) => (\E r \in Tombs(m, f) : r.token = c.token)

\* The tokens the clients hold.
ClientPairs(c) == {<<c[f].token, f>> : f \in {g \in Families : c[g].token # None}}

\* The inductive invariant: a sign-in whose client was not disturbed is one
\* whose retry would be answered.
HonestInv ==
  /\ issued \in Nat /\ expired \in 0 .. issued /\ stale \subseteq 1 .. issued
  /\ Lineage(PairsOf(mem) \cup PairsOf(disk) \cup ClientPairs(client), issued)
  /\ Disjoint(mem) /\ Disjoint(disk)
  /\ \A f \in Families \ disturbed : Answered(f, client[f], mem, disk, expired, stale)

\* A step that is no concern of sign-in f.
Aside(f) ==
  /\ Calm(mem', mem, f)
  /\ \/ disk' = disk /\ Tombs(mem', f) = Tombs(mem, f)
     \/ Calm(disk', mem, f) /\ Tombs(disk', f) = Tombs(mem', f)

\* What is answered from a record is answered from less of it.
LEMMA CalmAnswers ==
  ASSUME NEW a, NEW n, NEW f, NEW c, Calm(n, a, f), Answerable(a, f, c)
  PROVE  Answerable(n, f, c)
BY DEF Calm, Answerable

\* A step aside keeps the retry of f answered.
LEMMA AsideAnswered ==
  ASSUME NEW f, NEW c, NEW old, NEW over, NEW older, older \subseteq over,
         Answered(f, c, mem, disk, old, over), Aside(f)
  PROVE  Answered(f, c, mem', disk', old, older)
<1>1. Answerable(mem, f, c) => Answerable(mem', f, c)
  BY CalmAnswers DEF Aside
<1>2. CASE disk' = disk /\ Tombs(mem', f) = Tombs(mem, f)
  BY <1>1, <1>2 DEF Answered
<1>3. CASE Calm(disk', mem, f) /\ Tombs(disk', f) = Tombs(mem', f)
  <2>1. Answerable(mem, f, c) => Answerable(disk', f, c)
    BY <1>3, CalmAnswers
  <2> QED BY <1>1, <1>3, <2>1 DEF Answered
<1> QED BY <1>2, <1>3 DEF Aside

\* The token that a request with token t and this key spends is u.
Spends(t, u, key) ==
  /\ Store!IsLive(mem, u) /\ u > expired
  /\ \/ u = t /\ ~Store!IsRetired(mem, t)
     \/ Store!IsRetired(mem, t) /\ u # None /\ u = Store!UnusedSuccessor(mem, t, key)

\* The four ways a request may end.
Ignores(t, ends) ==
  /\ ~Store!IsLive(mem, t) /\ ~Store!IsRetired(mem, t) /\ ends = "saved"
  /\ UNCHANGED <<mem, disk, issued, stale>>

Condemns(t, key, ends) ==
  /\ Store!IsRetired(mem, t) /\ Store!UnusedSuccessor(mem, t, key) = None
  /\ ends \in {"saved", "first fails"}
  /\ Store!Save(Store!Condemned(mem, Store!FamilyOf(mem.retired, t)), ends = "saved")
  /\ UNCHANGED <<issued, stale>>

Drops(t, ends) ==
  /\ t <= expired /\ ends \in {"saved", "first fails"}
  /\ Store!Save([mem EXCEPT !.live = Store!WithoutToken(@, t)], ends = "saved")
  /\ UNCHANGED <<issued, stale>>

Expels(u, key, ends) ==
  /\ ends \in {"saved", "first fails"}
  /\ ~Store!Trusted(mem, DeviceOf[Store!FamilyOf(mem.live, u)])
  /\ Store!Save(Store!Invalidated(Store!Consumed(mem, u, key), DeviceOf[Store!FamilyOf(mem.live, u)]),
                ends = "saved")
  /\ issued' = issued /\ stale' = stale \ {u}

Rotates(t, u, key, ends) ==
  LET first == Store!RetiredPruned(Store!Consumed(mem, u, key))
      family == Store!FamilyOf(mem.live, u)
  IN  /\ Store!SaveTwice(first, Store!Issued(first, family, {t, u}), family, ends)
      /\ stale' = stale \ {u}

\* A live token is one that was issued, to the sign-in it is found under.
LEMMA LiveIsIssued ==
  ASSUME HonestInv, NEW u, Store!IsLive(mem, u)
  PROVE  u \in 1 .. issued /\ <<u, Store!FamilyOf(mem.live, u)>> \in PairsOf(mem)
<1>1. PICK r \in Store!Range(mem.live) : r.token = u /\ Store!FamilyOf(mem.live, u) = r.family
  BY FamilyFound DEF Store!IsLive
<1>2. <<r.token, r.family>> \in PairsOf(mem)
  BY PairsHold
<1>3. <<r.token, r.family>>[1] \in 1 .. issued
  BY <1>2 DEF HonestInv, Lineage
<1> QED BY <1>1, <1>2, <1>3

\* refresh_with_retry_key of a request that is a replay or spends token u.
ServeWith(t, key, ends, replay, u, family) ==
  LET device == DeviceOf[family]
      consumed == Store!Consumed(mem, u, key)
      first == Store!RetiredPruned(consumed)
  IN  \/ /\ replay /\ ends \in {"saved", "first fails"}
         /\ Store!Save(Store!Condemned(mem, family), ends = "saved")
         /\ UNCHANGED <<issued, stale>>
      \/ /\ ~replay /\ ~Store!IsLive(mem, u)
         /\ ends = "saved"
         /\ UNCHANGED <<mem, disk, issued, stale>>
      \/ /\ ~replay /\ u <= expired /\ ends \in {"saved", "first fails"}
         /\ Store!Save([mem EXCEPT !.live = Store!WithoutToken(@, u)], ends = "saved")
         /\ UNCHANGED <<issued, stale>>
      \/ /\ ~replay /\ Store!IsLive(mem, u) /\ u > expired /\ ~Store!Trusted(mem, device)
         /\ ends \in {"saved", "first fails"}
         /\ Store!Save(Store!Invalidated(consumed, device), ends = "saved")
         /\ issued' = issued /\ stale' = stale \ {u}
      \/ /\ ~replay /\ Store!IsLive(mem, u) /\ u > expired
         /\ Store!SaveTwice(first, Store!Issued(first, family, {t, u}), family, ends)
         /\ stale' = stale \ {u}

\* refresh_with_retry_key, by its endings.
LEMMA ServeCases ==
  ASSUME NEW t, NEW key, NEW ends, Store!Serve(t, key, ends), HonestInv
  PROVE  \/ Ignores(t, ends) \/ Condemns(t, key, ends) \/ Drops(t, ends)
         \/ \E u : Spends(t, u, key) /\ (Expels(u, key, ends) \/ Rotates(t, u, key, ends))
<1> DEFINE retired == Store!IsRetired(mem, t)
           successor == IF retired THEN Store!UnusedSuccessor(mem, t, key) ELSE None
           replay == retired /\ successor = None
           u == IF successor # None THEN successor ELSE t
           family == IF replay THEN Store!FamilyOf(mem.retired, t) ELSE Store!FamilyOf(mem.live, u)
<1>1. ServeWith(t, key, ends, replay, u, family)
  BY Zenon DEF Store!Serve, ServeWith
<1>2. replay => Store!UnusedSuccessor(mem, t, key) = None /\ family = Store!FamilyOf(mem.retired, t)
  OBVIOUS
<1>3. ~replay => family = Store!FamilyOf(mem.live, u)
  OBVIOUS
<1>4. successor = None /\ ~replay => ~retired /\ u = t
  OBVIOUS
<1>5. successor # None =>
        /\ retired /\ ~replay /\ u = Store!UnusedSuccessor(mem, t, key) /\ u # None
        /\ u > expired /\ Store!IsLive(mem, u)
  BY DEF Store!UnusedSuccessor
<1> HIDE DEF retired, successor, replay, u, family
<1>6. CASE replay
  <2>1. retired
    BY <1>6 DEF replay
  <2> QED BY <1>1, <1>2, <1>6, <2>1 DEF ServeWith, Condemns, retired
<1>7. CASE successor = None /\ ~replay
  <2>1. ~Store!IsRetired(mem, t) /\ u = t
    BY <1>4, <1>7 DEF retired
  <2>2. Store!IsLive(mem, t) /\ t > expired => Spends(t, t, key)
    BY <2>1 DEF Spends
  <2> QED BY <1>1, <1>3, <1>7, <2>1, <2>2 DEF ServeWith, Ignores, Drops, Expels, Rotates
<1>8. CASE successor # None
  <2>1. Spends(t, u, key)
    BY <1>5, <1>8 DEF Spends, retired
  <2>2. Expels(u, key, ends) \/ Rotates(t, u, key, ends) \/ (u <= expired)
    BY <1>1, <1>3, <1>5, <1>8 DEF ServeWith, Expels, Rotates
  <2>3. u \in 1 .. issued /\ u > expired
    BY <1>5, <1>8, LiveIsIssued
  <2>4. ~(u <= expired)
    BY <2>3 DEF HonestInv
  <2> QED BY <2>1, <2>2, <2>4
<1> QED BY <1>6, <1>7, <1>8

\* The token presented and the token spent belong to one sign-in.
LEMMA SpendsFamily ==
  ASSUME HonestInv, NEW t, NEW u, NEW key, Spends(t, u, key), NEW g, g = Store!FamilyOf(mem.live, u)
  PROVE  /\ u \in 1 .. issued /\ u > expired
         /\ \E q \in Store!Range(mem.live) : q.token = u /\ q.family = g
         /\ \E r \in Store!Range(mem.live) \cup Store!Range(mem.retired) : r.token = t /\ r.family = g
         /\ \A p \in PairsOf(mem) : p[1] \in {t, u} => p[2] = g
<1>1. u \in 1 .. issued /\ <<u, g>> \in PairsOf(mem) /\ u > expired
  BY LiveIsIssued DEF Spends
<1>2. \A p, q \in PairsOf(mem) : p[1] = q[1] => p[2] = q[2]
  BY DEF HonestInv, Lineage
<1>3. PICK q \in Store!Range(mem.live) : q.token = u /\ q.family = g
  BY FamilyFound DEF Spends, Store!IsLive
<1>4. \E r \in Store!Range(mem.live) \cup Store!Range(mem.retired) : r.token = t /\ r.family = g
  <2>1. CASE u = t
    BY <1>3, <2>1
  <2>2. CASE Store!IsRetired(mem, t) /\ u # None /\ u = Store!UnusedSuccessor(mem, t, key)
    <3> DEFINE r == CHOOSE r \in Store!Range(mem.retired) : r.token = t
    <3>1. r \in Store!Range(mem.retired) /\ r.token = t
      BY <2>2 DEF Store!IsRetired, Store!Find
    <3>2. r.successor = u
      BY <2>2 DEF Store!UnusedSuccessor
    <3> HIDE DEF r
    <3>3. <<u, r.family>> \in PairsOf(mem)
      BY <2>2, <3>1, <3>2, PairsHold
    <3>4. <<u, r.family>>[2] = <<u, g>>[2]
      BY <1>1, <1>2, <3>3
    <3> QED BY <3>1, <3>4
  <2> QED BY <2>1, <2>2 DEF Spends
<1>5. <<t, g>> \in PairsOf(mem)
  BY <1>4, PairsHold
<1>6. \A p \in PairsOf(mem) : p[1] \in {t, u} => p[2] = g
  BY <1>1, <1>2, <1>5
<1> QED BY <1>1, <1>3, <1>4, <1>6

\* The record after a token was spent.
LEMMA SpentEntries ==
  ASSUME StoreInv, HonestInv, NEW t, NEW u, NEW key, Spends(t, u, key),
         NEW g, g = Store!FamilyOf(mem.live, u),
         NEW n, n = Store!Consumed(mem, u, key)
  PROVE  /\ Account(n) /\ Account(mem)
         /\ Store!Range(n.live) \subseteq Store!Range(mem.live)
         /\ \A r \in Store!Range(n.live) : r.family # g
         /\ Store!Range(n.retired) = Store!Range(mem.retired) \cup {Tombstone(mem, u, key)}
         /\ n.retired = Append(mem.retired, Tombstone(mem, u, key))
         /\ PairsOf(n) \subseteq PairsOf(mem) /\ Disjoint(n)
<1>1. Sound(mem, Begun, condemned, revoked) /\ Account(mem) /\ Store!IsLive(mem, u)
  BY DEF StoreInv, Sound, Spends
<1>2. /\ Store!Range(n.live) = {r \in Store!Range(mem.live) : r.token # u}
      /\ Store!Range(n.retired) = Store!Range(mem.retired) \cup {Tombstone(mem, u, key)}
      /\ n.retired = Append(mem.retired, Tombstone(mem, u, key))
      /\ Account(n)
  <2>1. Account(mem)
    BY <1>1
  <2>2. LET m == Store!Consumed(mem, u, key)
            y == Tombstone(mem, u, key)
        IN  /\ Store!Range(m.live) = {r \in Store!Range(mem.live) : r.token # u}
            /\ Store!Range(m.retired) = Store!Range(mem.retired) \cup {y}
            /\ m.retired = Append(mem.retired, y)
            /\ Account(m)
    BY <2>1, ConsumedEntries
  <2> QED BY <2>2
<1>3. \A r \in Store!Range(n.live) : r.family # g
  <2>1. PICK q \in Store!Range(mem.live) : q.token = u /\ q.family = g
    BY SpendsFamily
  <2>2. \A r \in Store!Range(mem.live) : r.family = q.family => r = q
    BY <1>1 DEF Sound
  <2> QED BY <1>2, <2>1, <2>2
<1>4. PairsOf(n) \subseteq PairsOf(mem) /\ Disjoint(n)
  BY <1>1, PairsConsumed DEF HonestInv
<1> QED BY <1>1, <1>2, <1>3, <1>4

\* The record after the first save of a rotation.
LEMMA FirstEntries ==
  ASSUME StoreInv, HonestInv, NEW t, NEW u, NEW key, Spends(t, u, key),
         NEW g, g = Store!FamilyOf(mem.live, u),
         NEW first, first = Store!RetiredPruned(Store!Consumed(mem, u, key))
  PROVE  /\ Account(first)
         /\ Store!Range(first.live) \subseteq Store!Range(mem.live)
         /\ \A r \in Store!Range(first.live) : r.family # g
         /\ Store!Range(first.retired) \subseteq Store!Range(mem.retired) \cup {Tombstone(mem, u, key)}
         /\ Tombstone(mem, u, key) \in Store!Range(first.retired)
         /\ PairsOf(first) \subseteq PairsOf(mem) /\ Disjoint(first)
<1> DEFINE x == Tombstone(mem, u, key)
<1>1. PICK n : n = Store!Consumed(mem, u, key)
  OBVIOUS
<1>2. /\ Account(n) /\ Account(mem)
      /\ Store!Range(n.live) \subseteq Store!Range(mem.live)
      /\ \A r \in Store!Range(n.live) : r.family # g
      /\ Store!Range(n.retired) = Store!Range(mem.retired) \cup {x}
      /\ n.retired = Append(mem.retired, x)
      /\ PairsOf(n) \subseteq PairsOf(mem) /\ Disjoint(n)
  BY <1>1, SpentEntries
<1>3. Narrows(first, n)
  BY <1>1, <1>2, RetiredPrunedNarrows
<1>4. x.token > expired
  BY SpendsFamily DEF Tombstone
<1> HIDE DEF x
<1>5. x \in Store!Range(first.retired)
  <2>1. mem.retired \in Seq(Store!Range(mem.retired))
    BY <1>2 DEF Account
  <2> QED BY <1>1, <1>2, <1>4, <2>1, NewestSurvives
<1>6. PairsOf(first) \subseteq PairsOf(n) /\ Disjoint(first)
  BY <1>2, <1>3, PairsNarrow DEF Narrows
<1> QED BY <1>2, <1>3, <1>5, <1>6 DEF Narrows, x

\* z is a tombstone of record a, linked anew if its token is one of relink.
LinkedFrom(z, a, relink) ==
  \E r \in Store!Range(a.retired) :
     /\ z.token = r.token /\ z.family = r.family /\ z.key = r.key
     /\ r.token \in relink => z.successor = issued + 1

\* What the second save of a rotation leaves, after the first one.
SecondOf(t, u, g, first, second) ==
  /\ \A r \in Store!Range(second.live) :
        r \in Store!Range(first.live) \/ (r.token = issued + 1 /\ r.family = g)
  /\ \A z \in Store!Range(second.retired) : LinkedFrom(z, first, {t, u})
  /\ \A f : f # g => Tombs(second, f) = Tombs(first, f)
  /\ \E z \in Store!Range(second.retired) : z.token = u
  /\ PairsOf(second) \subseteq PairsOf(mem) \cup {<<issued + 1, g>>} /\ Disjoint(second)

\* The record after the second save.
LEMMA SecondEntries ==
  ASSUME StoreInv, HonestInv, NEW t, NEW u, NEW key, Spends(t, u, key),
         NEW g, g = Store!FamilyOf(mem.live, u),
         NEW first, first = Store!RetiredPruned(Store!Consumed(mem, u, key)),
         NEW second, second = Store!Issued(first, g, {t, u})
  PROVE  SecondOf(t, u, g, first, second)
<1> DEFINE relink == {t, u}
           y == [token |-> issued + 1, family |-> g]
<1>1. /\ Account(first)
      /\ Tombstone(mem, u, key) \in Store!Range(first.retired)
      /\ PairsOf(first) \subseteq PairsOf(mem) /\ Disjoint(first)
  BY FirstEntries
<1>2. Tombstone(mem, u, key).token = u
  BY DEF Tombstone
<1>3. y.token = issued + 1 /\ y.family = g
  OBVIOUS
<1>4. \A r \in Store!Range(first.retired) : r.token \in relink => r.family = g
  <2>1. \A p \in PairsOf(mem) : p[1] \in relink => p[2] = g
    BY SpendsFamily
  <2>2. \A r \in Store!Range(first.retired) : <<r.token, r.family>> \in PairsOf(mem)
    BY <1>1, PairsHold
  <2> HIDE DEF relink
  <2> QED BY <2>1, <2>2
<1>5. \A r \in Store!Range(first.retired) : r.token # issued + 1
  <2>1. \A r \in Store!Range(first.retired) : <<r.token, r.family>> \in PairsOf(mem)
    BY <1>1, PairsHold
  <2>2. \A p \in PairsOf(mem) : p[1] \in 1 .. issued
    BY DEF HonestInv, Lineage
  <2>3. \A r \in Store!Range(first.retired) : r.token \in 1 .. issued
    BY <2>1, <2>2
  <2>4. issued \in Nat
    BY DEF HonestInv
  <2> QED BY <2>3, <2>4
<1>6. second = Store!Issued(first, g, relink)
  OBVIOUS
<1> HIDE DEF relink, y
<1>7. /\ Store!Range(second.live) \subseteq Store!Range(first.live) \cup {y}
      /\ Store!Range(second.retired) = {Relinked(r, relink) : r \in Store!Range(first.retired)}
  <2>1. Account(first)
    BY <1>1
  <2>2. IssuedFrom(second, first, g, relink)
    BY <1>6, <2>1, IssuedOf
  <2> QED BY <2>2 DEF y, IssuedFrom
<1>8. \A r \in Store!Range(first.retired) :
        LET z == Relinked(r, relink)
        IN  /\ z.token = r.token /\ z.family = r.family /\ z.key = r.key
            /\ z.successor = IF r.token \in relink THEN issued + 1 ELSE r.successor
            /\ r.token \notin relink => z = r
  BY <1>1, RelinkedFields DEF Account
<1>9. \A f : f # g => Tombs(second, f) = Tombs(first, f)
  <2> SUFFICES ASSUME NEW f, f # g PROVE Tombs(second, f) = Tombs(first, f)
    OBVIOUS
  <2>1. \A r \in Store!Range(first.retired) :
          /\ Relinked(r, relink).family = r.family
          /\ r.family = f => Relinked(r, relink) = r
    BY <1>4, <1>8
  <2>2. ASSUME NEW z \in Tombs(second, f) PROVE z \in Tombs(first, f)
    <3>1. PICK r \in Store!Range(first.retired) : z = Relinked(r, relink)
      BY <1>7, <2>2 DEF Tombs
    <3> QED BY <2>1, <2>2, <3>1 DEF Tombs
  <2>3. ASSUME NEW r \in Tombs(first, f) PROVE r \in Tombs(second, f)
    <3>1. r \in Store!Range(first.retired) /\ r.family = f
      BY DEF Tombs
    <3>2. r = Relinked(r, relink)
      BY <2>1, <3>1
    <3>3. r \in Store!Range(second.retired)
      BY <1>7, <3>1, <3>2, Zenon
    <3> QED BY <3>1, <3>3 DEF Tombs
  <2> QED BY <2>2, <2>3
<1>10. PairsOf(second) \subseteq PairsOf(first) \cup {<<issued + 1, g>>} /\ Disjoint(second)
  BY <1>1, <1>4, <1>5, <1>6, PairsIssued
<1>11. \E z \in Store!Range(second.retired) : z.token = u
  <2>1. PICK r \in Store!Range(first.retired) : r.token = u
    BY <1>1, <1>2
  <2>2. Relinked(r, relink) \in Store!Range(second.retired)
    BY <1>7
  <2>3. Relinked(r, relink).token = u
    BY <1>8, <2>1
  <2> QED BY <2>2, <2>3
<1>12. \A z \in Store!Range(second.retired) : LinkedFrom(z, first, relink)
  <2> TAKE z \in Store!Range(second.retired)
  <2>1. PICK r \in Store!Range(first.retired) : z = Relinked(r, relink)
    BY <1>7
  <2> QED BY <1>8, <2>1 DEF LinkedFrom
<1> QED BY <1>1, <1>3, <1>7, <1>9, <1>10, <1>11, <1>12 DEF relink, SecondOf

\* A request is no concern of a sign-in that the token presented does not
\* belong to, unless a failed write has cost it a tombstone.
LEMMA ServeAside ==
  ASSUME StoreInv, HonestInv, NEW t, NEW key, NEW ends, Store!Serve(t, key, ends),
         NEW f \in Families, f \notin Store!Forgotten(ends),
         \A r \in Store!Range(mem.live) \cup Store!Range(mem.retired) : r.token = t => r.family # f
  PROVE  Aside(f) /\ stale' \subseteq stale
<1>1. Account(mem)
  BY DEF StoreInv, Sound
<1>2. CASE Ignores(t, ends)
  BY <1>2 DEF Ignores, Aside, Calm
<1>3. CASE Condemns(t, key, ends)
  <2>1. PICK g : g = Store!FamilyOf(mem.retired, t)
    OBVIOUS
  <2>2. PICK n : n = Store!Condemned(mem, g)
    OBVIOUS
  <2>3. g # f
    <3>1. Store!IsRetired(mem, t)
      BY <1>3 DEF Condemns
    <3>2. \E r \in Store!Range(mem.retired) : r.token = t /\ g = r.family
      BY <2>1, <3>1, FamilyFound DEF Store!IsRetired
    <3> QED BY <3>2
  <2>4. Store!Range(n.retired) = {r \in Store!Range(mem.retired) : r.family # g}
    BY <1>1, <2>2, CondemnedEntries
  <2>5. Narrows(n, mem)
    BY <1>1, <2>2, CondemnedNarrows
  <2>6. Tombs(n, f) = Tombs(mem, f) /\ Calm(n, mem, f)
    BY <2>3, <2>4, <2>5 DEF Tombs, Lives, Calm, Narrows
  <2>7. mem' = n /\ (disk' = n \/ disk' = disk) /\ stale' = stale
    BY <1>3, <2>1, <2>2 DEF Condemns, Store!Save
  <2> QED BY <2>6, <2>7 DEF Aside
<1>4. CASE Drops(t, ends)
  <2>1. PICK n : n = [mem EXCEPT !.live = Store!WithoutToken(@, t)]
    OBVIOUS
  <2>2. Narrows(n, mem) /\ n.retired = mem.retired
    BY <1>1, <2>1, DroppedNarrows, TombsKept
  <2>3. Tombs(n, f) = Tombs(mem, f) /\ Calm(n, mem, f)
    BY <2>2 DEF Tombs, Lives, Calm, Narrows
  <2>4. mem' = n /\ (disk' = n \/ disk' = disk) /\ stale' = stale
    BY <1>4, <2>1 DEF Drops, Store!Save
  <2> QED BY <2>3, <2>4 DEF Aside
<1>5. ASSUME NEW u, Spends(t, u, key), Expels(u, key, ends)
      PROVE  Aside(f) /\ stale' \subseteq stale
  <2>1. PICK g : g = Store!FamilyOf(mem.live, u)
    OBVIOUS
  <2>2. PICK c : c = Store!Consumed(mem, u, key)
    OBVIOUS
  <2>3. PICK n : n = Store!Invalidated(c, DeviceOf[g])
    OBVIOUS
  <2>4. g # f
    BY <1>5, <2>1, SpendsFamily
  <2>5. /\ Account(c) /\ Store!Range(c.live) \subseteq Store!Range(mem.live)
        /\ Store!Range(c.retired) = Store!Range(mem.retired) \cup {Tombstone(mem, u, key)}
    BY <1>5, <2>1, <2>2, SpentEntries
  <2>6. Narrows(n, c) /\ n.retired = c.retired
    BY <2>3, <2>5, InvalidatedNarrows, TombsKept
  <2>7. Tombstone(mem, u, key).family = g
    BY <2>1 DEF Tombstone
  <2>8. Tombs(n, f) = Tombs(mem, f) /\ Calm(n, mem, f)
    BY <2>4, <2>5, <2>6, <2>7 DEF Tombs, Lives, Calm, Narrows
  <2>9. mem' = n /\ (disk' = n \/ disk' = disk) /\ stale' \subseteq stale
    BY <1>5, <2>1, <2>2, <2>3 DEF Expels, Store!Save
  <2> QED BY <2>8, <2>9 DEF Aside
<1>6. ASSUME NEW u, Spends(t, u, key), Rotates(t, u, key, ends)
      PROVE  Aside(f) /\ stale' \subseteq stale
  <2>1. PICK g : g = Store!FamilyOf(mem.live, u)
    OBVIOUS
  <2>2. PICK first : first = Store!RetiredPruned(Store!Consumed(mem, u, key))
    OBVIOUS
  <2>3. PICK second : second = Store!Issued(first, g, {t, u})
    OBVIOUS
  <2>4. g # f
    BY <1>6, <2>1, SpendsFamily
  <2>5. /\ Store!Range(first.live) \subseteq Store!Range(mem.live)
        /\ Store!Range(first.retired) \subseteq Store!Range(mem.retired) \cup {Tombstone(mem, u, key)}
    BY <1>6, <2>1, <2>2, FirstEntries
  <2>6. Tombstone(mem, u, key).family = g
    BY <2>1 DEF Tombstone
  <2>7. Calm(first, mem, f)
    BY <2>4, <2>5, <2>6 DEF Tombs, Lives, Calm
  <2>8. /\ \A r \in Store!Range(second.live) :
              r \in Store!Range(first.live) \/ (r.token = issued + 1 /\ r.family = g)
        /\ Tombs(second, f) = Tombs(first, f)
    <3>1. SecondOf(t, u, g, first, second)
      BY <1>6, <2>1, <2>2, <2>3, SecondEntries
    <3> QED BY <2>4, <3>1 DEF SecondOf
  <2>9. Calm(second, mem, f)
    BY <2>4, <2>5, <2>7, <2>8 DEF Lives, Calm
  <2>10. Store!SaveTwice(first, second, g, ends) /\ stale' \subseteq stale
    BY <1>6, <2>1, <2>2, <2>3 DEF Rotates
  <2>11. CASE ends = "first fails"
    <3>1. mem' = first /\ disk' = disk
      BY <2>10, <2>11 DEF Store!SaveTwice
    <3>2. Tombs(mem, f) \subseteq Tombs(mem', f)
      BY <2>11 DEF Store!Forgotten, Tombs
    <3>3. Tombs(mem', f) = Tombs(mem, f)
      BY <2>7, <3>1, <3>2 DEF Calm
    <3> QED BY <2>7, <2>10, <3>1, <3>3 DEF Aside
  <2>12. CASE ends # "first fails"
    <3>1. (mem' = first \/ mem' = second) /\ (disk' = first \/ disk' = second)
      BY <2>10, <2>12 DEF Store!SaveTwice
    <3> QED BY <2>7, <2>8, <2>9, <2>10, <3>1 DEF Aside
  <2> QED BY <2>11, <2>12
<1> QED BY <1>2, <1>3, <1>4, <1>5, <1>6, ServeCases

\* A request issues one token at most, to the sign-in of the token presented.
LEMMA ServeLineage ==
  ASSUME StoreInv, HonestInv, NEW t, NEW key, NEW ends, Store!Serve(t, key, ends)
  PROVE  /\ Disjoint(mem') /\ Disjoint(disk')
         /\ \/ /\ issued' = issued
               /\ PairsOf(mem') \cup PairsOf(disk') \subseteq PairsOf(mem) \cup PairsOf(disk)
            \/ \E g : /\ issued' = issued + 1 /\ <<t, g>> \in PairsOf(mem)
                      /\ PairsOf(mem') \cup PairsOf(disk')
                           \subseteq PairsOf(mem) \cup PairsOf(disk) \cup {<<issued + 1, g>>}
<1>1. Account(mem) /\ Disjoint(mem) /\ Disjoint(disk)
  BY DEF StoreInv, Sound, HonestInv
<1>2. ASSUME NEW n, mem' = n, disk' = n \/ disk' = disk, issued' = issued,
             PairsOf(n) \subseteq PairsOf(mem), Disjoint(n)
      PROVE  /\ Disjoint(mem') /\ Disjoint(disk') /\ issued' = issued
             /\ PairsOf(mem') \cup PairsOf(disk') \subseteq PairsOf(mem) \cup PairsOf(disk)
  BY <1>1, <1>2
<1>3. ASSUME NEW n, Narrows(n, mem) PROVE PairsOf(n) \subseteq PairsOf(mem) /\ Disjoint(n)
  BY <1>1, <1>3, PairsNarrow DEF Narrows
<1>4. CASE Ignores(t, ends)
  BY <1>1, <1>4 DEF Ignores
<1>5. CASE Condemns(t, key, ends)
  <2>1. PICK n : n = Store!Condemned(mem, Store!FamilyOf(mem.retired, t))
    OBVIOUS
  <2>2. Narrows(n, mem)
    BY <1>1, <2>1, CondemnedNarrows
  <2>3. mem' = n /\ (disk' = n \/ disk' = disk) /\ issued' = issued
    BY <1>5, <2>1 DEF Condemns, Store!Save
  <2> QED BY <1>2, <1>3, <2>2, <2>3
<1>6. CASE Drops(t, ends)
  <2>1. PICK n : n = [mem EXCEPT !.live = Store!WithoutToken(@, t)]
    OBVIOUS
  <2>2. Narrows(n, mem)
    BY <1>1, <2>1, DroppedNarrows
  <2>3. mem' = n /\ (disk' = n \/ disk' = disk) /\ issued' = issued
    BY <1>6, <2>1 DEF Drops, Store!Save
  <2> QED BY <1>2, <1>3, <2>2, <2>3
<1>7. ASSUME NEW u, Spends(t, u, key), Expels(u, key, ends)
      PROVE  /\ Disjoint(mem') /\ Disjoint(disk') /\ issued' = issued
             /\ PairsOf(mem') \cup PairsOf(disk') \subseteq PairsOf(mem) \cup PairsOf(disk)
  <2>1. PICK c : c = Store!Consumed(mem, u, key)
    OBVIOUS
  <2>2. PICK n : n = Store!Invalidated(c, DeviceOf[Store!FamilyOf(mem.live, u)])
    OBVIOUS
  <2>3. Account(c) /\ PairsOf(c) \subseteq PairsOf(mem) /\ Disjoint(c)
    BY <1>7, <2>1, SpentEntries
  <2>4. Narrows(n, c)
    BY <2>2, <2>3, InvalidatedNarrows
  <2>5. PairsOf(n) \subseteq PairsOf(c) /\ Disjoint(n)
    BY <2>3, <2>4, PairsNarrow DEF Narrows
  <2>6. mem' = n /\ (disk' = n \/ disk' = disk) /\ issued' = issued
    BY <1>7, <2>1, <2>2 DEF Expels, Store!Save
  <2> QED BY <1>2, <2>3, <2>5, <2>6
<1>8. ASSUME NEW u, Spends(t, u, key), Rotates(t, u, key, ends)
      PROVE  /\ Disjoint(mem') /\ Disjoint(disk')
             /\ \/ /\ issued' = issued
                   /\ PairsOf(mem') \cup PairsOf(disk') \subseteq PairsOf(mem) \cup PairsOf(disk)
                \/ \E g : /\ issued' = issued + 1 /\ <<t, g>> \in PairsOf(mem)
                          /\ PairsOf(mem') \cup PairsOf(disk')
                               \subseteq PairsOf(mem) \cup PairsOf(disk) \cup {<<issued + 1, g>>}
  <2>1. PICK g : g = Store!FamilyOf(mem.live, u)
    OBVIOUS
  <2>2. PICK first : first = Store!RetiredPruned(Store!Consumed(mem, u, key))
    OBVIOUS
  <2>3. PICK second : second = Store!Issued(first, g, {t, u})
    OBVIOUS
  <2>4. PairsOf(first) \subseteq PairsOf(mem) /\ Disjoint(first)
    BY <1>8, <2>1, <2>2, FirstEntries
  <2>5. PairsOf(second) \subseteq PairsOf(mem) \cup {<<issued + 1, g>>} /\ Disjoint(second)
    <3>1. SecondOf(t, u, g, first, second)
      BY <1>8, <2>1, <2>2, <2>3, SecondEntries
    <3> QED BY <3>1 DEF SecondOf
  <2>6. <<t, g>> \in PairsOf(mem)
    BY <1>8, <2>1, SpendsFamily, PairsHold
  <2>7. Store!SaveTwice(first, second, g, ends)
    BY <1>8, <2>1, <2>2, <2>3 DEF Rotates
  <2>8. \/ mem' = first /\ (disk' = first \/ disk' = disk) /\ issued' = issued
        \/ mem' = second /\ (disk' = first \/ disk' = second) /\ issued' = issued + 1
    BY <2>7 DEF Store!SaveTwice
  <2> QED BY <1>1, <2>4, <2>5, <2>6, <2>8
<1> QED BY <1>4, <1>5, <1>6, <1>7, <1>8, ServeCases

\* A function has no more values than arguments.
LEMMA ImageBound ==
  ASSUME NEW S, IsFiniteSet(S), NEW T, NEW h \in [S -> T], \A y \in T : \E x \in S : h[x] = y
  PROVE  IsFiniteSet(T) /\ Cardinality(T) \in Nat /\ Cardinality(T) <= Cardinality(S)
<1>1. h \in Surjection(S, T)
  BY DEF Surjection
<1> QED BY <1>1, FS_Surjection, FS_CardinalityType

\* The keys of a list of tombstones are no more than the list is long.
LEMMA KeysOfList ==
  ASSUME NEW s, s \in Seq(Store!Range(s))
  PROVE  LET keys == {r.key : r \in Store!Range(s)}
         IN  IsFiniteSet(keys) /\ Cardinality(keys) \in Nat /\ Cardinality(keys) <= Len(s)
<1> DEFINE keys == {r.key : r \in Store!Range(s)}
           h == [i \in 1 .. Len(s) |-> s[i].key]
           D == 1 .. Len(s)
<1>1. Len(s) \in Nat /\ DOMAIN s = 1 .. Len(s)
  OBVIOUS
<1>2. IsFiniteSet(D) /\ Cardinality(D) = Len(s)
  BY <1>1, FS_Interval
<1>3. h \in [D -> keys] /\ \A y \in keys : \E x \in D : h[x] = y
  BY <1>1 DEF Store!Range
<1> HIDE DEF keys, h, D
<1>4. IsFiniteSet(keys) /\ Cardinality(keys) \in Nat /\ Cardinality(keys) <= Cardinality(D)
  BY <1>2, <1>3, ImageBound
<1> QED BY <1>2, <1>4 DEF keys

\* A union is no larger than its parts together.
LEMMA UnionBound ==
  ASSUME NEW S, IsFiniteSet(S), NEW T, IsFiniteSet(T)
  PROVE  /\ IsFiniteSet(S \cup T) /\ Cardinality(S \cup T) \in Nat
         /\ Cardinality(S \cup T) <= Cardinality(S) + Cardinality(T)
<1>1. IsFiniteSet(S \cap T)
  BY FS_Intersection
<1>2. Cardinality(S) \in Nat /\ Cardinality(T) \in Nat /\ Cardinality(S \cap T) \in Nat
  BY <1>1, FS_CardinalityType
<1>3. /\ IsFiniteSet(S \cup T)
      /\ Cardinality(S \cup T) = Cardinality(S) + Cardinality(T) - Cardinality(S \cap T)
  BY FS_Union
<1>4. Cardinality(S \cup T) \in Nat
  BY <1>3, FS_CardinalityType
<1> QED BY <1>2, <1>3, <1>4

\* There is always a key that nothing remembers.
LEMMA KeyIsFound ==
  ASSUME StoreInv, NEW f \in Families
  PROVE  Store!KeyOf(f) # None
<1> DEFINE A == {r.key : r \in Store!Range(mem.retired)}
           B == {r.key : r \in Store!Range(disk.retired)}
           C == {client[g].key : g \in Families}
           n == Len(mem.retired) + Len(disk.retired) + Cardinality(Families) + 1
           h == [g \in Families |-> client[g].key]
<1>1. mem.retired \in Seq(Store!Range(mem.retired)) /\ disk.retired \in Seq(Store!Range(disk.retired))
  BY DEF StoreInv, Sound, Account
<1>2. /\ IsFiniteSet(A) /\ Cardinality(A) \in Nat /\ Cardinality(A) <= Len(mem.retired)
      /\ IsFiniteSet(B) /\ Cardinality(B) \in Nat /\ Cardinality(B) <= Len(disk.retired)
      /\ Len(mem.retired) \in Nat /\ Len(disk.retired) \in Nat
  BY <1>1, KeysOfList
<1>3. IsFiniteSet(Families) /\ Cardinality(Families) \in Nat
  BY RecordAssumption, FS_CardinalityType
<1>4. h \in [Families -> C] /\ \A y \in C : \E x \in Families : h[x] = y
  OBVIOUS
<1>5. Store!Remembered = A \cup B \cup C
  BY DEF Store!Remembered
<1>6. Store!KeySpace = 1 .. n
  BY StoreCounts DEF Store!KeySpace
<1> HIDE DEF A, B, C, h, n
<1>7. IsFiniteSet(C) /\ Cardinality(C) \in Nat /\ Cardinality(C) <= Cardinality(Families)
  BY <1>3, <1>4, ImageBound
<1>8. /\ IsFiniteSet(A \cup B) /\ Cardinality(A \cup B) \in Nat
      /\ Cardinality(A \cup B) <= Cardinality(A) + Cardinality(B)
  BY <1>2, UnionBound
<1>9. /\ IsFiniteSet(A \cup B \cup C) /\ Cardinality(A \cup B \cup C) \in Nat
      /\ Cardinality(A \cup B \cup C) <= Cardinality(A \cup B) + Cardinality(C)
  BY <1>7, <1>8, UnionBound
<1>10. n \in Nat /\ Cardinality(A \cup B \cup C) < n
  <2>1. \A a, b, c, l, m, k, x, y \in Nat :
          a <= l /\ b <= m /\ c <= k /\ x <= a + b /\ y <= x + c => y < l + m + k + 1
    OBVIOUS
  <2>2. Cardinality(A \cup B \cup C) < n
    BY <1>2, <1>3, <1>7, <1>8, <1>9, <2>1 DEF n
  <2>3. \A l, m, k \in Nat : l + m + k + 1 \in Nat
    OBVIOUS
  <2>4. n \in Nat
    BY <1>2, <1>3, <2>3 DEF n
  <2> QED BY <2>2, <2>4
<1>11. \E key \in Store!KeySpace : key \notin Store!Remembered
  <2> SUFFICES ASSUME 1 .. n \subseteq A \cup B \cup C PROVE FALSE
    BY <1>5, <1>6
  <2>1. Cardinality(1 .. n) = n
    BY <1>10, FS_Interval
  <2>2. Cardinality(1 .. n) <= Cardinality(A \cup B \cup C)
    BY <1>9, FS_Subset
  <2> QED BY <1>9, <1>10, <2>1, <2>2
<1>12. \A key \in Store!KeySpace : key # None
  BY <1>6, <1>10, RecordAssumption
<1> QED BY <1>11, <1>12 DEF Store!KeyOf

\* A retry that cannot be taken for a theft: the token has no tombstone, or
\* the sign-in no live token, or the token has expired.
LEMMA Harmless ==
  ASSUME NEW f, NEW c, NEW m, NEW d, NEW old, NEW over, c.token \notin over
  PROVE  /\ /\ Tombs(m, f) # {} => Tombs(d, f) # {}
            /\ c.token > old => \A r \in Tombs(m, f) \cup Tombs(d, f) : r.token # c.token
            => Answered(f, c, m, d, old, over)
         /\ m = d /\ Lives(m, f) = {} => Answered(f, c, m, d, old, over)
         /\ m = d /\ ~(c.token > old) => Answered(f, c, m, d, old, over)
         /\ m = d /\ Answerable(m, f, c) => Answered(f, c, m, d, old, over)
BY DEF Answered, Answerable

\* What a client's request leaves, if both saves succeed: the next retry is
\* answered, whether or not the client hears of this one.
LEMMA ServeOwn ==
  ASSUME StoreInv, HonestInv, NEW f \in Families, f \notin disturbed,
         NEW t, t = client[f].token, t # None,
         NEW key, key = Store!KeyOf(f), Store!Serve(t, key, "saved"),
         NEW c,
         \/ c.token = t /\ c.key = key
         \/ c.token = t /\ issued' = issued
         \/ c.token = issued + 1 /\ issued' = issued + 1
  PROVE  Answered(f, c, mem', disk', expired, stale')
<1>1. Account(mem)
  BY DEF StoreInv, Sound
<1>2. Answered(f, client[f], mem, disk, expired, stale)
  BY DEF HonestInv
<1>3. t \notin stale /\ issued \in Nat /\ expired \in Nat /\ stale \subseteq 1 .. issued
  BY <1>2 DEF Answered, HonestInv
<1>4. /\ t \in 1 .. issued
      /\ \A r \in Store!Range(mem.live) \cup Store!Range(mem.retired) : r.token = t => r.family = f
  <2> DEFINE P == PairsOf(mem) \cup PairsOf(disk) \cup ClientPairs(client)
  <2>1. <<t, f>> \in P
    BY DEF ClientPairs
  <2>2. \A r \in Store!Range(mem.live) \cup Store!Range(mem.retired) : <<r.token, r.family>> \in P
    BY PairsHold
  <2>3. /\ \A p \in P : p[1] \in 1 .. issued
        /\ \A p, q \in P : p[1] = q[1] => p[2] = q[2]
    BY DEF HonestInv, Lineage
  <2> HIDE DEF P
  <2>4. <<t, f>>[1] \in 1 .. issued
    BY <2>1, <2>3
  <2>5. \A r \in Store!Range(mem.live) \cup Store!Range(mem.retired) :
          <<r.token, r.family>>[1] = <<t, f>>[1] => <<r.token, r.family>>[2] = <<t, f>>[2]
    BY <2>1, <2>2, <2>3
  <2> QED BY <2>4, <2>5
<1>5. CASE Ignores(t, "saved")
  <2>1. ~Store!IsRetired(mem, t)
    BY <1>5 DEF Ignores
  <2>2. mem' = mem /\ disk' = disk /\ issued' = issued /\ stale' = stale
    BY <1>5 DEF Ignores
  <2>3. c.token = t
    BY <1>3, <2>2
  <2>4. t > expired => \A r \in Tombs(mem, f) : r.token # t
    BY <2>1 DEF Store!IsRetired, Store!Find, Tombs
  <2>5. t > expired => \A r \in Tombs(disk, f) : r.token # t
    BY <1>2, <2>4 DEF Answered
  <2>6. Tombs(mem, f) # {} => Tombs(disk, f) # {}
    BY <1>2 DEF Answered
  <2> QED BY <1>3, <2>2, <2>3, <2>4, <2>5, <2>6, Harmless
<1>6. CASE Condemns(t, key, "saved")
  <2>1. Store!IsRetired(mem, t)
    BY <1>6 DEF Condemns
  <2>2. Store!FamilyOf(mem.retired, t) = f
    BY <1>4, <2>1, FamilyFound DEF Store!IsRetired
  <2>3. /\ mem' = Store!Condemned(mem, f) /\ disk' = mem'
        /\ issued' = issued /\ stale' = stale
    BY <1>6, <2>2 DEF Condemns, Store!Save
  <2>4. Lives(mem', f) = {}
    BY <1>1, <2>3, CondemnedNarrows DEF Lives
  <2>5. c.token = t
    BY <1>3, <2>3
  <2> QED BY <1>3, <2>3, <2>4, <2>5, Harmless
<1>7. CASE Drops(t, "saved")
  <2>1. t <= expired /\ disk' = mem' /\ issued' = issued /\ stale' = stale
    BY <1>7 DEF Drops, Store!Save
  <2>2. c.token = t /\ ~(c.token > expired)
    BY <1>3, <1>4, <2>1
  <2> QED BY <1>3, <2>1, <2>2, Harmless
<1>8. ASSUME NEW u, Spends(t, u, key), Expels(u, key, "saved")
      PROVE  Answered(f, c, mem', disk', expired, stale')
  <2>1. PICK g : g = Store!FamilyOf(mem.live, u)
    OBVIOUS
  <2>2. PICK n : n = Store!Consumed(mem, u, key)
    OBVIOUS
  <2>3. g = f
    BY <1>4, <1>8, <2>1, SpendsFamily
  <2>4. Account(n) /\ \A r \in Store!Range(n.live) : r.family # g
    BY <1>8, <2>1, <2>2, SpentEntries
  <2>5. /\ mem' = Store!Invalidated(n, DeviceOf[g]) /\ disk' = mem'
        /\ issued' = issued /\ stale' \subseteq stale
    BY <1>8, <2>1, <2>2 DEF Expels, Store!Save
  <2>6. Narrows(mem', n)
    BY <2>4, <2>5, InvalidatedNarrows
  <2>7. Lives(mem', f) = {}
    BY <2>3, <2>4, <2>6 DEF Lives, Narrows
  <2>8. c.token = t
    BY <1>3, <2>5
  <2> QED BY <1>3, <2>5, <2>7, <2>8, Harmless
<1>9. ASSUME NEW u, Spends(t, u, key), Rotates(t, u, key, "saved")
      PROVE  Answered(f, c, mem', disk', expired, stale')
  <2>1. PICK g : g = Store!FamilyOf(mem.live, u)
    OBVIOUS
  <2>2. PICK first : first = Store!RetiredPruned(Store!Consumed(mem, u, key))
    OBVIOUS
  <2>3. PICK second : second = Store!Issued(first, g, {t, u})
    OBVIOUS
  <2>4. g = f
    BY <1>4, <1>9, <2>1, SpendsFamily
  <2>5. /\ mem' = second /\ disk' = second /\ issued' = issued + 1 /\ stale' \subseteq stale
    BY <1>9, <2>1, <2>2, <2>3 DEF Rotates, Store!SaveTwice
  <2>6. /\ \A r \in Store!Range(first.live) : r.family # g
        /\ Store!Range(first.retired) \subseteq Store!Range(mem.retired) \cup {Tombstone(mem, u, key)}
        /\ PairsOf(first) \subseteq PairsOf(mem)
    BY <1>9, <2>1, <2>2, FirstEntries
  <2>7. /\ \A r \in Store!Range(second.live) :
              r \in Store!Range(first.live) \/ (r.token = issued + 1 /\ r.family = g)
        /\ \A z \in Store!Range(second.retired) : LinkedFrom(z, first, {t, u})
    <3>1. SecondOf(t, u, g, first, second)
      BY <1>9, <2>1, <2>2, <2>3, SecondEntries
    <3> QED BY <3>1 DEF SecondOf
  <2>8. \A q \in Lives(second, f) : q.token = issued + 1
    BY <2>4, <2>6, <2>7 DEF Lives
  <2>9. CASE c.token = issued + 1
    <3>1. \A p \in PairsOf(mem) : p[1] \in 1 .. issued
      BY DEF HonestInv, Lineage
    <3>2. \A r \in Store!Range(first.retired) : <<r.token, r.family>>[1] \in 1 .. issued
      BY <2>6, <3>1, PairsHold
    <3>3. \A r \in Store!Range(first.retired) : r.token # issued + 1
      BY <1>3, <3>2
    <3>4. \A r \in Tombs(second, f) : r.token # c.token
      BY <2>7, <2>9, <3>3 DEF Tombs, LinkedFrom
    <3>5. c.token \notin stale'
      BY <1>3, <2>5, <2>9
    <3> QED BY <2>5, <3>4, <3>5, Harmless
  <2>10. CASE c.token = t /\ c.key = key
    <3>1. key # None
      BY KeyIsFound
    <3>2. Tombstone(mem, u, key).token = u /\ Tombstone(mem, u, key).key = key
      BY DEF Tombstone
    <3>3. \A r \in Store!Range(first.retired) : r.token = t => r.key = key
      <4>1. \A r \in Tombs(mem, f) : r.token = t => r.key = key
        <5>1. CASE t = u
          <6>1. \E q \in Store!Range(mem.live) : q.token = t
            BY <1>9, <2>1, <5>1, SpendsFamily
          <6>2. Disjoint(mem)
            BY DEF HonestInv
          <6> QED BY <6>1, <6>2 DEF Disjoint, Tombs
        <5>2. CASE t # u
          <6>1. Store!IsRetired(mem, t)
            BY <1>9, <5>2 DEF Spends
          <6>2. \E q \in Lives(mem, f) : TRUE
            <7>1. \E q \in Store!Range(mem.live) : q.token = u /\ q.family = g
              BY <1>9, <2>1, SpendsFamily
            <7> QED BY <2>4, <7>1 DEF Lives
          <6>3. t > expired
            BY <6>1 DEF Store!IsRetired
          <6>4. Answerable(mem, f, client[f])
            BY <1>2, <6>3 DEF Answered
          <6>5. \A r \in Tombs(mem, f) : r.token = t => client[f].key # None /\ r.key = client[f].key
            BY <6>2, <6>4 DEF Answerable
          <6>6. client[f].key # None => key = client[f].key
            BY DEF Store!KeyOf
          <6> QED BY <6>5, <6>6
        <5> QED BY <5>1, <5>2
      <4>2. \A r \in Store!Range(mem.retired) : r.token = t => r \in Tombs(mem, f)
        BY <1>4 DEF Tombs
      <4> QED BY <2>6, <3>2, <4>1, <4>2
    <3>4. Answerable(second, f, c)
      <4> SUFFICES ASSUME NEW z \in Tombs(second, f), NEW q \in Lives(second, f), z.token = c.token
                   PROVE  c.key # None /\ z.key = c.key /\ z.successor = q.token
        BY DEF Answerable
      <4>1. PICK r \in Store!Range(first.retired) :
              /\ z.token = r.token /\ z.key = r.key
              /\ r.token \in {t, u} => z.successor = issued + 1
        BY <2>7 DEF Tombs, LinkedFrom
      <4> QED BY <2>8, <2>10, <3>1, <3>3, <4>1
    <3>5. c.token \notin stale'
      BY <1>3, <2>5, <2>10
    <3> QED BY <2>5, <3>4, <3>5, Harmless
  <2>11. issued' # issued
    BY <1>3, <2>5
  <2> QED BY <2>9, <2>10, <2>11
<1> QED BY <1>5, <1>6, <1>7, <1>8, <1>9, ServeCases

\* A request ends the grace of no token.
LEMMA ServeStale ==
  ASSUME HonestInv, NEW t, NEW key, NEW ends, Store!Serve(t, key, ends)
  PROVE  stale' \subseteq stale
<1>1. CASE Ignores(t, ends) \/ Condemns(t, key, ends) \/ Drops(t, ends)
  BY <1>1 DEF Ignores, Condemns, Drops
<1>2. ASSUME NEW u, Expels(u, key, ends) \/ Rotates(t, u, key, ends)
      PROVE  stale' \subseteq stale
  BY <1>2 DEF Expels, Rotates
<1> QED BY <1>1, <1>2, ServeCases

\* What a client holds after it was given a key and a token.
LEMMA ClientHolds ==
  ASSUME ClientState(client), NEW f \in Families, NEW key, NEW token,
         client' = [client EXCEPT ![f].key = key, ![f].token = token]
  PROVE  /\ client'[f].token = token /\ client'[f].key = key
         /\ \A g \in Families : g # f => client'[g] = client[g]
         /\ \A p \in ClientPairs(client') :
               p \in ClientPairs(client) \/ (p = <<token, f>> /\ token # None)
<1>1. \A g \in Families : g # f => client'[g] = client[g]
  BY DEF ClientState
<1>2. client[f] \in [began : BOOLEAN, token : {client[f].token}, key : {client[f].key}]
  BY DEF ClientState
<1>3. client'[f] = [client[f] EXCEPT !.key = key, !.token = token]
  BY DEF ClientState
<1>4. client'[f].token = token /\ client'[f].key = key
  BY <1>2, <1>3
<1>5. \A p \in ClientPairs(client') :
        p \in ClientPairs(client) \/ (p = <<token, f>> /\ token # None)
  <2> TAKE p \in ClientPairs(client')
  <2>1. PICK g \in Families : client'[g].token # None /\ p = <<client'[g].token, g>>
    BY DEF ClientPairs
  <2>2. CASE g = f
    BY <1>4, <2>1, <2>2
  <2>3. CASE g # f
    BY <1>1, <2>1, <2>3 DEF ClientPairs
  <2> QED BY <2>2, <2>3
<1> QED BY <1>1, <1>4, <1>5

\* A client's request and its answer keep every undisturbed retry answered.
LEMMA RefreshHonest ==
  ASSUME StoreInv, HonestInv, NEW f \in Families, NEW ends, NEW delivered \in BOOLEAN,
         Store!Refresh(f, ends, delivered)
  PROVE  HonestInv'
<1> DEFINE P == PairsOf(mem) \cup PairsOf(disk) \cup ClientPairs(client)
           Q == PairsOf(mem') \cup PairsOf(disk') \cup ClientPairs(client')
<1>1. PICK t, key : t = client[f].token /\ key = Store!KeyOf(f)
  OBVIOUS
<1>2. PICK token, kept :
        /\ client' = [client EXCEPT ![f].key = kept, ![f].token = token]
        /\ \/ token = t /\ kept = key
           \/ token = t /\ ~(issued' > issued)
           \/ token = t /\ ends # "saved"
           \/ token = issued' /\ issued' > issued
  <2> DEFINE answered == delivered /\ ends # "crash"
             granted == answered /\ ends = "saved" /\ issued' > issued
             kept == IF answered THEN None ELSE Store!KeyOf(f)
             token == IF granted THEN issued' ELSE client[f].token
  <2>1. client' = [client EXCEPT ![f].key = kept, ![f].token = token]
    <3>1. client' = [client EXCEPT ![f].key = kept, ![f].token = IF granted THEN issued' ELSE @]
      BY DEF Store!Refresh
    <3> QED BY <3>1 DEF StoreInv, ClientState
  <2>2. \/ token = t /\ kept = key
        \/ token = t /\ ~(issued' > issued)
        \/ token = t /\ ends # "saved"
        \/ token = issued' /\ issued' > issued
    BY <1>1
  <2> QED BY <2>1, <2>2
<1>3. /\ t # None /\ Store!Serve(t, key, ends) /\ expired' = expired
      /\ disturbed' = disturbed \cup Store!Forgotten(ends) \cup IF ends = "saved" THEN {} ELSE {f}
  BY <1>1 DEF Store!Refresh, Store!SignedIn
<1>4. ClientState(client) /\ issued \in Nat /\ Lineage(P, issued)
  BY DEF StoreInv, HonestInv
<1>5. /\ client'[f].token = token /\ client'[f].key = kept
      /\ \A g \in Families : g # f => client'[g] = client[g]
      /\ \A p \in ClientPairs(client') :
            p \in ClientPairs(client) \/ (p = <<token, f>> /\ token # None)
  BY <1>2, <1>4, ClientHolds
<1>6. /\ Disjoint(mem') /\ Disjoint(disk')
      /\ \/ /\ issued' = issued
            /\ PairsOf(mem') \cup PairsOf(disk') \subseteq PairsOf(mem) \cup PairsOf(disk)
         \/ \E g : /\ issued' = issued + 1 /\ <<t, g>> \in PairsOf(mem)
                   /\ PairsOf(mem') \cup PairsOf(disk')
                        \subseteq PairsOf(mem) \cup PairsOf(disk) \cup {<<issued + 1, g>>}
  BY <1>3, ServeLineage
<1>7. <<t, f>> \in P
  BY <1>1, <1>3 DEF ClientPairs
<1>8. \/ issued' = issued /\ Q \subseteq P
      \/ issued' = issued + 1 /\ Q \subseteq P \cup {<<issued + 1, f>>}
  <2>1. CASE /\ issued' = issued
             /\ PairsOf(mem') \cup PairsOf(disk') \subseteq PairsOf(mem) \cup PairsOf(disk)
    <3>1. token = t
      BY <1>2, <1>4, <2>1
    <3>2. ClientPairs(client') \subseteq P
      BY <1>5, <1>7, <3>1
    <3> QED BY <2>1, <3>2
  <2>2. CASE \E g : /\ issued' = issued + 1 /\ <<t, g>> \in PairsOf(mem)
                    /\ PairsOf(mem') \cup PairsOf(disk')
                         \subseteq PairsOf(mem) \cup PairsOf(disk) \cup {<<issued + 1, g>>}
    <3>1. PICK g : /\ issued' = issued + 1 /\ <<t, g>> \in PairsOf(mem)
                   /\ PairsOf(mem') \cup PairsOf(disk')
                        \subseteq PairsOf(mem) \cup PairsOf(disk) \cup {<<issued + 1, g>>}
      BY <2>2
    <3>2. g = f
      <4>1. \A p, q \in P : p[1] = q[1] => p[2] = q[2]
        BY <1>4 DEF Lineage
      <4>2. <<t, g>> \in P
        BY <3>1
      <4> HIDE DEF P
      <4>3. <<t, g>>[2] = <<t, f>>[2]
        BY <1>7, <4>1, <4>2
      <4> QED BY <4>3
    <3>3. token = t \/ token = issued + 1
      BY <1>2, <3>1
    <3>4. ClientPairs(client') \subseteq P \cup {<<issued + 1, f>>}
      BY <1>5, <1>7, <3>3
    <3> QED BY <3>1, <3>2, <3>4
  <2> QED BY <1>6, <2>1, <2>2
<1> HIDE DEF P
<1>9. issued' \in Nat /\ expired' \in 0 .. issued' /\ stale' \subseteq 1 .. issued'
  <2>1. stale' \subseteq stale
    BY <1>3, ServeStale
  <2> QED BY <1>3, <1>4, <1>8, <2>1 DEF HonestInv
<1>10. Lineage(Q, issued')
  <2> HIDE DEF Q
  <2>1. Q \subseteq P => Lineage(Q, issued)
    BY <1>4, LineageGrows
  <2>2. Q \subseteq P \cup {<<issued + 1, f>>} => Lineage(Q, issued + 1)
    BY <1>4, LineageGrows
  <2> QED BY <1>8, <2>1, <2>2
<1>11. ASSUME NEW g \in Families \ disturbed'
       PROVE  Answered(g, client'[g], mem', disk', expired', stale')
  <2>1. g \notin disturbed /\ g \notin Store!Forgotten(ends) /\ (g = f => ends = "saved")
    BY <1>3
  <2>2. CASE g = f
    <3>1. ends = "saved" /\ Store!Serve(t, key, "saved")
      BY <1>3, <2>1, <2>2
    <3>2. issued' = issued \/ issued' = issued + 1
      BY <1>8
    <3>3. \/ client'[f].token = t /\ client'[f].key = key
          \/ client'[f].token = t /\ issued' = issued
          \/ client'[f].token = issued + 1 /\ issued' = issued + 1
      BY <1>2, <1>4, <1>5, <3>1, <3>2
    <3>4. PICK c : c = client'[f]
      OBVIOUS
    <3>5. Answered(f, c, mem', disk', expired, stale')
      BY <1>1, <1>3, <2>1, <2>2, <3>1, <3>3, <3>4, ServeOwn
    <3> QED BY <1>3, <2>2, <3>4, <3>5
  <2>3. CASE g # f
    <3>1. \A r \in Store!Range(mem.live) \cup Store!Range(mem.retired) : r.token = t => r.family # g
      <4>1. \A r \in Store!Range(mem.live) \cup Store!Range(mem.retired) : <<r.token, r.family>> \in P
        BY PairsHold DEF P
      <4>2. \A p, q \in P : p[1] = q[1] => p[2] = q[2]
        BY <1>4 DEF Lineage
      <4>3. \A r \in Store!Range(mem.live) \cup Store!Range(mem.retired) :
              <<r.token, r.family>>[1] = <<t, f>>[1] => <<r.token, r.family>>[2] = <<t, f>>[2]
        BY <1>7, <4>1, <4>2
      <4> QED BY <2>3, <4>3
    <3>2. Aside(g) /\ stale' \subseteq stale
      BY <1>3, <2>1, <3>1, ServeAside
    <3>3. Answered(g, client[g], mem, disk, expired, stale)
      BY <2>1 DEF HonestInv
    <3>4. PICK c : c = client[g]
      OBVIOUS
    <3>5. Answered(g, c, mem', disk', expired, stale')
      BY <3>2, <3>3, <3>4, AsideAnswered
    <3>6. client'[g] = c
      BY <1>5, <2>3, <3>4
    <3> QED BY <1>3, <3>5, <3>6
  <2> QED BY <2>2, <2>3
<1> QED BY <1>6, <1>9, <1>10, <1>11 DEF HonestInv

\* So does a token somebody else presents.
LEMMA ReplayHonest ==
  ASSUME StoreInv, HonestInv, NEW t, NEW key, NEW ends, Store!Replay(t, key, ends)
  PROVE  HonestInv'
<1> DEFINE P == PairsOf(mem) \cup PairsOf(disk) \cup ClientPairs(client)
           Q == PairsOf(mem') \cup PairsOf(disk') \cup ClientPairs(client')
           known == Store!Find(mem.live, t) \cup Store!Find(mem.retired, t)
<1>1. /\ Store!Serve(t, key, ends) /\ expired' = expired /\ client' = client
      /\ disturbed' = disturbed \cup Store!Forgotten(ends) \cup {r.family : r \in known}
  BY DEF Store!Replay
<1>2. issued \in Nat /\ Lineage(P, issued)
  BY DEF HonestInv
<1>3. /\ Disjoint(mem') /\ Disjoint(disk')
      /\ \/ /\ issued' = issued
            /\ PairsOf(mem') \cup PairsOf(disk') \subseteq PairsOf(mem) \cup PairsOf(disk)
         \/ \E g : /\ issued' = issued + 1
                   /\ PairsOf(mem') \cup PairsOf(disk')
                        \subseteq PairsOf(mem) \cup PairsOf(disk) \cup {<<issued + 1, g>>}
  BY <1>1, ServeLineage
<1>4. \/ issued' = issued /\ Q \subseteq P
      \/ \E g : issued' = issued + 1 /\ Q \subseteq P \cup {<<issued + 1, g>>}
  BY <1>1, <1>3
<1>5. issued' \in Nat /\ expired' \in 0 .. issued' /\ stale' \subseteq 1 .. issued'
  <2>1. stale' \subseteq stale
    BY <1>1, ServeStale
  <2> QED BY <1>1, <1>2, <1>3, <2>1 DEF HonestInv
<1>6. Lineage(Q, issued')
  <2> HIDE DEF P, Q
  <2>1. Q \subseteq P => Lineage(Q, issued)
    BY <1>2, LineageGrows
  <2>2. \A g : Q \subseteq P \cup {<<issued + 1, g>>} => Lineage(Q, issued + 1)
    BY <1>2, LineageGrows
  <2> QED BY <1>4, <2>1, <2>2
<1>7. ASSUME NEW g \in Families \ disturbed'
      PROVE  Answered(g, client'[g], mem', disk', expired', stale')
  <2>1. g \notin disturbed /\ g \notin Store!Forgotten(ends) /\ \A r \in known : r.family # g
    BY <1>1
  <2>2. \A r \in Store!Range(mem.live) \cup Store!Range(mem.retired) : r.token = t => r.family # g
    BY <2>1 DEF Store!Find
  <2>3. Aside(g) /\ stale' \subseteq stale
    BY <1>1, <2>1, <2>2, ServeAside
  <2>4. PICK c : c = client[g]
    OBVIOUS
  <2>5. Answered(g, c, mem, disk, expired, stale)
    BY <2>1, <2>4 DEF HonestInv
  <2>6. Answered(g, c, mem', disk', expired, stale')
    BY <2>3, <2>5, AsideAnswered
  <2> QED BY <1>1, <2>4, <2>6
<1> QED BY <1>3, <1>5, <1>6, <1>7 DEF HonestInv

\* A client that spends or makes a key for a request that is not served.
LEMMA ClientHonest ==
  ASSUME StoreInv, HonestInv, NEW f \in Families,
         Store!RefreshLost(f) \/ Store!RefreshRefused(f) \/ Store!ClearCredentials(f)
  PROVE  HonestInv'
<1>1. UNCHANGED <<mem, disk, issued, expired, stale>> /\ disturbed \subseteq disturbed'
  BY DEF Store!RefreshLost, Store!RefreshRefused, Store!ClearCredentials, Store!history
<1>2. PICK t : t = client[f].token
  OBVIOUS
<1>3. PICK token, kept :
        /\ client' = [client EXCEPT ![f].key = kept, ![f].token = token]
        /\ \/ token = t /\ kept = Store!KeyOf(f)
           \/ token = t /\ (f \notin disturbed' => Store!IsLive(mem, t))
           \/ token = None
  <2>1. CASE Store!RefreshLost(f)
    <3>1. client' = [client EXCEPT ![f].key = Store!KeyOf(f)]
      BY <2>1 DEF Store!RefreshLost
    <3>2. client' = [client EXCEPT ![f].key = Store!KeyOf(f), ![f].token = client[f].token]
      BY <3>1 DEF StoreInv, ClientState
    <3> QED BY <1>2, <3>2
  <2>2. CASE Store!RefreshRefused(f)
    <3>1. client' = [client EXCEPT ![f].key = None]
      BY <2>2 DEF Store!RefreshRefused
    <3>2. client' = [client EXCEPT ![f].key = None, ![f].token = client[f].token]
      BY <3>1 DEF StoreInv, ClientState
    <3>3. f \notin disturbed' => Store!IsLive(mem, client[f].token)
      BY <2>2 DEF Store!RefreshRefused
    <3> QED BY <1>2, <3>2, <3>3
  <2>3. CASE Store!ClearCredentials(f)
    <3>1. client' = [client EXCEPT ![f].token = None, ![f].key = None]
      BY <2>3 DEF Store!ClearCredentials
    <3>2. client' = [client EXCEPT ![f].key = None, ![f].token = None]
      BY <3>1 DEF StoreInv, ClientState
    <3> QED BY <3>2
  <2> QED BY <2>1, <2>2, <2>3
<1>4. ClientState(client)
  BY DEF StoreInv
<1>5. /\ client'[f].token = token /\ client'[f].key = kept
      /\ \A g \in Families : g # f => client'[g] = client[g]
      /\ \A p \in ClientPairs(client') :
            p \in ClientPairs(client) \/ (p = <<token, f>> /\ token # None)
  BY <1>3, <1>4, ClientHolds
<1>6. ClientPairs(client') \subseteq ClientPairs(client)
  <2>1. token # None => <<token, f>> \in ClientPairs(client)
    BY <1>2, <1>3 DEF ClientPairs
  <2> QED BY <1>5, <2>1
<1>7. Lineage(PairsOf(mem') \cup PairsOf(disk') \cup ClientPairs(client'), issued')
  BY <1>1, <1>6 DEF HonestInv, Lineage
<1>8. ASSUME NEW g \in Families \ disturbed'
      PROVE  Answered(g, client'[g], mem, disk, expired, stale)
  <2>1. Answered(g, client[g], mem, disk, expired, stale)
    BY <1>1 DEF HonestInv
  <2>2. CASE g # f
    BY <1>5, <2>1, <2>2
  <2>3. CASE g = f /\ token = t /\ kept = Store!KeyOf(f)
    <3>1. client[f].key # None => kept = client[f].key
      BY <2>3 DEF Store!KeyOf
    <3> QED BY <1>2, <1>5, <2>1, <2>3, <3>1 DEF Answered, Answerable
  <2>4. CASE g = f /\ token = t /\ t # None /\ Store!IsLive(mem, t)
    <3>1. \A r \in Tombs(mem, f) : r.token # t
      BY <2>4 DEF HonestInv, Disjoint, Store!IsLive, Store!Find, Tombs
    <3>2. t > expired => \A r \in Tombs(disk, f) : r.token # t
      BY <1>2, <2>1, <2>4, <3>1 DEF Answered
    <3>3. t \notin stale /\ (Tombs(mem, f) # {} => Tombs(disk, f) # {})
      BY <1>2, <2>1, <2>4 DEF Answered
    <3>4. PICK c : c = client'[f]
      OBVIOUS
    <3>5. Answered(f, c, mem, disk, expired, stale)
      BY <1>5, <2>4, <3>1, <3>2, <3>3, <3>4, Harmless
    <3> QED BY <2>4, <3>4, <3>5
  <2>5. CASE g = f /\ token = None
    BY <1>5, <2>1, <2>5 DEF Answered
  <2> QED BY <1>3, <2>2, <2>3, <2>4, <2>5
<1> QED BY <1>1, <1>7, <1>8 DEF HonestInv

\* A record with the tombstones of memory and no other live tokens is saved.
LEMMA QuietSave ==
  ASSUME HonestInv, NEW n, Store!Range(n.live) \subseteq Store!Range(mem.live), n.retired = mem.retired,
         mem' = n, disk' = n \/ disk' = disk,
         UNCHANGED <<issued, expired, stale, client, disturbed>>
  PROVE  HonestInv'
<1>1. PairsOf(n) \subseteq PairsOf(mem) /\ Disjoint(n)
  BY PairsNarrow DEF HonestInv
<1>2. Lineage(PairsOf(mem') \cup PairsOf(disk') \cup ClientPairs(client'), issued')
  BY <1>1 DEF HonestInv, Lineage
<1>3. \A f : Aside(f)
  BY DEF Aside, Calm, Tombs, Lives
<1>4. ASSUME NEW f \in Families \ disturbed
      PROVE  Answered(f, client[f], mem', disk', expired, stale)
  <2>1. PICK c : c = client[f]
    OBVIOUS
  <2>2. Answered(f, c, mem, disk, expired, stale)
    BY <2>1 DEF HonestInv
  <2>3. Answered(f, c, mem', disk', expired, stale)
    BY <1>3, <2>2, AsideAnswered
  <2> QED BY <2>1, <2>3
<1>5. Disjoint(mem') /\ Disjoint(disk')
  BY <1>1 DEF HonestInv
<1> QED BY <1>2, <1>4, <1>5 DEF HonestInv

\* The decisions on a device touch no tombstone.
LEMMA DecisionSaves ==
  ASSUME StoreInv, NEW d \in Devices, NEW ok \in BOOLEAN,
         \/ \E trust \in {"trusted", "revoked"} : Store!SetDeviceTrust(d, trust, ok)
         \/ Store!IdentityMismatch(d, ok) \/ Store!RemoveDevice(d, ok) \/ Store!EnrollDevice(d, ok)
  PROVE  \E n : /\ mem' = n /\ (disk' = n \/ disk' = disk)
                /\ Store!Range(n.live) \subseteq Store!Range(mem.live) /\ n.retired = mem.retired
<1>1. PICK trust \in {"absent", "pending", "trusted", "revoked"} :
        \/ Store!Save([mem EXCEPT !.trust[d] = trust], ok)
        \/ Store!Save(Store!Invalidated([mem EXCEPT !.trust[d] = trust], d), ok)
  BY DEF Store!SetDeviceTrust, Store!IdentityMismatch, Store!RemoveDevice, Store!EnrollDevice
<1>2. PICK a : a = [mem EXCEPT !.trust[d] = trust]
  OBVIOUS
<1>3. Account(a) /\ a.live = mem.live /\ a.retired = mem.retired
  BY <1>2 DEF StoreInv, Sound, Account
<1>4. PICK n : (n = a \/ n = Store!Invalidated(a, d)) /\ mem' = n /\ (disk' = n \/ disk' = disk)
  BY <1>1, <1>2 DEF Store!Save
<1>5. Narrows(Store!Invalidated(a, d), a) /\ Store!Invalidated(a, d).retired = a.retired
  BY <1>3, InvalidatedNarrows, TombsKept
<1>6. Store!Range(n.live) \subseteq Store!Range(mem.live) /\ n.retired = mem.retired
  BY <1>3, <1>4, <1>5 DEF Narrows
<1> QED BY <1>4, <1>6

\* So they leave every retry answered.
LEMMA DecisionHonest ==
  ASSUME StoreInv, HonestInv, NEW d \in Devices, NEW ok \in BOOLEAN,
         \/ \E trust \in {"trusted", "revoked"} : Store!SetDeviceTrust(d, trust, ok)
         \/ Store!IdentityMismatch(d, ok) \/ Store!RemoveDevice(d, ok) \/ Store!EnrollDevice(d, ok)
  PROVE  HonestInv'
<1>1. UNCHANGED <<issued, expired, stale, client, disturbed>>
  BY DEF Store!SetDeviceTrust, Store!IdentityMismatch, Store!RemoveDevice, Store!EnrollDevice
<1>2. PICK n : /\ mem' = n /\ (disk' = n \/ disk' = disk)
               /\ Store!Range(n.live) \subseteq Store!Range(mem.live) /\ n.retired = mem.retired
  BY DecisionSaves
<1> QED BY <1>1, <1>2, QuietSave

\* A restart, and time passing.
LEMMA RestartHonest ==
  ASSUME StoreInv, HonestInv,
         \/ Store!Crash \/ Store!Expire \/ \E d \in Devices : Store!DeviceAuth(d)
         \/ \E t \in 1 .. issued : Store!GraceEnds(t)
  PROVE  HonestInv'
<1>1. CASE Store!Crash
  <2>1. mem' = disk /\ UNCHANGED <<disk, issued, expired, stale, client, disturbed>>
    BY <1>1 DEF Store!Crash, Store!history
  <2>2. \A f \in Families \ disturbed : Answered(f, client[f], disk, disk, expired, stale)
    BY DEF HonestInv, Answered
  <2>3. Lineage(PairsOf(disk) \cup PairsOf(disk) \cup ClientPairs(client), issued)
    BY DEF HonestInv, Lineage
  <2> QED BY <2>1, <2>2, <2>3 DEF HonestInv
<1>2. CASE Store!Expire
  <2>1. expired < issued /\ expired' = expired + 1
          /\ UNCHANGED <<mem, disk, issued, stale, client, disturbed>>
    BY <1>2 DEF Store!Expire, Store!history
  <2>2. issued \in Nat /\ expired \in 0 .. issued
    BY DEF HonestInv
  <2>3. ASSUME NEW f \in Families \ disturbed
        PROVE  Answered(f, client[f], mem, disk, expired + 1, stale)
    <3>1. Answered(f, client[f], mem, disk, expired, stale)
      BY DEF HonestInv
    <3>2. client[f].token # None => client[f].token \in 1 .. issued
      <4>1. \A p \in ClientPairs(client) : p[1] \in 1 .. issued
        BY DEF HonestInv, Lineage
      <4>2. client[f].token # None => <<client[f].token, f>> \in ClientPairs(client)
        BY DEF ClientPairs
      <4>3. client[f].token # None => <<client[f].token, f>>[1] \in 1 .. issued
        BY <4>1, <4>2
      <4> QED BY <4>3
    <3>3. client[f].token # None /\ client[f].token > expired + 1 => client[f].token > expired
      BY <2>2, <3>2
    <3> QED BY <3>1, <3>3 DEF Answered
  <2>4. expired' \in 0 .. issued
    BY <2>1, <2>2
  <2> QED BY <2>1, <2>3, <2>4 DEF HonestInv
<1>3. CASE \E d \in Devices : Store!DeviceAuth(d)
  <2>1. UNCHANGED <<mem, disk, issued, expired, stale, client, disturbed>>
    BY <1>3 DEF Store!DeviceAuth, Store!history
  <2> QED BY <2>1 DEF HonestInv
<1>4. ASSUME NEW t \in 1 .. issued, Store!GraceEnds(t) PROVE HonestInv'
  <2>1. /\ stale' = stale \cup {t}
        /\ disturbed' = disturbed \cup {f \in Families : client[f].token # None /\ client[f].token = t}
        /\ UNCHANGED <<mem, disk, issued, expired, client>>
    BY <1>4 DEF Store!GraceEnds, Store!SignedIn
  <2>2. ASSUME NEW f \in Families \ disturbed'
        PROVE  Answered(f, client[f], mem, disk, expired, stale')
    <3>1. Answered(f, client[f], mem, disk, expired, stale)
      BY <2>1 DEF HonestInv
    <3>2. client[f].token # None => client[f].token # t
      BY <2>1, <2>2
    <3> QED BY <2>1, <3>1, <3>2 DEF Answered
  <2>3. stale' \subseteq 1 .. issued
    BY <2>1 DEF HonestInv
  <2> QED BY <2>1, <2>2, <2>3 DEF HonestInv
<1> QED BY <1>1, <1>2, <1>3, <1>4

\* A sign-in that was not begun has left nothing in either record.
LEMMA NothingLeft ==
  ASSUME StoreInv, NEW f \in Families, ~client[f].began
  PROVE  \A a \in {mem, disk} : Tombs(a, f) = {} /\ Lives(a, f) = {}
BY DEF StoreInv, Sound, Begun, Tombs, Lives

\* The records of a sign-in's two saves.
LEMMA SignInEntries ==
  ASSUME StoreInv, HonestInv, NEW f \in Families,
         NEW known, Account(known), known.live = mem.live, known.retired = mem.retired,
         NEW first, first = Store!LivePruned(known),
         NEW second, second = Store!Issued(first, f, {})
  PROVE  /\ PairsOf(first) \subseteq PairsOf(mem) /\ Disjoint(first)
         /\ PairsOf(second) \subseteq PairsOf(mem) \cup {<<issued + 1, f>>} /\ Disjoint(second)
         /\ \A g : /\ Tombs(first, g) = Tombs(mem, g) /\ Tombs(second, g) = Tombs(mem, g)
                   /\ Lives(first, g) \subseteq Lives(mem, g)
                   /\ g # f => Lives(second, g) \subseteq Lives(mem, g)
<1> DEFINE none == {}
           y == [token |-> issued + 1, family |-> f]
<1>1. Narrows(first, known) /\ first.retired = mem.retired
  BY LivePrunedNarrows, TombsKept
<1>2. Account(first) /\ Store!Range(first.live) \subseteq Store!Range(mem.live)
  BY <1>1 DEF Narrows
<1>3. PairsOf(first) \subseteq PairsOf(mem) /\ Disjoint(first)
  BY <1>1, <1>2, PairsNarrow DEF HonestInv
<1>4. \A r \in Store!Range(first.retired) : r.token # issued + 1
  <2>1. \A r \in Store!Range(first.retired) : <<r.token, r.family>> \in PairsOf(mem)
    BY <1>3, PairsHold
  <2>2. \A p \in PairsOf(mem) : p[1] \in 1 .. issued
    BY DEF HonestInv, Lineage
  <2>3. \A r \in Store!Range(first.retired) : <<r.token, r.family>>[1] \in 1 .. issued
    BY <2>1, <2>2
  <2>4. issued \in Nat
    BY DEF HonestInv
  <2> QED BY <2>3, <2>4
<1>5. second = Store!Issued(first, f, none) /\ \A x : x \notin none
  OBVIOUS
<1>6. y.family = f
  OBVIOUS
<1> HIDE DEF none, y
<1>7. PairsOf(second) \subseteq PairsOf(first) \cup {<<issued + 1, f>>} /\ Disjoint(second)
  BY <1>2, <1>3, <1>4, <1>5, PairsIssued
<1>8. IssuedFrom(second, first, f, none)
  BY <1>2, <1>5, IssuedOf
<1>9. /\ Store!Range(second.live) \subseteq Store!Range(first.live) \cup {y}
      /\ Store!Range(second.retired) = {Relinked(r, none) : r \in Store!Range(first.retired)}
  BY <1>8 DEF IssuedFrom, y
<1>10. \A r \in Store!Range(first.retired) : Relinked(r, none) = r
  BY <1>5 DEF Relinked
<1>11. Store!Range(second.retired) = Store!Range(mem.retired)
  <2>1. \A r \in Store!Range(first.retired) : r \in Store!Range(second.retired)
    BY <1>9, <1>10
  <2>2. \A r \in Store!Range(second.retired) : r \in Store!Range(first.retired)
    BY <1>9, <1>10
  <2> QED BY <1>1, <2>1, <2>2
<1>12. \A g : /\ Tombs(first, g) = Tombs(mem, g) /\ Tombs(second, g) = Tombs(mem, g)
              /\ Lives(first, g) \subseteq Lives(mem, g)
              /\ g # f => Lives(second, g) \subseteq Lives(mem, g)
  BY <1>1, <1>2, <1>6, <1>9, <1>11 DEF Tombs, Lives
<1> QED BY <1>3, <1>7, <1>12

\* first and second may be the records of a sign-in's two saves.
SignInSaves(f, first, second) ==
  /\ PairsOf(first) \subseteq PairsOf(mem) /\ Disjoint(first)
  /\ PairsOf(second) \subseteq PairsOf(mem) \cup {<<issued + 1, f>>} /\ Disjoint(second)
  /\ \A g : /\ Tombs(first, g) = Tombs(mem, g) /\ Tombs(second, g) = Tombs(mem, g)
            /\ Lives(first, g) \subseteq Lives(mem, g)
            /\ g # f => Lives(second, g) \subseteq Lives(mem, g)

\* How the two saves of a sign-in end.
LEMMA SignInEnds ==
  ASSUME StoreInv, HonestInv, NEW f \in Families, NEW ends, NEW delivered,
         Store!SignIn(f, ends, delivered)
  PROVE  \E first, second :
            /\ SignInSaves(f, first, second)
            /\ \/ mem' = first /\ (disk' = first \/ disk' = disk) /\ issued' = issued
               \/ mem' = second /\ (disk' = first \/ disk' = second) /\ issued' = issued + 1
            /\ ends = "saved" => issued' = issued + 1
<1> DEFINE d == DeviceOf[f]
           trust == IF \A e \in Devices : mem.trust[e] = "absent" THEN "trusted" ELSE "pending"
           had == IF d # None /\ mem.trust[d] = "absent"
                  THEN [mem EXCEPT !.trust[d] = trust] ELSE mem
<1>1. Store!SaveTwice(Store!LivePruned(had), Store!Issued(Store!LivePruned(had), f, {}), f, ends)
  BY DEF Store!SignIn
<1>2. Account(had) /\ had.live = mem.live /\ had.retired = mem.retired
  <2>1. Account(mem)
    BY DEF StoreInv, Sound
  <2>2. trust \in {"pending", "trusted"}
    OBVIOUS
  <2> HIDE DEF trust
  <2>3. CASE d # None /\ mem.trust[d] = "absent"
    <3>1. d \in Devices
      BY <2>3, RecordAssumption, DevicesAssumption
    <3>2. had = [mem EXCEPT !.trust[d] = trust]
      BY <2>3
    <3> HIDE DEF d, had
    <3> QED BY <2>1, <2>2, <3>1, <3>2 DEF Account
  <2>4. CASE ~(d # None /\ mem.trust[d] = "absent")
    BY <2>1, <2>4
  <2> QED BY <2>3, <2>4
<1>3. PICK known : known = had
  OBVIOUS
<1> HIDE DEF had
<1>4. PICK first : first = Store!LivePruned(known)
  OBVIOUS
<1>5. PICK second : second = Store!Issued(first, f, {})
  OBVIOUS
<1>6. SignInSaves(f, first, second)
  BY <1>2, <1>3, <1>4, <1>5, SignInEntries DEF SignInSaves
<1>7. Store!SaveTwice(first, second, f, ends)
  BY <1>1, <1>3, <1>4, <1>5
<1>8. /\ \/ mem' = first /\ (disk' = first \/ disk' = disk) /\ issued' = issued
         \/ mem' = second /\ (disk' = first \/ disk' = second) /\ issued' = issued + 1
      /\ ends = "saved" => issued' = issued + 1
  BY <1>7 DEF Store!SaveTwice
<1> QED BY <1>6, <1>8

\* A sign-in is no concern of the others and starts with a token of its own.
LEMMA SignInHonest ==
  ASSUME StoreInv, HonestInv, NEW f \in Families, NEW ends, NEW delivered \in BOOLEAN,
         Store!SignIn(f, ends, delivered)
  PROVE  HonestInv'
<1> DEFINE P == PairsOf(mem) \cup PairsOf(disk) \cup ClientPairs(client)
           Q == PairsOf(mem') \cup PairsOf(disk') \cup ClientPairs(client')
<1>1. ~client[f].began /\ UNCHANGED <<expired, stale, disturbed>>
  BY DEF Store!SignIn
<1>2. PICK token :
        /\ client' = [client EXCEPT ![f].began = TRUE, ![f].token = token]
        /\ (token = issued' /\ ends = "saved") \/ token = None
  BY DEF Store!SignIn
<1>3. PICK first, second :
        /\ SignInSaves(f, first, second)
        /\ \/ mem' = first /\ (disk' = first \/ disk' = disk) /\ issued' = issued
           \/ mem' = second /\ (disk' = first \/ disk' = second) /\ issued' = issued + 1
        /\ ends = "saved" => issued' = issued + 1
  BY SignInEnds
<1>4. /\ PairsOf(first) \subseteq PairsOf(mem) /\ Disjoint(first)
      /\ PairsOf(second) \subseteq PairsOf(mem) \cup {<<issued + 1, f>>} /\ Disjoint(second)
      /\ \A g : /\ Tombs(first, g) = Tombs(mem, g) /\ Tombs(second, g) = Tombs(mem, g)
                /\ Lives(first, g) \subseteq Lives(mem, g)
                /\ g # f => Lives(second, g) \subseteq Lives(mem, g)
  BY <1>3 DEF SignInSaves
<1>5. /\ issued \in Nat /\ expired \in 0 .. issued /\ stale \subseteq 1 .. issued
      /\ Lineage(P, issued) /\ Disjoint(disk)
  BY DEF HonestInv
<1>6. client'[f].token = token /\ \A g \in Families : g # f => client'[g] = client[g]
  <2>1. client[f] \in [began : BOOLEAN, token : {client[f].token}, key : {client[f].key}]
    BY DEF StoreInv, ClientState
  <2>2. client'[f] = [client[f] EXCEPT !.began = TRUE, !.token = token]
    BY <1>2 DEF StoreInv, ClientState
  <2>3. \A g \in Families : g # f => client'[g] = client[g]
    BY <1>2 DEF StoreInv, ClientState
  <2> QED BY <2>1, <2>2, <2>3
<1>7. \A p \in ClientPairs(client') :
         p \in ClientPairs(client) \/ (p = <<token, f>> /\ token # None)
  <2> TAKE p \in ClientPairs(client')
  <2>1. PICK g \in Families : client'[g].token # None /\ p = <<client'[g].token, g>>
    BY DEF ClientPairs
  <2>2. CASE g = f
    BY <1>6, <2>1, <2>2
  <2>3. CASE g # f
    BY <1>6, <2>1, <2>3 DEF ClientPairs
  <2> QED BY <2>2, <2>3
<1>8. \/ issued' = issued /\ Q \subseteq P
      \/ issued' = issued + 1 /\ Q \subseteq P \cup {<<issued + 1, f>>}
  <2>1. CASE issued' = issued
    <3>1. token = None
      BY <1>2, <1>3, <1>5, <2>1
    <3>2. ClientPairs(client') \subseteq ClientPairs(client)
      BY <1>7, <3>1
    <3>3. mem' = first /\ (disk' = first \/ disk' = disk)
      BY <1>3, <1>5, <2>1
    <3> QED BY <1>4, <2>1, <3>2, <3>3
  <2>2. CASE issued' = issued + 1
    <3>1. ClientPairs(client') \subseteq P \cup {<<issued + 1, f>>}
      BY <1>2, <1>7, <2>2
    <3>2. (mem' = first \/ mem' = second) /\ (disk' = first \/ disk' = second \/ disk' = disk)
      BY <1>3
    <3> QED BY <1>4, <2>2, <3>1, <3>2
  <2> QED BY <1>3, <2>1, <2>2
<1>9. issued' \in Nat /\ expired' \in 0 .. issued' /\ stale' \subseteq 1 .. issued'
  BY <1>1, <1>5, <1>8
<1>10. Lineage(Q, issued')
  <2> HIDE DEF P, Q
  <2>1. Q \subseteq P => Lineage(Q, issued)
    BY <1>5, LineageGrows
  <2>2. Q \subseteq P \cup {<<issued + 1, f>>} => Lineage(Q, issued + 1)
    BY <1>5, LineageGrows
  <2> QED BY <1>8, <2>1, <2>2
<1>11. ASSUME NEW g \in Families \ disturbed
       PROVE  Answered(g, client'[g], mem', disk', expired, stale)
  <2>1. CASE g = f
    <3>1. Tombs(mem, f) = {} /\ Tombs(disk, f) = {}
      BY <1>1, NothingLeft
    <3>2. Tombs(mem', f) = {} /\ Tombs(disk', f) = {}
      BY <1>3, <1>4, <3>1
    <3>3. token # None => token \notin stale
      BY <1>2, <1>3, <1>5
    <3> QED BY <1>6, <2>1, <3>2, <3>3 DEF Answered, Answerable
  <2>2. CASE g # f
    <3>1. /\ Tombs(first, g) = Tombs(mem, g) /\ Tombs(second, g) = Tombs(mem, g)
          /\ Calm(first, mem, g) /\ Calm(second, mem, g)
      BY <1>4, <2>2 DEF Calm
    <3>2. Aside(g)
      BY <1>3, <3>1 DEF Aside
    <3>3. PICK c : c = client[g]
      OBVIOUS
    <3>4. Answered(g, c, mem, disk, expired, stale)
      BY <3>3 DEF HonestInv
    <3>5. Answered(g, c, mem', disk', expired, stale)
      BY <3>2, <3>4, AsideAnswered
    <3> QED BY <1>6, <2>2, <3>3, <3>5
  <2> QED BY <2>1, <2>2
<1>12. Disjoint(mem') /\ Disjoint(disk')
  BY <1>3, <1>4, <1>5
<1> QED BY <1>1, <1>9, <1>10, <1>11, <1>12 DEF HonestInv

\* Nothing was issued yet.
LEMMA HonestInit == ASSUME Store!Init PROVE HonestInv
<1>1. /\ mem.live = <<>> /\ mem.retired = <<>> /\ disk = mem
      /\ issued = 0 /\ expired = 0 /\ stale = {}
      /\ \A f \in Families : client[f].token = None
  BY DEF Store!Init
<1>2. Store!Range(mem.live) = {} /\ Store!Range(mem.retired) = {}
  BY <1>1 DEF Store!Range
<1>3. PairsOf(mem) = {} /\ PairsOf(disk) = {} /\ ClientPairs(client) = {}
  BY <1>1, <1>2 DEF PairsOf, ClientPairs
<1>4. \A f : Tombs(mem, f) = {} /\ Tombs(disk, f) = {}
  BY <1>1, <1>2 DEF Tombs
<1> QED BY <1>1, <1>2, <1>3, <1>4 DEF HonestInv, Lineage, Disjoint, Answered

\* Every step keeps the retries answered.
LEMMA HonestStep ==
  ASSUME StoreInv, HonestInv, [Store!Next]_(Store!vars)
  PROVE  HonestInv'
<1>1. CASE Store!Next
  BY <1>1, RefreshHonest, ReplayHonest, ClientHonest, DecisionHonest, SignInHonest, RestartHonest
     DEF Store!Next
<1>2. CASE UNCHANGED Store!vars
  BY <1>2 DEF Store!vars, HonestInv
<1> QED BY <1>1, <1>2

\* The retry of a sign-in that was not disturbed is answered, from memory and
\* after a restart.
THEOREM HonestInvariance ==
  Store!Spec => []HonestInv
BY StoreInvariance, HonestInit, HonestStep, PTL DEF Store!Spec

\* If a request empties memory of a sign-in's tombstones as a condemnation
\* does, then it was a replay of a token of that sign-in.
LEMMA OnlyReplayCondemns ==
  ASSUME StoreInv, HonestInv, NEW t, NEW key, NEW ends, Store!Serve(t, key, ends),
         NEW f, mem' = Store!Condemned(mem, f), Tombs(mem, f) # {}
  PROVE  Condemns(t, key, ends) /\ Store!FamilyOf(mem.retired, t) = f
<1>1. Account(mem) /\ Disjoint(mem)
  BY DEF StoreInv, Sound, HonestInv
<1>2. Store!Range(mem'.retired) = {r \in Store!Range(mem.retired) : r.family # f}
  BY <1>1, CondemnedEntries
<1>3. Tombs(mem', f) = {} /\ mem'.retired # mem.retired
  BY <1>2 DEF Tombs
<1>4. ASSUME NEW u, Spends(t, u, key) PROVE \A z \in Store!Range(mem'.retired) : z.token # u
  <2>1. \E q \in Store!Range(mem.live) : q.token = u
    BY <1>4, SpendsFamily
  <2> QED BY <1>1, <1>2, <2>1 DEF Disjoint
<1>5. CASE Ignores(t, ends)
  BY <1>3, <1>5 DEF Ignores
<1>6. CASE Condemns(t, key, ends)
  <2>1. PICK g : g = Store!FamilyOf(mem.retired, t)
    OBVIOUS
  <2>2. mem' = Store!Condemned(mem, g)
    BY <1>6, <2>1 DEF Condemns, Store!Save
  <2>3. Store!Range(mem'.retired) = {r \in Store!Range(mem.retired) : r.family # g}
    BY <1>1, <2>2, CondemnedEntries
  <2>4. g = f
    BY <1>3, <2>3 DEF Tombs
  <2> QED BY <1>6, <2>1, <2>4
<1>7. CASE Drops(t, ends)
  <2>1. mem' = [mem EXCEPT !.live = Store!WithoutToken(@, t)]
    BY <1>7 DEF Drops, Store!Save
  <2>2. mem'.retired = mem.retired
    BY <1>1, <2>1, TombsKept
  <2> QED BY <1>3, <2>2
<1>8. ASSUME NEW u, Spends(t, u, key), Expels(u, key, ends) PROVE FALSE
  <2>1. PICK n : n = Store!Consumed(mem, u, key)
    OBVIOUS
  <2>2. /\ Account(n)
        /\ Store!Range(n.retired) = Store!Range(mem.retired) \cup {Tombstone(mem, u, key)}
    BY <1>8, <2>1, SpentEntries
  <2>3. \E d : mem' = Store!Invalidated(n, d)
    BY <1>8, <2>1 DEF Expels, Store!Save
  <2>4. mem'.retired = n.retired
    BY <2>2, <2>3, TombsKept
  <2>5. Tombstone(mem, u, key).token = u
    BY DEF Tombstone
  <2> QED BY <1>4, <1>8, <2>2, <2>4, <2>5
<1>9. ASSUME NEW u, Spends(t, u, key), Rotates(t, u, key, ends) PROVE FALSE
  <2>1. PICK g : g = Store!FamilyOf(mem.live, u)
    OBVIOUS
  <2>2. PICK first : first = Store!RetiredPruned(Store!Consumed(mem, u, key))
    OBVIOUS
  <2>3. PICK second : second = Store!Issued(first, g, {t, u})
    OBVIOUS
  <2>4. Tombstone(mem, u, key) \in Store!Range(first.retired)
    BY <1>9, <2>1, <2>2, FirstEntries
  <2>5. \E z \in Store!Range(second.retired) : z.token = u
    <3>1. SecondOf(t, u, g, first, second)
      BY <1>9, <2>1, <2>2, <2>3, SecondEntries
    <3> QED BY <3>1 DEF SecondOf
  <2>6. Store!SaveTwice(first, second, g, ends)
    BY <1>9, <2>1, <2>2, <2>3 DEF Rotates
  <2>7. mem' = first \/ mem' = second
    BY <2>6 DEF Store!SaveTwice
  <2>8. Tombstone(mem, u, key).token = u
    BY DEF Tombstone
  <2> QED BY <1>4, <1>9, <2>4, <2>5, <2>7, <2>8
<1> QED BY <1>5, <1>6, <1>7, <1>8, <1>9, ServeCases

\* The server does not take the retry of an undisturbed client for a replay.
LEMMA OwnRetryIsAnswered ==
  ASSUME StoreInv, HonestInv, NEW f \in Families \ disturbed, client[f].token # None,
         Store!IsRetired(mem, client[f].token),
         Store!FamilyOf(mem.retired, client[f].token) = f,
         NEW q \in Lives(mem, f), q.token > expired
  PROVE  Store!UnusedSuccessor(mem, client[f].token, Store!KeyOf(f)) # None
<1>1. PICK t : t = client[f].token
  OBVIOUS
<1>2. PICK r : r = CHOOSE x \in Store!Range(mem.retired) : x.token = t
  OBVIOUS
<1>3. r \in Store!Range(mem.retired) /\ r.token = t /\ t > expired
  BY <1>1, <1>2 DEF Store!IsRetired, Store!Find
<1>4. r.family = f
  BY <1>1, <1>2 DEF Store!FamilyOf
<1>5. Answered(f, client[f], mem, disk, expired, stale)
  BY DEF HonestInv
<1>6. t \notin stale /\ Answerable(mem, f, client[f])
  BY <1>1, <1>3, <1>5 DEF Answered
<1>7. client[f].key # None /\ r.key = client[f].key /\ r.successor = q.token
  BY <1>1, <1>3, <1>4, <1>6 DEF Answerable, Tombs
<1>8. Store!KeyOf(f) = client[f].key
  BY <1>7 DEF Store!KeyOf
<1>9. Store!IsLive(mem, q.token)
  BY DEF Store!IsLive, Store!Find, Lives
<1>10. q.token # None
  <2>1. q.token \in 1 .. issued /\ issued \in Nat
    <3>1. q.token \in 1 .. issued
      BY <1>9, LiveIsIssued
    <3> QED BY <3>1 DEF HonestInv
  <2> QED BY <2>1, RecordAssumption
<1>11. Store!UnusedSuccessor(mem, t, Store!KeyOf(f)) = q.token
  BY <1>2, <1>6, <1>7, <1>8, <1>9, <1>10 DEF Store!UnusedSuccessor
<1> QED BY <1>1, <1>10, <1>11

\* A step that condemns a living sign-in is one that disturbs it.
LEMMA CondemnationDisturbs ==
  ASSUME StoreInv, HonestInv, [Store!Next]_(Store!vars),
         NEW f \in Families, mem' = Store!Condemned(mem, f),
         NEW q \in Lives(mem, f), q.token > expired, Tombs(mem, f) # {}
  PROVE  f \in disturbed'
<1>1. Account(mem)
  BY DEF StoreInv, Sound
<1>2. Store!Range(mem'.retired) = {r \in Store!Range(mem.retired) : r.family # f}
  BY <1>1, CondemnedEntries
<1>3. Tombs(mem', f) = {}
  BY <1>2 DEF Tombs
<1>4. CASE Tombs(mem', f) = Tombs(mem, f)
  BY <1>3, <1>4
<1>5. ASSUME NEW g \in Families, NEW ends, NEW delivered, Store!Refresh(g, ends, delivered)
      PROVE  f \in disturbed'
  <2>1. PICK t, key : t = client[g].token /\ key = Store!KeyOf(g)
    OBVIOUS
  <2>2. t # None /\ Store!Serve(t, key, ends) /\ disturbed \subseteq disturbed'
    BY <1>5, <2>1 DEF Store!Refresh, Store!SignedIn
  <2>3. Condemns(t, key, ends) /\ Store!FamilyOf(mem.retired, t) = f
    BY <2>2, OnlyReplayCondemns
  <2>4. Store!IsRetired(mem, t) /\ Store!UnusedSuccessor(mem, t, key) = None
    BY <2>3 DEF Condemns
  <2>5. g = f
    <3>1. PICK r \in Store!Range(mem.retired) : r.token = t /\ r.family = f
      BY <2>3, <2>4, FamilyFound DEF Store!IsRetired
    <3>2. <<t, f>> \in PairsOf(mem) /\ <<t, g>> \in ClientPairs(client)
      BY <2>1, <2>2, <3>1, PairsHold DEF ClientPairs
    <3>3. <<t, f>>[2] = <<t, g>>[2]
      BY <3>2 DEF HonestInv, Lineage
    <3> QED BY <3>3
  <2> QED BY <2>1, <2>2, <2>3, <2>4, <2>5, OwnRetryIsAnswered
<1>6. ASSUME NEW t, NEW key, NEW ends, Store!Replay(t, key, ends) PROVE f \in disturbed'
  <2>1. /\ Store!Serve(t, key, ends)
        /\ \A r \in Store!Find(mem.retired, t) : r.family \in disturbed'
    BY <1>6 DEF Store!Replay
  <2>2. Condemns(t, key, ends) /\ Store!FamilyOf(mem.retired, t) = f
    BY <2>1, OnlyReplayCondemns
  <2>3. Store!Find(mem.retired, t) # {}
    BY <2>2 DEF Condemns, Store!IsRetired
  <2>4. \E r \in Store!Find(mem.retired, t) : r.family = f
    BY <2>2, <2>3, FamilyFound DEF Store!Find
  <2> QED BY <2>1, <2>4
<1>7. CASE Store!Crash
  <2>1. mem' = disk /\ disturbed' = disturbed
    BY <1>7 DEF Store!Crash, Store!history
  <2>2. f \notin disturbed => Tombs(disk, f) # {}
    BY DEF HonestInv, Answered
  <2> QED BY <1>3, <2>1, <2>2
<1>8. ASSUME NEW g \in Families, NEW ends, NEW delivered, Store!SignIn(g, ends, delivered)
      PROVE  f \in disturbed'
  <2>1. Tombs(mem', f) = Tombs(mem, f)
    BY <1>8, SignInEnds DEF SignInSaves
  <2> QED BY <1>4, <2>1
<1>9. ASSUME NEW d \in Devices, NEW ok \in BOOLEAN,
             \/ \E trust \in {"trusted", "revoked"} : Store!SetDeviceTrust(d, trust, ok)
             \/ Store!IdentityMismatch(d, ok) \/ Store!RemoveDevice(d, ok) \/ Store!EnrollDevice(d, ok)
      PROVE  f \in disturbed'
  <2>1. mem'.retired = mem.retired
    BY <1>9, DecisionSaves
  <2> QED BY <1>4, <2>1 DEF Tombs
<1>10. CASE mem' = mem
  BY <1>4, <1>10
<1>11. CASE \/ Store!Expire \/ \E d \in Devices : Store!DeviceAuth(d)
            \/ \E t \in 1 .. issued : Store!GraceEnds(t)
            \/ \E g \in Families :
                  Store!RefreshLost(g) \/ Store!RefreshRefused(g) \/ Store!ClearCredentials(g)
            \/ UNCHANGED Store!vars
  <2>1. mem' = mem
    BY <1>11 DEF Store!Expire, Store!DeviceAuth, Store!GraceEnds, Store!RefreshLost,
                 Store!RefreshRefused, Store!ClearCredentials, Store!vars
  <2> QED BY <1>10, <2>1
<1> QED BY <1>5, <1>6, <1>7, <1>8, <1>9, <1>11 DEF Store!Next

\* A client that lost an answer is not taken for a thief.
THEOREM HonestIsNotCondemnedHolds ==
  Store!Spec => HonestIsNotCondemned
<1> DEFINE Spared == \A f \in Families :
                        /\ mem' = Condemned(mem, f)
                        /\ \E r \in Range(Unexpired(mem.live)) : r.family = f
                        /\ \E r \in Range(mem.retired) : r.family = f
                        => f \in disturbed'
<1>1. StoreInv /\ HonestInv /\ [Store!Next]_(Store!vars) => [Spared]_mem
  <2> SUFFICES ASSUME StoreInv, HonestInv, [Store!Next]_(Store!vars),
                      NEW f \in Families, mem' = Condemned(mem, f),
                      NEW q \in Range(Unexpired(mem.live)), q.family = f,
                      NEW r \in Range(mem.retired), r.family = f
               PROVE  f \in disturbed'
    OBVIOUS
  <2>1. mem' = Store!Condemned(mem, f)
    BY Zenon DEF Condemned, Without, Retain, Cardinality,
                 Store!Condemned, Store!Without, Store!Retain, Store!Cardinality
  <2>2. q \in Store!Range(Store!Unexpired(mem.live)) /\ r \in Store!Range(mem.retired)
    BY Zenon DEF Range, Unexpired, Retain, Cardinality,
                 Store!Range, Store!Unexpired, Store!Retain, Store!Cardinality
  <2>3. Tombs(mem, f) # {}
    BY <2>2 DEF Tombs
  <2>4. q \in Lives(mem, f) /\ q.token > expired
    <3> DEFINE kept == {i \in DOMAIN mem.live : mem.live[i].token > expired}
    <3>1. mem.live \in Seq(Store!Range(mem.live))
      BY DEF StoreInv, Sound, Account
    <3>2. q \in Store!Range(Store!Retain(mem.live, kept))
      BY <2>2, Zenon DEF Store!Unexpired
    <3>3. \E i \in kept : q = mem.live[i]
      <4>1. kept \in SUBSET DOMAIN mem.live
        OBVIOUS
      <4> HIDE DEF kept
      <4> QED BY <3>1, <3>2, <4>1, RetainedWasKept
    <3> QED BY <3>3 DEF Lives, Store!Range
  <2> QED BY <2>1, <2>3, <2>4, CondemnationDisturbs
<1>2. QED
  BY <1>1, StoreInvariance, HonestInvariance, PTL DEF Store!Spec, HonestIsNotCondemned

=============================================================================
