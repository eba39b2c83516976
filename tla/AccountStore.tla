---------------------------- MODULE AccountStore ----------------------------
(***************************************************************************)
(* One account of the control plane's store, in memory and on disk, and    *)
(* the desktop client that renews each of its sign-ins.                    *)
(*                                                                         *)
(* A request runs under the store's lock, so a step below is a whole       *)
(* request.  What can still come between its parts is a write to disk that *)
(* fails, or a crash between two writes.  A request or its answer may be   *)
(* lost, and a token, with or without the key it was sent with, may be     *)
(* presented again by a thief or by a request that was delayed.  An access *)
(* token is never forgotten for its age.                                   *)
(***************************************************************************)
EXTENDS AccountRecord

CONSTANTS
    MaxTokens,     \* bound: refresh tokens ever issued
    MaxUpsets      \* bound: failed writes, crashes, expiries and decisions on devices

ASSUME BoundsAssumption == MaxTokens \in Nat \ {0} /\ MaxUpsets \in Nat

VARIABLES
    client,        \* by sign-in, whether it took place, the client's token and retry key
    upsets         \* failed writes, crashes, expiries and decisions on devices so far

vars == <<mem, disk, access, issued, expired, stale, client, upsets, revoked, condemned, disturbed>>

history == <<revoked, condemned, disturbed>>

-----------------------------------------------------------------------------
Upset(happens) ==
    /\ upsets' = IF happens THEN upsets + 1 ELSE upsets
    /\ upsets' <= MaxUpsets

(* save, at the end of a request that changed the record.  A failure leaves *)
(* the change in memory and is reported.                                    *)
Save(new, ok) ==
    /\ mem' = new
    /\ disk' = IF ok THEN new ELSE disk

(* Two saves with the issue of a token between them.  The server may crash   *)
(* after the first, and comes back with what that one wrote.                 *)
SaveTwice(first, second, family, ends) ==
    /\ Upset(ends # "saved")
    /\ mem' = IF ends \in {"saved", "second fails"} THEN second ELSE first
    /\ disk' = CASE ends = "saved" -> second
                 [] ends = "first fails" -> disk
                 [] OTHER -> first
    /\ access' = CASE ends = "crash" -> {}
                   [] ends = "first fails" -> access
                   [] OTHER -> access \cup {AccessOf(family)}
    /\ issued' = IF ends \in {"saved", "second fails"} THEN issued + 1 ELSE issued

(* How the saves of a request may end, within the bound. *)
Endings ==
    {"saved"} \cup IF upsets < MaxUpsets THEN {"second fails", "crash", "first fails"} ELSE {}

(* refresh_with_retry_key of token t: the rotation, or one of the refusals.  *)
Serve(t, key, ends) ==
    LET retired == IsRetired(mem, t)
        successor == IF retired THEN UnusedSuccessor(mem, t, key) ELSE None
        replay == retired /\ successor = None
        u == IF successor # None THEN successor ELSE t
        family == IF replay THEN FamilyOf(mem.retired, t) ELSE FamilyOf(mem.live, u)
        device == DeviceOf[family]
        consumed == Consumed(mem, u, key)
        first == RetiredPruned(consumed)
    IN  \/ (* A rotated token that is no retry: the whole family goes. *)
           /\ replay
           /\ ends \in {"saved", "first fails"}
           /\ Upset(ends # "saved")
           /\ Save(Condemned(mem, family), ends = "saved")
           /\ access' = {x \in access : x.family # family}
           /\ condemned' = IF ends = "saved" THEN condemned \cup {family} ELSE condemned
           /\ UNCHANGED <<issued, stale>>
        \/ (* A token nobody knows. *)
           /\ ~replay /\ ~IsLive(mem, u)
           /\ ends = "saved"
           /\ UNCHANGED <<mem, disk, access, issued, stale, upsets, condemned>>
        \/ (* One that has expired. *)
           /\ ~replay /\ IsLive(mem, u) /\ u <= expired
           /\ ends \in {"saved", "first fails"}
           /\ Save([mem EXCEPT !.live = WithoutToken(@, u)], ends = "saved")
           /\ Upset(ends # "saved")
           /\ UNCHANGED <<access, issued, stale, condemned>>
        \/ (* One of a device that is not trusted. *)
           /\ ~replay /\ IsLive(mem, u) /\ u > expired /\ ~Trusted(mem, device)
           /\ ends \in {"saved", "first fails"}
           /\ Save(Invalidated(consumed, device), ends = "saved")
           /\ Upset(ends # "saved")
           /\ access' = WithoutDevice(access, device)
           /\ stale' = stale \ {u}
           /\ UNCHANGED <<issued, condemned>>
        \/ (* The rotation. *)
           /\ ~replay /\ IsLive(mem, u) /\ u > expired /\ Trusted(mem, device)
           /\ issued < MaxTokens
           /\ SaveTwice(first, Issued(first, family, {t, u}), family, ends)
           /\ stale' = stale \ {u}
           /\ UNCHANGED condemned

-----------------------------------------------------------------------------
(* ControlPlaneClient::refresh.  The key of an attempt that was not answered *)
(* is sent again; any status spends it.  A new key is one nothing remembers. *)
Remembered ==
    {r.key : r \in Range(mem.retired) \cup Range(disk.retired)} \cup
    {client[f].key : f \in Families}

KeySpace == 1 .. Len(mem.retired) + Len(disk.retired) + Cardinality(Families) + 1

KeyOf(f) == IF client[f].key # None THEN client[f].key ELSE CHOOSE key \in KeySpace : key \notin Remembered

SignedIn(f) == client[f].token # None

(* The sign-ins a failed first write leaves with a tombstone on disk that   *)
(* memory has pruned.                                                        *)
Forgotten(ends) ==
    {f \in Families : /\ ends = "first fails"
                      /\ \E r \in Range(mem.retired) \ Range(mem'.retired) : r.family = f}

(* The request reaches the server; its answer reaches the client or is lost. *)
Refresh(f, ends, delivered) ==
    LET answered == delivered /\ ends # "crash"
        granted == answered /\ ends = "saved" /\ issued' > issued
        key == KeyOf(f)
    IN  /\ SignedIn(f)
        /\ Serve(client[f].token, key, ends)
        /\ client' = [client EXCEPT ![f].key = IF answered THEN None ELSE key,
                                    ![f].token = IF granted THEN issued' ELSE @]
        /\ disturbed' = disturbed \cup Forgotten(ends) \cup IF ends = "saved" THEN {} ELSE {f}
        /\ UNCHANGED <<expired, revoked>>

(* The request is lost. *)
RefreshLost(f) ==
    /\ SignedIn(f)
    /\ client' = [client EXCEPT ![f].key = KeyOf(f)]
    /\ UNCHANGED <<mem, disk, access, issued, expired, stale, upsets, history>>

(* allow_refresh_attempt refuses it: the status spends the key, even that of *)
(* an attempt whose answer was lost.                                         *)
RefreshRefused(f) ==
    /\ SignedIn(f)
    /\ client' = [client EXCEPT ![f].key = None]
    /\ disturbed' = IF IsLive(mem, client[f].token) THEN disturbed ELSE disturbed \cup {f}
    /\ UNCHANGED <<mem, disk, access, issued, expired, stale, upsets, revoked, condemned>>

KeysSeenWith(t) == {None} \cup {r.key : r \in Find(mem.retired, t)}

(* Somebody else presents a token, alone or with a key it was sent with: a   *)
(* copy, or a request that was delayed.                                      *)
Replay(t, key, ends) ==
    LET known == Find(mem.live, t) \cup Find(mem.retired, t)
    IN  /\ known # {}
        /\ Serve(t, key, ends)
        /\ disturbed' = disturbed \cup Forgotten(ends) \cup {r.family : r \in known}
        /\ UNCHANGED <<expired, client, revoked>>

ClearCredentials(f) ==
    /\ SignedIn(f)
    /\ client' = [client EXCEPT ![f].token = None, ![f].key = None]
    /\ UNCHANGED <<mem, disk, access, issued, expired, stale, upsets, history>>

-----------------------------------------------------------------------------
(* login_derived and issue_tokens: a device the account does not know is     *)
(* pending, unless it is the first.                                          *)
SignIn(f, ends, delivered) ==
    LET d == DeviceOf[f]
        first == IF \A e \in Devices : mem.trust[e] = "absent" THEN "trusted" ELSE "pending"
        known == IF d # None /\ mem.trust[d] = "absent"
                 THEN [mem EXCEPT !.trust[d] = first] ELSE mem
    IN  /\ ~client[f].began
        /\ d # None => mem.trust[d] # "revoked"
        /\ issued < MaxTokens
        /\ SaveTwice(LivePruned(known), Issued(LivePruned(known), f, {}), f, ends)
        /\ client' = [client EXCEPT
               ![f].began = TRUE,
               ![f].token = IF delivered /\ ends = "saved" THEN issued' ELSE None]
        /\ revoked' = revoked \ {d}
        /\ UNCHANGED <<expired, stale, condemned, disturbed>>

(* set_device_trust *)
SetDeviceTrust(d, trust, ok) ==
    LET new == [mem EXCEPT !.trust[d] = trust]
    IN  /\ mem.trust[d] # "absent"
        /\ Save(IF trust = "trusted" THEN new ELSE Invalidated(new, d), ok)
        /\ Upset(TRUE)
        /\ access' = IF trust = "trusted" THEN access ELSE WithoutDevice(access, d)
        /\ revoked' = IF ok /\ trust = "revoked" THEN revoked \cup {d} ELSE revoked \ {d}
        /\ UNCHANGED <<issued, expired, stale, client, condemned, disturbed>>

(* login_derived under another identity key: the device is revoked. *)
IdentityMismatch(d, ok) ==
    /\ mem.trust[d] \in {"pending", "trusted"}
    /\ Save(Invalidated([mem EXCEPT !.trust[d] = "revoked"], d), ok)
    /\ Upset(TRUE)
    /\ access' = WithoutDevice(access, d)
    /\ revoked' = IF ok THEN revoked \cup {d} ELSE revoked \ {d}
    /\ UNCHANGED <<issued, expired, stale, client, condemned, disturbed>>

(* remove_device *)
RemoveDevice(d, ok) ==
    /\ mem.trust[d] # "absent"
    /\ Save(Invalidated([mem EXCEPT !.trust[d] = "absent"], d), ok)
    /\ Upset(TRUE)
    /\ access' = WithoutDevice(access, d)
    /\ revoked' = IF ok THEN revoked \cup {d} ELSE revoked \ {d}
    /\ UNCHANGED <<issued, expired, stale, client, condemned, disturbed>>

(* enroll_device *)
EnrollDevice(d, ok) ==
    /\ mem.trust[d] = "absent"
    /\ Save([mem EXCEPT !.trust[d] = "pending"], ok)
    /\ Upset(TRUE)
    /\ revoked' = revoked \ {d}
    /\ UNCHANGED <<access, issued, expired, stale, client, condemned, disturbed>>

(* commit_device_auth and issue_device_access: an access token of no sign-in. *)
DeviceAuth(d) ==
    /\ mem.trust[d] \in {"pending", "trusted"}
    /\ access' = access \cup {[family |-> None, device |-> d]}
    /\ UNCHANGED <<mem, disk, issued, expired, stale, client, upsets, history>>

-----------------------------------------------------------------------------
(* A restart of the server: open reads the store back. *)
Crash ==
    /\ Upset(TRUE)
    /\ mem' = disk
    /\ access' = {}
    /\ UNCHANGED <<disk, issued, expired, stale, client, history>>

(* REFRESH_RETRY_GRACE_MS after token t was rotated away: the earliest first. *)
GraceEnds(t) ==
    /\ LET running == Retain(mem.retired, {i \in DOMAIN mem.retired : mem.retired[i].token \notin stale})
       IN  running # <<>> /\ running[1].token = t
    /\ stale' = stale \cup {t}
    /\ disturbed' = disturbed \cup {f \in Families : SignedIn(f) /\ client[f].token = t}
    /\ UNCHANGED <<mem, disk, access, issued, expired, client, upsets, revoked, condemned>>

(* REFRESH_TOKEN_TTL_MS after the oldest token was issued. *)
Expire ==
    /\ expired < issued
    /\ Upset(TRUE)
    /\ expired' = expired + 1
    /\ UNCHANGED <<mem, disk, access, issued, stale, client, history>>

Init ==
    /\ mem = [trust |-> [d \in Devices |-> "absent"], live |-> <<>>, retired |-> <<>>]
    /\ disk = mem
    /\ access = {}
    /\ issued = 0
    /\ expired = 0
    /\ stale = {}
    /\ client = [f \in Families |-> [began |-> FALSE, token |-> None, key |-> None]]
    /\ upsets = 0
    /\ revoked = {}
    /\ condemned = {}
    /\ disturbed = {}

Next ==
    \/ \E f \in Families, ends \in Endings, delivered \in BOOLEAN :
          SignIn(f, ends, delivered) \/ Refresh(f, ends, delivered)
    \/ \E f \in Families : RefreshLost(f) \/ RefreshRefused(f) \/ ClearCredentials(f)
    \/ \E t \in 1 .. issued : \E key \in KeysSeenWith(t), ends \in Endings : Replay(t, key, ends)
    \/ \E d \in Devices, ok \in BOOLEAN :
          \/ \E trust \in {"trusted", "revoked"} : SetDeviceTrust(d, trust, ok)
          \/ IdentityMismatch(d, ok) \/ RemoveDevice(d, ok) \/ EnrollDevice(d, ok)
    \/ \E d \in Devices : DeviceAuth(d)
    \/ \E t \in 1 .. issued : GraceEnds(t)
    \/ Crash
    \/ Expire

Spec == Init /\ [][Next]_vars

-----------------------------------------------------------------------------
(* A tombstone lasts as long as "the family's own expiry, not the token's"   *)
(* (RetiredRefreshToken): while a sign-in is alive, each of its tombstones   *)
(* still counts as evidence.                                                 *)
EvidenceOutlivesFamily ==
    \A r \in Range(Unexpired(mem.live)), q \in Range(mem.retired) :
        r.family = q.family => q.token > expired

=============================================================================
