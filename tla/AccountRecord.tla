---------------------------- MODULE AccountRecord ----------------------------
(***************************************************************************)
(* The record the control plane keeps of one account: the trust of its     *)
(* devices, the refresh tokens of its sign-ins and the tombstones of the   *)
(* ones rotated away.  What the requests of AccountStore do to a record,   *)
(* and what must hold of the record in memory and of the one on disk.      *)
(*                                                                         *)
(* Tokens are numbered in the order they are issued, which is the order in *)
(* which they expire.                                                      *)
(***************************************************************************)
EXTENDS ControlPlane, Integers, Sequences, FiniteSetsExt, Functions

CONSTANTS
    Families,      \* the sign-ins
    DeviceOf,      \* by sign-in, its device, or None
    MaxLive,       \* MAX_REFRESH_TOKENS_PER_ACCOUNT
    MaxRetired     \* MAX_RETIRED_REFRESH_TOKENS_PER_ACCOUNT

ASSUME RecordAssumption ==
    /\ {MaxLive, MaxRetired} \subseteq Nat \ {0}
    /\ DeviceOf \in [Families -> Devices \cup {None}]
    /\ IsFiniteSet(Families)
    /\ None \notin Families /\ None \notin Nat

VARIABLES
    mem, disk,     \* the account's record: trust, live and retired tokens
    access,        \* the access tokens, in memory only
    issued,        \* how many refresh tokens were issued
    expired,       \* how many of them have expired
    stale,         \* the retired tokens whose grace is over
    revoked,       \* history: the devices whose revocation was acknowledged last
    condemned,     \* history: the sign-ins whose condemnation was saved
    disturbed      \* history: the sign-ins a retry need not recover

-----------------------------------------------------------------------------
(* A live token is [token, family]; a tombstone keeps the key  *)
(* of the request that rotated it and the token issued in its place.        *)

(* retain: the entries of s at the positions kept, in their order. *)
Retain(s, kept) ==
    [k \in 1 .. Cardinality(kept) |->
        s[CHOOSE i \in kept : Cardinality({j \in kept : j <= i}) = k]]

(* The newest n. *)
Capped(s, n) == Retain(s, {i \in DOMAIN s : i > Len(s) - n})

Unexpired(s) == Retain(s, {i \in DOMAIN s : s[i].token > expired})

Without(s, family) == Retain(s, {i \in DOMAIN s : s[i].family # family})

WithoutToken(s, t) == Retain(s, {i \in DOMAIN s : s[i].token # t})

Find(s, t) == {r \in Range(s) : r.token = t}

IsLive(a, t) == Find(a.live, t) # {}

FamilyOf(s, t) == (CHOOSE r \in Range(s) : r.token = t).family

(* find_retired_family *)
IsRetired(a, t) == t > expired /\ Find(a.retired, t) # {}

(* unused_successor: the live token the rotation of t issued, or None. *)
UnusedSuccessor(a, t, key) ==
    LET tombstone == CHOOSE r \in Range(a.retired) : r.token = t
    IN  IF /\ key # None /\ tombstone.key = key
           /\ t \notin stale
           /\ tombstone.successor # None
           /\ tombstone.successor > expired
           /\ IsLive(a, tombstone.successor)
        THEN tombstone.successor ELSE None

(* Mutant: the evidence goes and the live token stays. *)
CondemnedOnPaper(a, family) == [a EXCEPT !.retired = Without(@, family)]

(* revoke_refresh_family *)
Condemned(a, family) ==
    [a EXCEPT !.live = Without(@, family), !.retired = Without(@, family)]

(* Mutant: nothing is invalidated. *)
InvalidatedNothing(a, d) == a

WithoutTokensOf(s, d) == Retain(s, {i \in DOMAIN s : DeviceOf[s[i].family] # d})

(* invalidate_device_tokens *)
Invalidated(a, d) == [a EXCEPT !.live = WithoutTokensOf(@, d)]

WithoutDevice(tokens, d) == {x \in tokens : x.device # d}

(* Mutant: the record of t stays live beside its tombstone. *)
ConsumedTwice(a, t, key) ==
    [a EXCEPT !.retired = Append(@, [token |-> t, family |-> FamilyOf(a.live, t),
                                     key |-> key, successor |-> None])]

(* The record of t becomes a tombstone. *)
Consumed(a, t, key) ==
    [a EXCEPT !.live = WithoutToken(@, t),
              !.retired = Append(@, [token |-> t, family |-> FamilyOf(a.live, t),
                                     key |-> key, successor |-> None])]

(* prune_retired_refresh_tokens *)
RetiredPruned(a) == [a EXCEPT !.retired = Capped(Unexpired(@), MaxRetired)]

(* prune_refresh_tokens *)
LivePruned(a) == [a EXCEPT !.live = Capped(Unexpired(@), MaxLive)]

(* Mutant: a retry links only the token it was answered from. *)
IssuedForNewest(a, family, relink) ==
    LivePruned([a EXCEPT
        !.live = Append(@, [token |-> issued + 1, family |-> family]),
        !.retired = [i \in DOMAIN @ |-> IF @[i].token \in relink /\ i = Len(@)
                                        THEN [@[i] EXCEPT !.successor = issued + 1] ELSE @[i]]])

(* issue_tokens_in_family: the next token, successor of the tombstones named. *)
Issued(a, family, relink) ==
    LivePruned([a EXCEPT
        !.live = Append(@, [token |-> issued + 1, family |-> family]),
        !.retired = [i \in DOMAIN @ |-> IF @[i].token \in relink
                                        THEN [@[i] EXCEPT !.successor = issued + 1] ELSE @[i]]])

AccessOf(family) == [family |-> family, device |-> DeviceOf[family]]

Trusted(a, d) == d = None \/ a.trust[d] = "trusted"

Out(a, d) == d # None /\ a.trust[d] \in {"revoked", "absent"}

-----------------------------------------------------------------------------
(* A rotation chain never forks: whatever is retried, replayed, lost or      *)
(* written twice, one token at most is live in a sign-in, in memory and in   *)
(* the record a restart would read back (refresh_with_retry_key).            *)
ChainNeverForks ==
    \A a \in {mem, disk} : \A r, q \in Range(a.live) : r.family = q.family => r = q

(* A condemned sign-in stays dead, restarts included: no refresh token of it *)
(* is live in memory or on disk and no access token is left                  *)
(* (revoke_refresh_family).                                                  *)
CondemnedStaysDead ==
    \A f \in condemned :
        /\ \A a \in {mem, disk} : \A r \in Range(a.live) : r.family # f
        /\ \A x \in access : x.family # f

(* A device that is revoked or removed holds no credential, and a revocation *)
(* that was acknowledged survives a restart (set_device_trust,               *)
(* remove_device, login_derived, and the order of their saves).              *)
RevokedHoldsNothing ==
    /\ \A a \in {mem, disk} :
          /\ \A r \in Range(a.live) : ~Out(a, DeviceOf[r.family])
          /\ \A d \in revoked : Out(a, d)
    /\ \A x \in access : ~Out(mem, x.device)

(* A client that lost an answer is not taken for a thief: a sign-in that is  *)
(* still alive is condemned only if somebody else presented a token of it,   *)
(* the grace of the token its client holds ran out, a write failed that was  *)
(* its own or had pruned a tombstone of it, the server crashed between two   *)
(* writes, or a refused retry cost the client its key                        *)
(* (refresh_with_retry_key, unused_successor, and the client's refresh).     *)
HonestIsNotCondemned ==
    [][\A f \in Families :
          /\ mem' = Condemned(mem, f)
          /\ \E r \in Range(Unexpired(mem.live)) : r.family = f
          /\ \E r \in Range(mem.retired) : r.family = f
          => f \in disturbed']_mem

=============================================================================
