----------------------------- MODULE Datagrams ------------------------------
(***************************************************************************)
(* The two peers of a session and the datagrams in flight between them: a  *)
(* bag, as the map from each record in flight to its number of copies.     *)
(***************************************************************************)
EXTENDS Integers

CONSTANT MaxCopies     \* bound: copies of one frame in flight

ASSUME CopiesAssumption == MaxCopies \in Nat \ {0}

Peers == {"Host", "Client"}

Other(p) == CHOOSE q \in Peers : q # p

(* One more copy of each record; one beyond the bound on copies is lost. *)
AddCopies(b, records) ==
    [r \in DOMAIN b \cup records |->
        CASE r \notin DOMAIN b -> 1
          [] r \in DOMAIN b /\ r \in records /\ b[r] < MaxCopies -> b[r] + 1
          [] OTHER -> b[r]]

(* One copy less. *)
RemoveCopy(b, record) ==
    [r \in {q \in DOMAIN b : q # record \/ b[q] > 1} |-> IF r = record THEN b[r] - 1 ELSE b[r]]

=============================================================================
