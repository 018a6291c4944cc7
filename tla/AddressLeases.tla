--------------------------- MODULE AddressLeases ---------------------------
(***************************************************************************)
(* What the handshake server promises about tunnel addresses, without its  *)
(* threads, its sweep, its calls to wg and its order of saving: a client   *)
(* is leased an address that nobody else has, keeps that one for as long   *)
(* as it is known, and the leases of a restarted server are those of some  *)
(* save, none of them changed. The number of leases stays within a limit   *)
(* chosen at the start, unless more were saved under an earlier one.       *)
(***************************************************************************)
EXTENDS Integers, FiniteSets

CONSTANTS
    Clients,
    Addresses

VARIABLES
    on,        \* whether the service runs
    limit,     \* how many leases it grants
    lease,     \* the address of each known client
    saved      \* the leases as they were last saved

leaseVars == <<on, limit, lease, saved>>

Leased == {lease[c] : c \in DOMAIN lease}
NoLeases == [c \in {} |-> 0]

Init ==
    /\ on = FALSE /\ limit = 0
    /\ lease = NoLeases /\ saved = NoLeases

\* The service starts with the leases that were saved.
Boot ==
    /\ ~on
    /\ on' = TRUE
    /\ limit' \in 0..Cardinality(Addresses)
    /\ lease' = saved
    /\ UNCHANGED saved

\* It dies and forgets.
Die ==
    /\ on
    /\ on' = FALSE
    /\ lease' = NoLeases
    /\ UNCHANGED <<limit, saved>>

\* A client it does not know is leased some address that is free.
Grant(c) ==
    /\ on /\ c \notin DOMAIN lease
    /\ Cardinality(DOMAIN lease) < limit
    /\ \E a \in Addresses \ Leased :
          lease' = [d \in DOMAIN lease \cup {c} |-> IF d = c THEN a ELSE lease[d]]
    /\ UNCHANGED <<on, limit, saved>>

\* A client is dropped.
Release(c) ==
    /\ on /\ c \in DOMAIN lease
    /\ lease' = [d \in DOMAIN lease \ {c} |-> lease[d]]
    /\ UNCHANGED <<on, limit, saved>>

\* The leases are saved.
Save ==
    /\ on
    /\ saved' = lease
    /\ UNCHANGED <<on, limit, lease>>

Next == Boot \/ Die \/ Save \/ \E c \in Clients : Grant(c) \/ Release(c)

Spec == Init /\ [][Next]_leaseVars
=============================================================================
