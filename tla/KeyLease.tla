------------------------------- MODULE KeyLease -------------------------------
(***************************************************************************)
(* What the registry of speed-test nodes promises about node keys, without *)
(* rows, ids, hashes or sealed copies.  A lease <<e, k>> says that key k   *)
(* is the one the centre accepts as the credential of endpoint e (an       *)
(* address and port).  A key is drawn once, at random, leased to one       *)
(* endpoint, and never comes back after it stopped being current.          *)
(***************************************************************************)
CONSTANTS Endpoints,    \* the address:port pairs nodes register under
          Keys          \* the values the key generator may draw

VARIABLES leases,       \* the current <<endpoint, key>> pairs
          spent         \* every key ever drawn

vars == <<leases, spent>>

LeasesOf(e) == {l \in leases : l[1] = e}

Current == {l[2] : l \in leases}

Init == leases = {} /\ spent = {}

\* A registration that does not renew: the endpoint's previous lease ends in
\* the very step that starts the new one.
Issue(e, k) ==
    /\ k \notin spent
    /\ leases' = (leases \ LeasesOf(e)) \cup {<<e, k>>}
    /\ spent' = spent \cup {k}

\* The node is removed from the registry.
Revoke(e) ==
    /\ leases' = leases \ LeasesOf(e)
    /\ spent' = spent

Next ==
    \E e \in Endpoints : Revoke(e) \/ \E k \in Keys : Issue(e, k)

\* Renewing a lease (a re-registration that presents the current key) changes
\* nothing, so it is a stuttering step.
Spec == Init /\ [][Next]_vars

-----------------------------------------------------------------------------

\* A key that is not current any more never becomes current again: rotation
\* and deletion are final.
RetiredForever ==
    [][\A k \in spent : k \notin Current => k \notin Current']_vars
=============================================================================
