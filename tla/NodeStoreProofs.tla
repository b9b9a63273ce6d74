--------------------------- MODULE NodeStoreProofs ---------------------------
(***************************************************************************)
(* Theorems about NodeStore: the inductive invariant IInv, what it implies *)
(* about the keys the centre sends to nodes, and the refinement of         *)
(* KeyLease, for every set of endpoints, keys and secrets.                 *)
(***************************************************************************)
EXTENDS NodeStore, TLAPS

USE MaxIdAssumption

-----------------------------------------------------------------------------
(* Steps that leave every credential alone.                                *)

\* A step that writes no endpoint, hash, fingerprint or sealed copy.
SameCredential(new, old) ==
    /\ new.endpoint = old.endpoint
    /\ new.node_key_hash = old.node_key_hash
    /\ new.key_fingerprint = old.key_fingerprint
    /\ new.node_key_sealed = old.node_key_sealed

KeepsCredentials ==
    /\ DOMAIN rows' \subseteq DOMAIN rows
    /\ \A id \in DOMAIN rows' :
          SameCredential(rows'[id], rows[id])
    /\ generated' = generated

\* The table keeps its rows, or loses one to a deletion.
KeepsRowsOrDeletes ==
    DOMAIN rows' = DOMAIN rows \/ \E id : Delete(id)

\* A step that keeps the credentials keeps the registry consistent and its sealed copies coherent.
LEMMA KeepsCredentialsSafe ==
    ASSUME IInv, KeepsCredentials
    PROVE  RegistryConsistent' /\ SealedCopyCoherent' /\ CredentialsDrawn'
  BY DEF IInv, KeepsCredentials, RegistryConsistent, SealedCopyCoherent,
         CredentialsDrawn, HashNodeKey, SameCredential

\* Registration with the current key of the endpoint.
LEMMA ReuseStep ==
    ASSUME TypeOK, NEW e \in Endpoints, NEW existing, Reuse(e, existing),
           UNCHANGED settings
    PROVE  TypeOK' /\ KeepsCredentials
<1>1. \A row \in Row :
         LET new == [row EXCEPT !.enabled = TRUE]
         IN  new \in Row /\ SameCredential(new, row)
  BY DEF Row, SameCredential
<1>2. /\ DOMAIN rows' = DOMAIN rows
      /\ \A id \in DOMAIN rows :
            rows'[id] \in {rows[id], [rows[id] EXCEPT !.enabled = TRUE]}
      /\ rows' = [id \in DOMAIN rows |-> rows'[id]]
  BY DEF Reuse
<1>3. \A id \in DOMAIN rows : rows[id] \in Row
  BY DEF TypeOK
<1>4. \A id \in DOMAIN rows :
         rows'[id] \in Row /\ SameCredential(rows'[id], rows[id])
  BY <1>1, <1>2, <1>3 DEF SameCredential
<1> QED
  BY <1>2, <1>4 DEF TypeOK, KeepsCredentials, Reuse

\* The switch touches no credential.
LEMMA SetEnabledStep ==
    ASSUME TypeOK, NEW id, NEW b \in BOOLEAN, SetEnabled(id, b)
    PROVE  TypeOK' /\ KeepsCredentials
  BY DEF TypeOK, KeepsCredentials, SameCredential, SetEnabled, Row

\* A deletion leaves the other rows as they are.
LEMMA DeleteStep ==
    ASSUME TypeOK, NEW id, Delete(id)
    PROVE  TypeOK' /\ KeepsCredentials
  BY DEF TypeOK, KeepsCredentials, SameCredential, Delete

\* A result touches the health columns of one row, if it still exists.
LEMMA UpdateHealthResultStep ==
    ASSUME TypeOK, NEW id, NEW b \in BOOLEAN, UpdateHealthResult(id, b)
    PROVE  TypeOK' /\ KeepsCredentials
<1>1. \A row \in Row :
         Recorded(row, b) \in Row /\ SameCredential(Recorded(row, b), row)
  <2>1. SUFFICES ASSUME NEW row \in Row
                 PROVE  /\ Recorded(row, b) \in Row
                        /\ SameCredential(Recorded(row, b), row)
    OBVIOUS
  <2>2. (row.last_seen_at \/ b) \in BOOLEAN /\ (~b) \in BOOLEAN
    BY Zenon
  <2> QED
    BY <2>2 DEF Recorded, Row, SameCredential
<1>2. /\ DOMAIN rows' = DOMAIN rows
      /\ \A i \in DOMAIN rows : rows'[i] \in {rows[i], Recorded(rows[i], b)}
      /\ rows' = [i \in DOMAIN rows |-> rows'[i]]
  BY Zenon DEF UpdateHealthResult
<1>3. \A i \in DOMAIN rows : rows[i] \in Row
  BY DEF TypeOK
<1>4. \A i \in DOMAIN rows :
         rows'[i] \in Row /\ SameCredential(rows'[i], rows[i])
  BY <1>1, <1>2, <1>3 DEF SameCredential
<1> QED
  BY <1>2, <1>4 DEF TypeOK, KeepsCredentials, UpdateHealthResult

\* Other settings leave the table as it is.
LEMMA RestartStep ==
    ASSUME TypeOK, NEW new \in Settings, Restart(new)
    PROVE  TypeOK' /\ KeepsCredentials
  BY DEF TypeOK, KeepsCredentials, SameCredential, Restart

-----------------------------------------------------------------------------
(* Steps that issue a key.                                                 *)

\* What is sealed is the key issued, or nothing.
LEMMA SealKeyFacts ==
    ASSUME settings \in Settings, NEW k \in Keys
    PROVE  /\ SealKey(k) \in Boxes \cup {NoSealed}
           /\ SealKey(k) # NoSealed => SealKey(k).plaintext = k
  BY NoSealedAssumption DEF SealKey, Seal, Settings, Boxes

\* A new row keeps the invariant.
LEMMA InsertStep ==
    ASSUME IInv, NEW e \in Endpoints, NEW k \in Keys, k \notin generated,
           Insert(e, k), generated' = generated \cup {k}, UNCHANGED settings
    PROVE  IInv'
<1> DEFINE row == NewRow(e, k)
<1>1. NextId \notin DOMAIN rows /\ NextId \in 1..sequence'
  BY DEF IInv, TypeOK, Insert, NextId
<1>2. row \in Row
  BY SealKeyFacts DEF IInv, TypeOK, NewRow, Row, HashNodeKey, KeyFingerprint,
                      Hashes, Fingerprints
<1>3. /\ row.endpoint = e
      /\ row.node_key_hash = [sha256 |-> k]
      /\ row.key_fingerprint = [prefix |-> row.node_key_hash]
      /\ row.node_key_sealed = SealKey(k)
  BY DEF NewRow, HashNodeKey, KeyFingerprint
<1> HIDE DEF row
<1>4. /\ DOMAIN rows' = DOMAIN rows \cup {NextId}
      /\ rows'[NextId] = row
      /\ \A id \in DOMAIN rows : rows'[id] = rows[id]
      /\ rows' = [id \in DOMAIN rows \cup {NextId} |->
                     IF id = NextId THEN row ELSE rows[id]]
  BY <1>1 DEF Insert, row
<1>5. TypeOK'
  BY <1>1, <1>2, <1>4 DEF IInv, TypeOK, Insert, NextId
<1>6. \A id \in DOMAIN rows :
         rows[id].endpoint # e /\ rows[id].node_key_hash # row.node_key_hash
  BY <1>3 DEF IInv, CredentialsDrawn, Insert, FindByAddressPort
<1>7. RegistryConsistent'
  BY <1>3, <1>4, <1>6 DEF IInv, RegistryConsistent
<1>8. SealedCopyCoherent'
  BY <1>3, <1>4, SealKeyFacts DEF IInv, TypeOK, SealedCopyCoherent, HashNodeKey
<1>9. CredentialsDrawn'
  BY <1>3, <1>4 DEF IInv, CredentialsDrawn
<1> QED
  BY <1>5, <1>7, <1>8, <1>9 DEF IInv

\* A rotation keeps the invariant.
LEMMA RotateStep ==
    ASSUME IInv, NEW e \in Endpoints, NEW k \in Keys, k \notin generated,
           Rotate(e, k), generated' = generated \cup {k}, UNCHANGED settings
    PROVE  IInv'
<1> DEFINE target == FindByAddressPort(e)
<1>1. /\ DOMAIN rows' = DOMAIN rows
      /\ \A id \in DOMAIN rows \ target : rows'[id] = rows[id]
      /\ \A id \in target : rows'[id] = Rekeyed(rows[id], k)
      /\ rows' = [id \in DOMAIN rows |-> rows'[id]]
      /\ target \subseteq DOMAIN rows
  BY DEF Rotate, FindByAddressPort
<1>2. \A id \in target :
         /\ rows'[id] \in Row
         /\ rows'[id].endpoint = rows[id].endpoint
         /\ rows'[id].node_key_hash = [sha256 |-> k]
         /\ rows'[id].key_fingerprint = [prefix |-> [sha256 |-> k]]
         /\ rows'[id].node_key_sealed = SealKey(k)
  <2>1. SUFFICES ASSUME NEW id \in target
        PROVE /\ Rekeyed(rows[id], k) \in Row
              /\ Rekeyed(rows[id], k).endpoint = rows[id].endpoint
              /\ Rekeyed(rows[id], k).node_key_hash = [sha256 |-> k]
              /\ Rekeyed(rows[id], k).key_fingerprint = [prefix |-> [sha256 |-> k]]
              /\ Rekeyed(rows[id], k).node_key_sealed = SealKey(k)
    BY <1>1
  <2>2. rows[id] \in Row
    BY <1>1 DEF IInv, TypeOK
  <2> QED
    BY <2>2, SealKeyFacts DEF Rekeyed, Row, HashNodeKey, KeyFingerprint, Hashes,
                              Fingerprints, IInv, TypeOK
<1>3. \A i, j \in target : i = j
  BY DEF IInv, RegistryConsistent, FindByAddressPort
<1>4. \A id \in DOMAIN rows \ target :
         rows[id].endpoint # e /\ rows[id].node_key_hash # [sha256 |-> k]
  BY DEF IInv, CredentialsDrawn, FindByAddressPort
<1>5. \A id \in target : rows[id].endpoint = e
  BY DEF FindByAddressPort
<1> HIDE DEF target
<1>6. TypeOK'
  BY <1>1, <1>2 DEF IInv, TypeOK, Rotate
<1>7. RegistryConsistent'
  BY <1>1, <1>2, <1>3, <1>4, <1>5 DEF IInv, RegistryConsistent
<1>8. SealedCopyCoherent'
  BY <1>1, <1>2, SealKeyFacts DEF IInv, TypeOK, SealedCopyCoherent, HashNodeKey
<1>9. CredentialsDrawn'
  BY <1>1, <1>2 DEF IInv, CredentialsDrawn
<1> QED
  BY <1>6, <1>7, <1>8, <1>9 DEF IInv

-----------------------------------------------------------------------------
(* The invariant.                                                          *)

\* What a step of the centre does to the table: it keeps every credential, or
\* issues a key never drawn before to one endpoint.
LEMMA StepCases ==
    ASSUME IInv, Next
    PROVE  \/ TypeOK' /\ KeepsCredentials /\ KeepsRowsOrDeletes
           \/ \E e \in Endpoints, k \in Keys :
                 /\ k \notin generated
                 /\ generated' = generated \cup {k}
                 /\ UNCHANGED settings
                 /\ Insert(e, k) \/ Rotate(e, k)
<1>1. ASSUME NEW auto \in BOOLEAN, NEW e \in Endpoints,
             NEW presented \in Keys \cup {NoKey}, NEW newKey \in Keys,
             Register(auto, e, presented, newKey)
      PROVE  \/ TypeOK' /\ KeepsCredentials /\ KeepsRowsOrDeletes
             \/ /\ newKey \notin generated
                /\ generated' = generated \cup {newKey}
                /\ UNCHANGED settings
                /\ Insert(e, newKey) \/ Rotate(e, newKey)
  <2>1. \A existing : Reuse(e, existing) => DOMAIN rows' = DOMAIN rows
    BY DEF Reuse
  <2> QED
    BY <1>1, <2>1, ReuseStep, Zenon
    DEF Register, RegisterOrReuse, IInv, KeepsRowsOrDeletes
<1>2. ASSUME NEW id \in 1..MaxId, NEW b \in BOOLEAN,
             Delete(id) \/ SetEnabled(id, b) \/ UpdateHealthResult(id, b)
      PROVE  TypeOK' /\ KeepsCredentials /\ KeepsRowsOrDeletes
  <2>1. SetEnabled(id, b) \/ UpdateHealthResult(id, b) =>
           DOMAIN rows' = DOMAIN rows
    BY DEF SetEnabled, UpdateHealthResult
  <2> QED
    BY <1>2, <2>1, DeleteStep, SetEnabledStep, UpdateHealthResultStep
    DEF IInv, KeepsRowsOrDeletes
<1>3. ASSUME NEW new \in Settings, Restart(new)
      PROVE  TypeOK' /\ KeepsCredentials /\ KeepsRowsOrDeletes
  BY <1>3, RestartStep DEF IInv, KeepsRowsOrDeletes, Restart
<1> QED
  BY <1>1, <1>2, <1>3, Zenon DEF Next

\* Every step keeps the invariant.
LEMMA InvariantIsInductive ==
    ASSUME IInv, [Next]_vars
    PROVE  IInv'
<1>1. CASE Next
  <2>1. CASE TypeOK' /\ KeepsCredentials
    BY <2>1, KeepsCredentialsSafe DEF IInv
  <2>2. CASE \E e \in Endpoints, k \in Keys :
                /\ k \notin generated
                /\ generated' = generated \cup {k}
                /\ UNCHANGED settings
                /\ Insert(e, k) \/ Rotate(e, k)
    BY <2>2, InsertStep, RotateStep
  <2> QED
    BY <1>1, <2>1, <2>2, StepCases
<1>2. CASE UNCHANGED vars
  BY <1>2 DEF IInv, TypeOK, RegistryConsistent, SealedCopyCoherent,
              CredentialsDrawn, vars
<1> QED
  BY <1>1, <1>2

\* The empty table satisfies the invariant.
LEMMA InvariantHoldsAtStart ==
    ASSUME Init
    PROVE  IInv
  BY DEF Init, IInv, TypeOK, RegistryConsistent, SealedCopyCoherent,
         CredentialsDrawn

\* Every reachable table satisfies IInv.
THEOREM InvariantHolds == Spec => []IInv
  BY InvariantHoldsAtStart, InvariantIsInductive, PTL DEF Spec

-----------------------------------------------------------------------------
(* Consequences.                                                           *)

\* Every column keeps its type.
THEOREM TypeCorrect == Spec => []TypeOK
  BY InvariantHolds, PTL DEF IInv

\* The lookups of RegisterOrReuse never have two rows to choose from.
THEOREM Consistent == Spec => []RegistryConsistent
  BY InvariantHolds, PTL DEF IInv

\* The invariant leaves resolveNodeKey no key but the current one.
LEMMA ResolvesToCurrent ==
    ASSUME IInv
    PROVE  ResolvedKeyIsCurrent
<1>1. SUFFICES ASSUME NEW id \in DOMAIN rows,
                      NEW supplied \in Keys \cup {NoKey}, NEW k \in Keys,
                      ResolvesTo(rows[id], supplied, k)
               PROVE  rows[id].node_key_hash = HashNodeKey(k)
  BY DEF ResolvedKeyIsCurrent
<1>2. CASE supplied = k /\ HashNodeKey(k) = rows[id].node_key_hash
  BY <1>2
<1>3. CASE rows[id].node_key_sealed = Seal(settings.SECRET_KEY, k)
  <2>1. Seal(settings.SECRET_KEY, k) \in Boxes
    BY DEF IInv, TypeOK, Settings, Seal, Boxes
  <2>2. rows[id].node_key_sealed # NoSealed
    BY <1>3, <2>1, NoSealedAssumption
  <2>3. rows[id].node_key_sealed.plaintext = k
    BY <1>3 DEF Seal
  <2> QED
    BY <2>2, <2>3 DEF IInv, SealedCopyCoherent
<1> QED
  BY <1>1, <1>2, <1>3 DEF ResolvesTo

\* No health check, speed test or proxied request is made with a key that was
\* rotated away.
THEOREM NeverSendsStaleKey == Spec => []ResolvedKeyIsCurrent
  BY ResolvesToCurrent, InvariantHolds, PTL

-----------------------------------------------------------------------------
(* The table implements the lease promise.                                 *)

\* The lease of a row.
LeaseOf(row) == <<row.endpoint, row.node_key_hash.sha256>>

\* Inserting a row and rotating a key are the abstract Issue.
LEMMA NewKeyIsAnIssue ==
    ASSUME IInv, NEW e \in Endpoints, NEW k \in Keys, k \notin generated,
           generated' = generated \cup {k}, Insert(e, k) \/ Rotate(e, k)
    PROVE  Lease!Issue(e, k)
<1> DEFINE target == FindByAddressPort(e)
<1>1. Leases' = (Leases \ {l \in Leases : l[1] = e}) \cup {<<e, k>>}
  <2>1. CASE Insert(e, k)
    <3>1. /\ DOMAIN rows' = DOMAIN rows \cup {NextId}
          /\ LeaseOf(rows'[NextId]) = <<e, k>>
          /\ NextId \notin DOMAIN rows
          /\ \A id \in DOMAIN rows : rows'[id] = rows[id]
      BY <2>1 DEF Insert, NewRow, HashNodeKey, LeaseOf, IInv, TypeOK, NextId
    <3>2. \A id \in DOMAIN rows : rows[id].endpoint # e
      BY <2>1 DEF Insert, FindByAddressPort
    <3> QED
      BY <3>1, <3>2 DEF Leases, LeaseOf
  <2>2. CASE Rotate(e, k)
    <3>1. /\ DOMAIN rows' = DOMAIN rows
          /\ \A id \in DOMAIN rows \ target : rows'[id] = rows[id]
          /\ \A id \in target : rows'[id] = Rekeyed(rows[id], k)
          /\ target # {} /\ target \subseteq DOMAIN rows
      BY <2>2 DEF Rotate, FindByAddressPort
    <3>2. \A id \in target : LeaseOf(rows'[id]) = <<e, k>>
      <4>1. SUFFICES ASSUME NEW id \in target
                     PROVE  LeaseOf(Rekeyed(rows[id], k)) = <<e, k>>
        BY <3>1
      <4>2. rows[id] \in Row /\ rows[id].endpoint = e
        BY <3>1 DEF IInv, TypeOK, FindByAddressPort
      <4> QED
        BY <4>2 DEF Rekeyed, Row, HashNodeKey, LeaseOf
    <3>3. \A id \in DOMAIN rows : id \in target <=> rows[id].endpoint = e
      BY DEF FindByAddressPort
    <3> HIDE DEF target
    <3>4. Leases = {LeaseOf(rows[id]) : id \in DOMAIN rows}
          /\ Leases' = {LeaseOf(rows'[id]) : id \in DOMAIN rows'}
      BY DEF Leases, LeaseOf
    <3>5. \A id \in DOMAIN rows : LeaseOf(rows[id])[1] = rows[id].endpoint
      BY DEF LeaseOf
    <3> QED
      BY <3>1, <3>2, <3>3, <3>4, <3>5
  <2> QED
    BY <2>1, <2>2
<1>2. k \notin generated /\ generated' = generated \cup {k}
  OBVIOUS
<1> QED
  BY <1>1, <1>2 DEF Lease!Issue, Lease!LeasesOf

\* Deleting a row is the abstract Revoke; every other step that keeps the
\* credentials leaves the leases alone.
LEMMA OtherStepsRevokeOrStutter ==
    ASSUME IInv, KeepsCredentials, KeepsRowsOrDeletes
    PROVE  \/ UNCHANGED <<Leases, generated>>
           \/ \E e \in Endpoints : Lease!Revoke(e)
<1>1. \A id \in DOMAIN rows' : LeaseOf(rows'[id]) = LeaseOf(rows[id])
  BY DEF KeepsCredentials, SameCredential, LeaseOf
<1>2. /\ Leases = {LeaseOf(rows[id]) : id \in DOMAIN rows}
      /\ Leases' = {LeaseOf(rows'[id]) : id \in DOMAIN rows'}
  BY DEF Leases, LeaseOf
<1>3. CASE DOMAIN rows' = DOMAIN rows
  BY <1>1, <1>2, <1>3 DEF KeepsCredentials
<1>4. ASSUME NEW id, Delete(id)
      PROVE  \E e \in Endpoints : Lease!Revoke(e)
  <2> DEFINE e == rows[id].endpoint
  <2>1. id \in DOMAIN rows /\ DOMAIN rows' = DOMAIN rows \ {id}
    BY <1>4 DEF Delete
  <2>2. e \in Endpoints
    BY <2>1 DEF IInv, TypeOK, Row
  <2>3. \A i \in DOMAIN rows : LeaseOf(rows[i])[1] = e <=> i = id
    BY <2>1 DEF IInv, RegistryConsistent, LeaseOf
  <2>4. Leases' = Leases \ {l \in Leases : l[1] = e}
    <3> HIDE DEF e
    <3> QED
      BY <1>1, <1>2, <2>1, <2>3
  <2>5. generated' = generated
    BY DEF KeepsCredentials
  <2>6. Lease!Revoke(e)
    BY <2>4, <2>5 DEF Lease!Revoke, Lease!LeasesOf
  <2> QED
    BY <2>2, <2>6
<1> QED
  BY <1>3, <1>4 DEF KeepsRowsOrDeletes

\* NodeStore implements KeyLease: an endpoint's key changes only by drawing a
\* fresh one, in the step that ends the old lease, and a registration changes
\* no other endpoint's key.
THEOREM ImplementsKeyLease == Spec => LeaseSpec
<1>1. Init => Lease!Init
  BY DEF Init, Lease!Init, Leases
<1>2. ASSUME IInv, [Next]_vars
      PROVE  [Lease!Next]_(Lease!vars)
  <2>1. CASE Next
    <3>1. CASE TypeOK' /\ KeepsCredentials /\ KeepsRowsOrDeletes
      BY <1>2, <3>1, OtherStepsRevokeOrStutter DEF Lease!Next, Lease!vars
    <3>2. ASSUME NEW e \in Endpoints, NEW k \in Keys, k \notin generated,
                 generated' = generated \cup {k}, UNCHANGED settings,
                 Insert(e, k) \/ Rotate(e, k)
          PROVE  Lease!Next
      BY <1>2, <3>2, NewKeyIsAnIssue DEF Lease!Next
    <3> QED
      BY <1>2, <2>1, <3>1, <3>2, StepCases
  <2>2. CASE UNCHANGED vars
    BY <2>2 DEF vars, Leases, Lease!vars
  <2> QED
    BY <1>2, <2>1, <2>2
<1> QED
  BY <1>1, <1>2, InvariantHolds, PTL DEF Spec, LeaseSpec, Lease!Spec

\* A key that stopped being current is never accepted again.
THEOREM RetiredKeysStayRetired == Spec => RetiredForever
<1>1. ASSUME [Lease!Next]_(Lease!vars)
      PROVE  [\A k \in generated : k \notin Lease!Current =>
                 k \notin Lease!Current']_(Lease!vars)
  <2>1. ASSUME NEW e \in Endpoints, NEW k \in Keys, Lease!Issue(e, k),
               NEW old \in generated, old \notin Lease!Current
        PROVE  old \notin Lease!Current'
    BY <2>1 DEF Lease!Issue, Lease!Current
  <2>2. ASSUME NEW e \in Endpoints, Lease!Revoke(e),
               NEW old \in generated, old \notin Lease!Current
        PROVE  old \notin Lease!Current'
    BY <2>2 DEF Lease!Revoke, Lease!Current
  <2> QED
    BY <1>1, <2>1, <2>2 DEF Lease!Next
<1> QED
  BY <1>1, ImplementsKeyLease, PTL DEF LeaseSpec, Lease!Spec, RetiredForever,
                                       Lease!RetiredForever

=============================================================================
