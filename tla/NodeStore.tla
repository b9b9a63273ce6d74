------------------------------ MODULE NodeStore ------------------------------
(***************************************************************************)
(* The node table of the centre (internal/store), with the key handling    *)
(* that RegisterOrReuse is given by the registration handlers              *)
(* (cmd/web/register.go, internal/security, internal/sealedbox) and the    *)
(* key resolution of the admin handlers (resolveNodeKey in                 *)
(* cmd/web/nodes.go).  Every exported store operation holds Store.mu from  *)
(* its first to its last statement, so each is one action.                 *)
(*                                                                         *)
(* name, protocol and metadata_json are left out: no decision and no       *)
(* property reads them.  created_at and updated_at are left out too.       *)
(***************************************************************************)
EXTENDS Naturals

CONSTANTS Endpoints,    \* (address, port) pairs accepted by netguard
          Keys,         \* the values GenerateNodeKey may draw
          SecretKeys,   \* the values of SECRET_KEY the centre is run with
          MaxId,        \* bound: the largest row id the model assigns
          NoKey,        \* the empty node_key
          NoSealed      \* node_key_sealed IS NULL

Settings == [SECRET_KEY : SecretKeys, STORE_NODE_KEY_SEALED : BOOLEAN]
Hashes == [sha256 : Keys]
Fingerprints == [prefix : Hashes]
Boxes == [under : SecretKeys, plaintext : Keys]

ASSUME MaxIdAssumption == MaxId \in Nat
ASSUME NoKeyAssumption == NoKey \notin Keys
ASSUME NoSealedAssumption == NoSealed \notin Boxes

VARIABLES rows,         \* the table: id -> row
          sequence,     \* sqlite_sequence: the largest id ever assigned
          generated,    \* every key drawn so far (the generator never repeats)
          settings      \* the settings of the running centre

vars == <<rows, sequence, generated, settings>>

-----------------------------------------------------------------------------
(* Key material.  SHA-256 is taken to be injective and AES-GCM to reject   *)
(* every box made under another SECRET_KEY.                                *)

HashNodeKey(k) == [sha256 |-> k]
KeyFingerprint(k) == [prefix |-> HashNodeKey(k)]
Seal(secret, k) == [under |-> secret, plaintext |-> k]

\* GenerateNodeKey, in the modules that need not consider every value it may
\* draw: keys are only ever compared for equality, so which unused one is taken
\* makes no difference.  NoKey when there is none left.
DrawnKey == IF generated = Keys THEN NoKey
                                ELSE CHOOSE k \in Keys : k \notin generated

\* The SealKey closure of the registration handler: NULL unless sealing is on.
SealKey(k) ==
    IF settings.STORE_NODE_KEY_SEALED THEN Seal(settings.SECRET_KEY, k)
                                      ELSE NoSealed

\* Seeded fault: a supplied key is not compared with the stored hash.
ResolvesToSupplied(row, supplied, k) ==
    \/ supplied = k
    \/ supplied = NoKey /\ row.node_key_sealed = Seal(settings.SECRET_KEY, k)

\* resolveNodeKey accepts the key k for a row: a supplied key must match the
\* stored hash (there is no fallback when it does not), and without one the
\* sealed copy must open under the current SECRET_KEY.
ResolvesTo(row, supplied, k) ==
    \/ supplied = k /\ HashNodeKey(k) = row.node_key_hash
    \/ supplied = NoKey /\ row.node_key_sealed = Seal(settings.SECRET_KEY, k)

-----------------------------------------------------------------------------
(* Rows and queries.                                                       *)

Row == [endpoint        : Endpoints,
        node_key_hash   : Hashes,
        key_fingerprint : Fingerprints,
        node_key_sealed : Boxes \cup {NoSealed},
        enabled         : BOOLEAN,
        last_status     : {"unknown", "online", "error"},
        last_latency_ms : BOOLEAN,      \* TRUE: not NULL
        last_error      : BOOLEAN,      \* TRUE: not NULL
        last_seen_at    : BOOLEAN]      \* TRUE: not NULL

FindByAddressPort(e) == {id \in DOMAIN rows : rows[id].endpoint = e}
FindByKeyHash(h) == {id \in DOMAIN rows : rows[id].node_key_hash = h}

NewRow(e, k) ==
    [endpoint        |-> e,
     node_key_hash   |-> HashNodeKey(k),
     key_fingerprint |-> KeyFingerprint(k),
     node_key_sealed |-> SealKey(k),
     enabled         |-> TRUE,
     last_status     |-> "unknown",
     last_latency_ms |-> FALSE,
     last_error      |-> FALSE,
     last_seen_at    |-> FALSE]

\* Seeded fault: the sealed copy is only overwritten by a non-NULL one.
RekeyedKeepingSealed(row, k) ==
    [row EXCEPT !.node_key_hash   = HashNodeKey(k),
                !.key_fingerprint = KeyFingerprint(k),
                !.node_key_sealed = IF SealKey(k) = NoSealed THEN @
                                                             ELSE SealKey(k),
                !.enabled         = TRUE]

Rekeyed(row, k) ==
    [row EXCEPT !.node_key_hash   = HashNodeKey(k),
                !.key_fingerprint = KeyFingerprint(k),
                !.node_key_sealed = SealKey(k),
                !.enabled         = TRUE]

\* Seeded fault: a success leaves last_error of the failure before it.
RecordedKeepingError(row, online) ==
    [row EXCEPT !.last_status     = IF online THEN "online" ELSE "error",
                !.last_latency_ms = online,
                !.last_error      = row.last_error \/ ~online,
                !.last_seen_at    = row.last_seen_at \/ online]

Recorded(row, online) ==
    [row EXCEPT !.last_status     = IF online THEN "online" ELSE "error",
                !.last_latency_ms = online,
                !.last_error      = ~online,
                !.last_seen_at    = row.last_seen_at \/ online]

\* Seeded fault: without AUTOINCREMENT, SQLite takes the largest id plus one.
NextRowid ==
    CHOOSE n \in 1..(MaxId + 1) :
       /\ \A id \in DOMAIN rows : id < n
       /\ n = 1 \/ n - 1 \in DOMAIN rows

\* id INTEGER PRIMARY KEY AUTOINCREMENT: an id is never handed out twice.
NextId == sequence + 1

-----------------------------------------------------------------------------
(* RegisterOrReuse.                                                        *)

\* Seeded fault: the row the key belongs to need not be the one under e.
ReusesAnywhere(e, existing) ==
    existing # NoKey /\ FindByKeyHash(HashNodeKey(existing)) # {}

\* The key presented belongs to the row that is registered under e.
Reuses(e, existing) ==
    /\ existing # NoKey
    /\ FindByKeyHash(HashNodeKey(existing)) \cap FindByAddressPort(e) # {}

\* The credential is kept exactly as it is stored: hash, fingerprint and
\* sealed copy are not written.
Reuse(e, existing) ==
    /\ Reuses(e, existing)
    /\ rows' = [id \in DOMAIN rows |->
                   IF id \in FindByAddressPort(e)
                   THEN [rows[id] EXCEPT !.enabled = TRUE] ELSE rows[id]]
    /\ UNCHANGED <<sequence, generated>>

\* Seeded fault: the row gets the id after the largest one in the table, as
\* without AUTOINCREMENT, and sqlite_sequence does not move.
InsertUnsequenced(e, k) ==
    /\ FindByAddressPort(e) = {}
    /\ NextId <= MaxId
    /\ rows' = [id \in DOMAIN rows \cup {NextId} |->
                   IF id = NextId THEN NewRow(e, k) ELSE rows[id]]
    /\ UNCHANGED sequence

Insert(e, k) ==
    /\ FindByAddressPort(e) = {}
    /\ NextId <= MaxId
    /\ rows' = [id \in DOMAIN rows \cup {NextId} |->
                   IF id = NextId THEN NewRow(e, k) ELSE rows[id]]
    /\ sequence' = NextId

Rotate(e, k) ==
    /\ FindByAddressPort(e) # {}
    /\ rows' = [id \in DOMAIN rows |->
                   IF id \in FindByAddressPort(e)
                   THEN Rekeyed(rows[id], k) ELSE rows[id]]
    /\ UNCHANGED sequence

\* Seeded fault: a presented key that cannot be reused is adopted as the new
\* key, so that a node survives the loss of its row without a rotation.
RegisterOrAdopt(e, existing, newKey) ==
    LET key == IF existing = NoKey THEN newKey ELSE existing IN
    /\ UNCHANGED settings
    /\ \/ Reuse(e, existing)
       \/ /\ ~Reuses(e, existing)
          /\ key \in Keys
          /\ generated' = generated \cup {key}
          /\ Insert(e, key) \/ Rotate(e, key)

\* newKey is what GenerateNodeKey draws when the call has to issue a key.  The
\* model issues no key when all of Keys have been drawn: a bound.
RegisterOrReuse(e, existing, newKey) ==
    /\ UNCHANGED settings
    /\ \/ Reuse(e, existing)
       \/ /\ ~Reuses(e, existing)
          /\ newKey \in Keys \ generated
          /\ generated' = generated \cup {newKey}
          /\ Insert(e, newKey) \/ Rotate(e, newKey)

\* The key the caller gets back.
GrantedKey(e, existing, newKey) ==
    IF Reuses(e, existing) THEN existing ELSE newKey

\* POST /api/register/auto passes existing_node_key on, POST /api/register
\* ignores it.
Register(auto, e, presented, newKey) ==
    RegisterOrReuse(e, IF auto THEN presented ELSE NoKey, newKey)

-----------------------------------------------------------------------------
(* The other operations.                                                   *)

SetEnabled(id, enabled) ==
    /\ id \in DOMAIN rows
    /\ rows' = [rows EXCEPT ![id].enabled = enabled]
    /\ UNCHANGED <<sequence, generated, settings>>

Delete(id) ==
    /\ id \in DOMAIN rows
    /\ rows' = [i \in DOMAIN rows \ {id} |-> rows[i]]
    /\ UNCHANGED <<sequence, generated, settings>>

\* The two calls the handlers make: UpdateHealthResult(id, "online", &latency,
\* nil, true) and UpdateHealthResult(id, "error", nil, &msg, false).  A row
\* that is gone is ErrNotFound, which both callers ignore.
UpdateHealthResult(id, online) ==
    /\ rows' = [i \in DOMAIN rows |->
                   IF i = id THEN Recorded(rows[i], online) ELSE rows[i]]
    /\ UNCHANGED <<sequence, generated, settings>>

\* The centre is stopped and started, possibly with another SECRET_KEY or
\* STORE_NODE_KEY_SEALED; the database keeps its content.
Restart(new) ==
    /\ settings' = new
    /\ UNCHANGED <<rows, sequence, generated>>

Init ==
    /\ rows = [id \in {} |-> {}]
    /\ sequence = 0
    /\ generated = {}
    /\ settings \in Settings

Next ==
    \/ \E e \in Endpoints, presented \in Keys \cup {NoKey}, newKey \in Keys :
          Register(TRUE, e, presented, newKey)
    \/ \E e \in Endpoints, newKey \in Keys : Register(FALSE, e, NoKey, newKey)
    \/ \E id \in 1..MaxId :
          \/ Delete(id)
          \/ \E b \in BOOLEAN : SetEnabled(id, b) \/ UpdateHealthResult(id, b)
    \/ \E new \in Settings : Restart(new)

Spec == Init /\ [][Next]_vars

-----------------------------------------------------------------------------
(* Properties.                                                             *)

\* Every column has a value of its type, and no row has an id above the
\* largest one assigned.
TypeOK ==
    /\ sequence \in 0..MaxId
    /\ DOMAIN rows \subseteq 1..sequence
    /\ rows \in [DOMAIN rows -> Row]
    /\ generated \subseteq Keys
    /\ settings \in Settings

\* No two rows share an endpoint or a credential: the lookups by
\* (address, port) and by hash, both QueryRow, have at most one row to return.
RegistryConsistent ==
    \A i, j \in DOMAIN rows :
       \/ rows[i].endpoint = rows[j].endpoint
       \/ rows[i].node_key_hash = rows[j].node_key_hash
       => i = j

\* A sealed copy, whenever and under whatever SECRET_KEY it was made, seals
\* the key whose hash and fingerprint are in the row.
SealedCopyCoherent ==
    \A id \in DOMAIN rows :
       /\ rows[id].key_fingerprint = [prefix |-> rows[id].node_key_hash]
       /\ rows[id].node_key_sealed # NoSealed =>
             HashNodeKey(rows[id].node_key_sealed.plaintext)
                = rows[id].node_key_hash

\* The stored hashes are hashes of keys the generator has drawn.
CredentialsDrawn ==
    \A id \in DOMAIN rows : rows[id].node_key_hash.sha256 \in generated

\* The inductive invariant: a fresh key differs from every stored one because
\* the stored ones were drawn, so rotation and insertion keep credentials
\* distinct; the sealed copy follows the hash.
IInv == TypeOK /\ RegistryConsistent /\ SealedCopyCoherent /\ CredentialsDrawn

\* Whatever key resolveNodeKey hands to a health check, a speed test or a
\* proxy is the node's current one, across rotations with sealing on and off
\* and changes of SECRET_KEY: a stale key is never sent to a node.
ResolvedKeyIsCurrent ==
    \A id \in DOMAIN rows, supplied \in Keys \cup {NoKey}, k \in Keys :
       ResolvesTo(rows[id], supplied, k) =>
          rows[id].node_key_hash = HashNodeKey(k)

\* README.md:22 of the repository: with STORE_NODE_KEY_SEALED=true the centre
\* checks and tests a node without the administrator supplying its key.  Read
\* for a node that has just registered itself under that setting.
SealedModeProbesAutomatically ==
    [][\A e \in Endpoints, presented \in Keys \cup {NoKey}, newKey \in Keys :
          /\ Register(TRUE, e, presented, newKey)
          /\ settings.STORE_NODE_KEY_SEALED
          => \A id \in FindByAddressPort(e)' :
                \E k \in Keys : ResolvesTo(rows[id], NoKey, k)']_vars

-----------------------------------------------------------------------------
(* The leases of KeyLease: one per row.                                    *)

Leases == {<<rows[id].endpoint, rows[id].node_key_hash.sha256>> :
              id \in DOMAIN rows}

Lease == INSTANCE KeyLease WITH leases <- Leases, spent <- generated

\* The table implements the lease promise: a registration renews the lease of
\* its own endpoint, or replaces it by a key never seen before; no call
\* touches the lease of another endpoint or revives an old key.
LeaseSpec == Lease!Spec

\* A key invalidated by a rotation or a deletion is never accepted again,
\* whatever keys later registrations present.
RetiredForever == Lease!RetiredForever
=============================================================================
