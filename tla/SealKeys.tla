------------------------------ MODULE SealKeys ------------------------------
(***************************************************************************)
(* SEAL's signing keys (seal/key-store.ts, signer.ts, verifier.ts).        *)
(*                                                                         *)
(* A tenant's private key is never written to disk: rotation hands it to   *)
(* the caller, who is to put it in the environment of the next start.  The *)
(* public keys are rows of seal_keys, one per version, and a cache in      *)
(* memory that verification alone reads.  A key id is a tenant and a       *)
(* version.  Every start therefore meets an environment that may hold the  *)
(* newest key, an older one, one nobody rotated in, or none; and it keeps  *)
(* the private key when one of the statements that follow throws.          *)
(***************************************************************************)
EXTENDS Naturals, Sequences, FiniteSets

CONSTANTS
  Tenants,
  MaxKeys,      \* bound: key pairs made
  MaxStarts     \* bound: starts of the process

ASSUME SealAssumption == MaxKeys \in Nat \ {0} /\ MaxStarts \in Nat \ {0}

VARIABLES
  rows,      \* seal_keys of each tenant, by version
  active,    \* activeESKs: the private key in memory and its version
  cache,     \* publicKeyCache
  stamping,  \* sign() calls that wait for the timestamp authority
  issued,    \* the tokens handed out
  minted,    \* key pairs made so far; a key is its number
  starts,
  restored,  \* history: tenants whose key the running process found at its start,
             \* and whose rows it read into the cache
  misset,    \* history: key ids a process started under with another key
  unrecorded \* history: what a process signed with after its start had failed to
             \* insert the row, as the tokens it made

history == <<restored, misset, unrecorded>>
vars == <<rows, active, cache, stamping, issued, minted, starts, history>>

Key == 1..MaxKeys
Version == 1..MaxKeys

\* A row, or an entry of the cache.
PublicKey == [key : Key, superseded : BOOLEAN]
Fresh(key) == [key |-> key, superseded |-> FALSE]
Superseded(entry) == [entry EXCEPT !.superseded = TRUE]

\* What a token says: the key id; and the key its signature was made with.
Token == [tenant : Tenants, version : Version, key : Key]

NotLoaded == [key |-> 0, version |-> 0]
Loaded(t) == active[t] # NotLoaded

Newest(t) == Len(rows[t])

Init ==
  /\ rows = [t \in Tenants |-> <<>>]
  /\ active = [t \in Tenants |-> NotLoaded]
  /\ cache = [t \in Tenants |-> <<>>]
  /\ stamping = {} /\ issued = {}
  /\ minted = 0 /\ starts = 0
  /\ restored = {} /\ misset = {} /\ unrecorded = {}

-----------------------------------------------------------------------------
(* initKeyStore.                                                           *)

\* The version a start loads tenant t's key under: the newest, or the first.
StartVersion(t) == IF rows[t] = <<>> THEN 1 ELSE Newest(t)

\* What is left of tenant t's start once it has the private key: the row and the
\* cache, or an INSERT that threw, or the SELECT after it.  The catch of the loop
\* lists the tenant as one without a key, and takes nothing back.
Outcome == {"restored", "unrecorded", "unread"}

\* The rows with the private key `key': INSERT OR IGNORE under that version.
RowsWith(t, key) == IF rows[t] = <<>> THEN <<Fresh(key)>> ELSE rows[t]

\* The mutant does not restore the other versions from the rows.
CacheWithoutRows(t, key) == [v \in {StartVersion(t)} |-> Fresh(key)]

\* The key id's public key is the one derived from the environment; the other
\* versions come from the rows.
CacheWith(t, key) == [RowsWith(t, key) EXCEPT ![StartVersion(t)] = Fresh(key)]

RowsAfter(t, key, outcome) == IF outcome = "unrecorded" THEN rows[t] ELSE RowsWith(t, key)

CacheAfter(t, key, outcome) ==
  IF outcome = "restored" THEN CacheWith(t, key)
  ELSE [v \in {StartVersion(t)} |-> Fresh(key)]

\* The process starts, the first time or again: `env' holds each tenant's
\* key, 0 when it is absent, malformed, the tenant is not in SEAL_TENANTS, or
\* its version cannot be read.  What was in memory is gone.
StartWith(env, outcome) ==
  LET found == {t \in Tenants : env[t] # 0} IN
  /\ starts < MaxStarts
  /\ starts' = starts + 1
  /\ rows' = [t \in Tenants |->
       IF t \in found THEN RowsAfter(t, env[t], outcome[t]) ELSE rows[t]]
  /\ cache' = [t \in Tenants |->
       IF t \in found THEN CacheAfter(t, env[t], outcome[t]) ELSE <<>>]
  /\ active' = [t \in Tenants |->
       IF t \in found THEN [key |-> env[t], version |-> StartVersion(t)] ELSE NotLoaded]
  /\ stamping' = {}
  /\ minted' = IF \E t \in Tenants : env[t] > minted THEN minted + 1 ELSE minted
  /\ restored' = {t \in found : outcome[t] = "restored"}
  /\ misset' = misset \union
       {<<t, Newest(t)>> : t \in {u \in found :
          rows[u] # <<>> /\ rows[u][Newest(u)].key # env[u]}}
  /\ unrecorded' = unrecorded \union
       {[tenant |-> t, version |-> 1, key |-> env[t]] : t \in {u \in found :
          rows[u] = <<>> /\ outcome[u] = "unrecorded"}}
  /\ UNCHANGED issued

\* The environment holds keys handed out earlier, or one made elsewhere.
Start ==
  \E env \in [Tenants -> 0..minted + 1], outcome \in [Tenants -> Outcome] :
    /\ \A t \in Tenants : env[t] <= MaxKeys
    /\ StartWith(env, outcome)

-----------------------------------------------------------------------------
(* rotateKey, which the provisioner calls too.                             *)

\* The active key's row, if there is one, and its entry of the cache are marked
\* superseded.
MarkedRows(t) ==
  IF Loaded(t) /\ active[t].version \in DOMAIN rows[t]
  THEN [rows EXCEPT ![t][active[t].version] = Superseded(@)]
  ELSE rows

MarkedCache(t) ==
  IF Loaded(t)
  THEN [cache[t] EXCEPT ![active[t].version] = Superseded(@)]
  ELSE cache[t]

\* The version follows the table's, not the active key's: what signs without a
\* row has its key id taken over, in the cache too.
Rotate(t) ==
  LET next == Newest(t) + 1 IN
  /\ starts > 0 /\ minted < MaxKeys
  /\ minted' = minted + 1
  /\ rows' = [MarkedRows(t) EXCEPT ![t] = Append(@, Fresh(minted'))]
  /\ cache' = [cache EXCEPT ![t] =
       [v \in DOMAIN MarkedCache(t) \union {next} |->
          IF v = next THEN Fresh(minted') ELSE MarkedCache(t)[v]]]
  /\ active' = [active EXCEPT ![t] = [key |-> minted', version |-> next]]
  /\ UNCHANGED <<stamping, issued, starts, history>>

\* The INSERT fails after the UPDATE: the caller gets an error, the old key
\* goes on signing, marked superseded.  A process that dies between the two
\* statements leaves the same rows behind.
RotateHalfway(t) ==
  /\ Loaded(t)
  /\ rows' = MarkedRows(t)
  /\ cache' = [cache EXCEPT ![t] = MarkedCache(t)]
  /\ UNCHANGED <<active, stamping, issued, minted, starts, history>>

-----------------------------------------------------------------------------
(* sign and verify.                                                        *)

\* The token of a signature made now.
Signed(t) == [tenant |-> t, version |-> active[t].version, key |-> active[t].key]

\* Without a timestamp the token is returned at once.
Sign(t) ==
  /\ Loaded(t)
  /\ issued' = issued \union {Signed(t)}
  /\ UNCHANGED <<rows, active, cache, stamping, minted, starts, history>>

\* With one, the signature and the key id are kept across the await ...
SignAndStamp(t) ==
  /\ Loaded(t)
  /\ stamping' = stamping \union {Signed(t)}
  /\ UNCHANGED <<rows, active, cache, issued, minted, starts, history>>

\* The mutant reads the key id only when the authority has answered.
StampedLate(token) ==
  /\ token \in stamping
  /\ stamping' = stamping \ {token}
  /\ issued' = issued \union {[token EXCEPT !.version = active[token.tenant].version]}
  /\ UNCHANGED <<rows, active, cache, minted, starts, history>>

\* ... until the authority answers, ...
Stamped(token) ==
  /\ token \in stamping
  /\ stamping' = stamping \ {token}
  /\ issued' = issued \union {token}
  /\ UNCHANGED <<rows, active, cache, minted, starts, history>>

\* ... or fails twice, and sign() throws.
StampFails(token) ==
  /\ token \in stamping
  /\ stamping' = stamping \ {token}
  /\ UNCHANGED <<rows, active, cache, issued, minted, starts, history>>

\* verify() of the artifact a token was made for.
Verifies(token) ==
  /\ token.version \in DOMAIN cache[token.tenant]
  /\ cache[token.tenant][token.version].key = token.key

\* The key a caller is given of a version of t's: the cache's; 0: not found.
KeyOf(t, version) == IF version \in DOMAIN cache[t] THEN cache[t][version].key ELSE 0

\* The versions of t's that no rotation has superseded.
Current(t) == {v \in DOMAIN rows[t] : ~rows[t][v].superseded}

\* The mutant has the query's order the wrong way round.
OldestCurrent(t) == CHOOSE v \in Current(t) : \A w \in Current(t) : w >= v

\* ORDER BY version DESC LIMIT 1
NewestCurrent(t) == CHOOSE v \in Current(t) : \A w \in Current(t) : w <= v

\* GET /public-key of a tenant.
ServedKey(t) == IF Current(t) = {} THEN 0 ELSE KeyOf(t, NewestCurrent(t))

-----------------------------------------------------------------------------
Next ==
  \/ Start
  \/ \E t \in Tenants : Rotate(t) \/ RotateHalfway(t) \/ Sign(t) \/ SignAndStamp(t)
  \/ \E token \in stamping : Stamped(token) \/ StampFails(token)

Spec == Init /\ [][Next]_vars

-----------------------------------------------------------------------------
(* Properties.                                                             *)

\* The tables keep their types; a tenant signs under its newest version, or under the
\* first while no row of its own could be inserted, and only made keys are used.
TypeOK ==
  /\ rows \in [Tenants -> Seq(PublicKey)]
  /\ active \in [Tenants -> [key : Key, version : Version] \union {NotLoaded}]
  /\ DOMAIN cache = Tenants
  /\ \A t \in Tenants :
       /\ DOMAIN cache[t] \subseteq Version
       /\ \A v \in DOMAIN cache[t] : cache[t][v] \in PublicKey
       /\ Loaded(t) => active[t].version = StartVersion(t) /\ StartVersion(t) \in DOMAIN cache[t]
  /\ stamping \subseteq Token /\ issued \subseteq Token
  /\ minted \in 0..MaxKeys /\ starts \in 0..MaxStarts
  /\ restored \subseteq Tenants
  /\ misset \subseteq Tenants \X Version
  /\ unrecorded \subseteq Token

\* The table says that the token's key id is its key's.
Recorded(token) ==
  /\ token.version \in DOMAIN rows[token.tenant]
  /\ rows[token.tenant][token.version].key = token.key

\* The token's key signed without a row, and its key id's row is still missing or
\* is another key's by now.
RowLost(token) == token \in unrecorded /\ ~Recorded(token)

\* A token handed out before any number of rotations and restarts verifies in
\* the running process, unless this process did not find the tenant's key or
\* could not read its rows at its start; or a process (this one or the signer's)
\* was started under the token's key id with another key; or the signer's start
\* could not insert the key's row, and the row never came.
SealsVerify ==
  \A token \in issued :
    \/ Verifies(token)
    \/ token.tenant \notin restored
    \/ <<token.tenant, token.version>> \in misset
    \/ RowLost(token)

\* A key id stands for one key: two tokens under it, given out or still waiting for
\* a timestamp, of one process or of several, were made with the same key, unless a
\* process was started under the key id with another, or one of the two keys
\* signed without a row and the row never came.
OneKeyPerId ==
  \A token, other \in issued \union stamping :
    /\ token.tenant = other.tenant /\ token.version = other.version
    /\ <<token.tenant, token.version>> \notin misset
    /\ ~RowLost(token) /\ ~RowLost(other)
    => token.key = other.key

\* Who asks for a tenant's public key gets the one it signs with, unless a
\* rotation stopped halfway and no later one has gone through, or the tenant's
\* start could not insert the row and no rotation has since.
ServedKeySigns ==
  \A t \in Tenants :
    Loaded(t) => \/ ServedKey(t) = active[t].key
                 \/ rows[t] # <<>> /\ rows[t][Newest(t)].superseded
                 \/ rows[t] = <<>> /\ RowLost(Signed(t))
=============================================================================
