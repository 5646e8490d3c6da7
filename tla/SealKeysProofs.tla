--------------------------- MODULE SealKeysProofs ---------------------------
(***************************************************************************)
(* Theorems about SEAL's keys, for any tenants and any number of keys and  *)
(* starts.                                                                 *)
(*                                                                         *)
(* The table never changes a version's key, so it is what everything else  *)
(* is compared with: a restored tenant's cache is the table (CacheMatches);*)
(* a token's key is the table's (TokensMatch), and so is the key that      *)
(* signs now, which the cache holds under its version (ActiveMatches); but *)
(* for the key ids that a start bound to another key, and the keys that    *)
(* signed without a row.                                                   *)
(***************************************************************************)
EXTENDS SealKeys, TLAPS

\* No tenant has more versions than key pairs were made.
RowsBounded == \A t \in Tenants : Newest(t) <= minted

CacheMatches ==
  \A t \in restored :
    /\ DOMAIN cache[t] = 1..Newest(t)
    /\ \A v \in 1..Newest(t) : cache[t][v].key = rows[t][v].key \/ <<t, v>> \in misset

\* What the table and the histories say of a token's key.
Known(token) ==
  \/ /\ token.version \in 1..Newest(token.tenant)
     /\ \/ token.key = rows[token.tenant][token.version].key
        \/ <<token.tenant, token.version>> \in misset
  \/ token \in unrecorded

TokensMatch == \A token \in issued \union stamping : Known(token)

ActiveMatches ==
  \A t \in Tenants :
    Loaded(t) => /\ cache[t][StartVersion(t)].key = active[t].key
                 /\ Known(Signed(t))

Inv == TypeOK /\ RowsBounded /\ CacheMatches /\ TokensMatch /\ ActiveMatches

\* The shape of one tenant's tables.
LEMMA Shape ==
  ASSUME TypeOK, NEW t \in Tenants
  PROVE  /\ rows[t] \in Seq(PublicKey)
         /\ Newest(t) \in Nat /\ DOMAIN rows[t] = 1..Newest(t)
         /\ \A v \in 1..Newest(t) : rows[t][v] \in PublicKey
         /\ rows[t] = <<>> <=> Newest(t) = 0
         /\ StartVersion(t) \in Nat \ {0}
         /\ StartVersion(t) = IF Newest(t) = 0 THEN 1 ELSE Newest(t)
         /\ active[t] \in [key : Key, version : Version] \union {NotLoaded}
         /\ active[t].key \in Nat /\ active[t].version \in Nat
         /\ Loaded(t) => active[t].key \in Key /\ active[t].version = StartVersion(t)
<1>1. /\ rows[t] \in Seq(PublicKey)
      /\ Newest(t) \in Nat /\ DOMAIN rows[t] = 1..Newest(t)
      /\ \A v \in 1..Newest(t) : rows[t][v] \in PublicKey
      /\ rows[t] = <<>> <=> Newest(t) = 0
  BY DEF TypeOK, Newest
<1>2. /\ StartVersion(t) \in Nat \ {0}
      /\ StartVersion(t) = IF Newest(t) = 0 THEN 1 ELSE Newest(t)
  BY <1>1 DEF StartVersion
<1>3. /\ active[t] \in [key : Key, version : Version] \union {NotLoaded}
      /\ active[t].key \in Nat /\ active[t].version \in Nat
      /\ Loaded(t) => active[t].key \in Key /\ active[t].version = StartVersion(t)
  BY SMT DEF TypeOK, Loaded, NotLoaded, Key, Version
<1>4. QED
  BY <1>1, <1>2, <1>3

\* What is known of a token stays so while the table keeps its keys.
LEMMA KnownStays ==
  ASSUME NEW token \in Token, Known(token),
         Newest(token.tenant) \in Nat, Newest(token.tenant)' \in Nat,
         Newest(token.tenant) <= Newest(token.tenant)',
         \A v \in 1..Newest(token.tenant) : rows'[token.tenant][v].key = rows[token.tenant][v].key,
         misset \subseteq misset', unrecorded \subseteq unrecorded'
  PROVE  Known(token)'
<1>1. CASE token \in unrecorded
  BY <1>1 DEF Known
<1>2. CASE token \notin unrecorded
  <2>1. token.version \in 1..Newest(token.tenant)
        /\ \/ token.key = rows[token.tenant][token.version].key
           \/ <<token.tenant, token.version>> \in misset
    BY <1>2 DEF Known
  <2>2. token.version \in 1..Newest(token.tenant)'
        /\ rows'[token.tenant][token.version].key = rows[token.tenant][token.version].key
    BY <2>1
  <2>3. QED
    BY <2>1, <2>2 DEF Known
<1>3. QED
  BY <1>1, <1>2

\* Marking a key superseded leaves every version's key and the rest of the
\* table as they are.
LEMMA Marked ==
  ASSUME TypeOK, NEW t \in Tenants
  PROVE  /\ MarkedRows(t) \in [Tenants -> Seq(PublicKey)]
         /\ \A u \in Tenants : Len(MarkedRows(t)[u]) = Newest(u)
         /\ \A u \in Tenants : u # t => MarkedRows(t)[u] = rows[u]
         /\ \A v \in 1..Newest(t) : MarkedRows(t)[t][v].key = rows[t][v].key
         /\ DOMAIN MarkedCache(t) = DOMAIN cache[t]
         /\ \A v \in DOMAIN cache[t] :
              MarkedCache(t)[v] \in PublicKey /\ MarkedCache(t)[v].key = cache[t][v].key
<1>1. \A e \in PublicKey : Superseded(e) \in PublicKey /\ Superseded(e).key = e.key
  BY DEF PublicKey, Superseded
<1> DEFINE n == active[t].version
           marked == [rows[t] EXCEPT ![n] = Superseded(@)]
<1>2. rows[t] \in Seq(PublicKey) /\ DOMAIN rows[t] = 1..Newest(t) /\ Newest(t) \in Nat
  BY Shape
<1>3. rows \in [Tenants -> Seq(PublicKey)] /\ \A v \in DOMAIN cache[t] : cache[t][v] \in PublicKey
  BY DEF TypeOK
<1>4. /\ MarkedRows(t) \in [Tenants -> Seq(PublicKey)]
      /\ \A u \in Tenants : Len(MarkedRows(t)[u]) = Newest(u)
      /\ \A u \in Tenants : u # t => MarkedRows(t)[u] = rows[u]
      /\ \A v \in 1..Newest(t) : MarkedRows(t)[t][v].key = rows[t][v].key
  <2>1. CASE ~(Loaded(t) /\ n \in DOMAIN rows[t])
    BY <1>3, <2>1 DEF MarkedRows, Newest
  <2>2. CASE Loaded(t) /\ n \in DOMAIN rows[t]
    <3>1. MarkedRows(t) = [rows EXCEPT ![t] = marked]
      BY <2>2 DEF MarkedRows
    <3>2. marked \in Seq(PublicKey) /\ Len(marked) = Newest(t)
          /\ \A v \in 1..Newest(t) : marked[v].key = rows[t][v].key
      BY <1>1, <1>2, <2>2 DEF Newest
    <3> HIDE DEF marked
    <3>3. QED
      BY <1>3, <3>1, <3>2 DEF Newest
  <2>3. QED
    BY <2>1, <2>2
<1>5. /\ DOMAIN MarkedCache(t) = DOMAIN cache[t]
      /\ \A v \in DOMAIN cache[t] :
           MarkedCache(t)[v] \in PublicKey /\ MarkedCache(t)[v].key = cache[t][v].key
  BY <1>1, <1>3 DEF MarkedCache
<1>6. QED
  BY <1>4, <1>5

-----------------------------------------------------------------------------
\* An empty database and a process that has not started.
LEMMA InitInv == Init => Inv
  BY SealAssumption
  DEF Init, Inv, TypeOK, RowsBounded, CacheMatches, TokensMatch, ActiveMatches,
      Newest, Loaded, NotLoaded, Key, Version

\* What a start makes of one tenant's rows and cache, whichever of its statements
\* throws: no row changes, and the key is in the cache under the version it signs with.
LEMMA TenantStarted ==
  ASSUME TypeOK, NEW t \in Tenants, NEW key \in Key, NEW outcome \in Outcome
  PROVE  /\ RowsAfter(t, key, outcome) \in Seq(PublicKey)
         /\ Len(RowsAfter(t, key, outcome)) \in {Newest(t), StartVersion(t)}
         /\ Newest(t) <= Len(RowsAfter(t, key, outcome))
         /\ \A v \in 1..Newest(t) : RowsAfter(t, key, outcome)[v] = rows[t][v]
         /\ outcome # "unrecorded" \/ Newest(t) # 0
              => Len(RowsAfter(t, key, outcome)) = StartVersion(t)
         /\ outcome # "unrecorded" /\ Newest(t) = 0
              => RowsAfter(t, key, outcome)[1].key = key
         /\ outcome = "unrecorded" => RowsAfter(t, key, outcome) = rows[t]
         /\ DOMAIN CacheAfter(t, key, outcome) \subseteq 1..StartVersion(t)
         /\ StartVersion(t) \in DOMAIN CacheAfter(t, key, outcome)
         /\ \A v \in DOMAIN CacheAfter(t, key, outcome) : CacheAfter(t, key, outcome)[v] \in PublicKey
         /\ CacheAfter(t, key, outcome)[StartVersion(t)].key = key
         /\ outcome = "restored"
              => /\ DOMAIN CacheAfter(t, key, outcome) = 1..StartVersion(t)
                 /\ \A v \in 1..StartVersion(t) :
                      v # StartVersion(t)
                        => CacheAfter(t, key, outcome)[v] = RowsAfter(t, key, outcome)[v]
<1> DEFINE n == StartVersion(t)
<1>1. /\ rows[t] \in Seq(PublicKey)
      /\ Newest(t) \in Nat /\ DOMAIN rows[t] = 1..Newest(t) /\ Newest(t) = Len(rows[t])
      /\ \A v \in 1..Newest(t) : rows[t][v] \in PublicKey
      /\ rows[t] = <<>> <=> Newest(t) = 0
      /\ n \in Nat \ {0} /\ n = IF Newest(t) = 0 THEN 1 ELSE Newest(t)
  BY Shape DEF Newest
<1>2. Fresh(key) \in PublicKey /\ Fresh(key).key = key
  BY DEF Fresh, PublicKey
<1> HIDE DEF n
<1>3. /\ RowsWith(t, key) \in Seq(PublicKey) /\ Len(RowsWith(t, key)) = n
      /\ DOMAIN RowsWith(t, key) = 1..n
      /\ \A v \in 1..n : RowsWith(t, key)[v] \in PublicKey
      /\ \A v \in 1..Newest(t) : RowsWith(t, key)[v] = rows[t][v]
      /\ Newest(t) = 0 => RowsWith(t, key)[1].key = key
  <2>1. CASE rows[t] = <<>>
    <3>1. RowsWith(t, key) = <<Fresh(key)>> /\ Newest(t) = 0 /\ n = 1
      BY <1>1, <2>1 DEF RowsWith
    <3>2. QED
      BY <1>2, <3>1
  <2>2. CASE rows[t] # <<>>
    <3>1. RowsWith(t, key) = rows[t] /\ Newest(t) # 0 /\ n = Newest(t)
      BY <1>1, <2>2 DEF RowsWith
    <3>2. QED
      BY <1>1, <3>1
  <2>3. QED
    BY <2>1, <2>2
<1>4. /\ DOMAIN CacheWith(t, key) = 1..n /\ CacheWith(t, key)[n] = Fresh(key)
      /\ \A v \in 1..n : v # n => CacheWith(t, key)[v] = RowsWith(t, key)[v]
  <2>1. CacheWith(t, key) = [RowsWith(t, key) EXCEPT ![n] = Fresh(key)]
    BY DEF CacheWith, n
  <2>2. n \in 1..n
    BY <1>1
  <2>3. QED
    BY <1>3, <2>1, <2>2
<1>5. /\ \A v \in 1..n : CacheWith(t, key)[v] \in PublicKey
      /\ n \in 1..n
  BY <1>1, <1>2, <1>3, <1>4
<1>6. CASE outcome = "restored"
  <2>1. RowsAfter(t, key, outcome) = RowsWith(t, key) /\ CacheAfter(t, key, outcome) = CacheWith(t, key)
    BY <1>6 DEF RowsAfter, CacheAfter
  <2>2. Newest(t) <= n
    BY <1>1
  <2>3. QED
    BY <1>2, <1>3, <1>4, <1>5, <1>6, <2>1, <2>2 DEF n
<1>7. CASE outcome # "restored"
  <2>1. CacheAfter(t, key, outcome) = [v \in {n} |-> Fresh(key)]
    BY <1>7 DEF CacheAfter, n
  <2>2. /\ DOMAIN CacheAfter(t, key, outcome) = {n}
        /\ CacheAfter(t, key, outcome)[n] = Fresh(key)
    BY <2>1
  <2>3. CASE outcome = "unrecorded"
    <3>1. RowsAfter(t, key, outcome) = rows[t]
      BY <2>3 DEF RowsAfter
    <3>2. QED
      BY <1>1, <1>2, <1>5, <2>2, <2>3, <3>1 DEF n
  <2>4. CASE outcome # "unrecorded"
    <3>1. RowsAfter(t, key, outcome) = RowsWith(t, key)
      BY <2>4 DEF RowsAfter
    <3>2. Newest(t) <= n
      BY <1>1
    <3>3. QED
      BY <1>2, <1>3, <1>5, <1>7, <2>2, <2>4, <3>1, <3>2 DEF n
  <2>5. QED
    BY <2>3, <2>4
<1>8. QED
  BY <1>6, <1>7

\* A start takes the newest key id for the environment's key; if the two do not
\* belong together the id is one of misset from then on, and a key whose row
\* cannot be inserted is one of unrecorded.
LEMMA StartKeeps == Inv /\ Start => Inv'
<1> SUFFICES ASSUME Inv, NEW env \in [Tenants -> 0..minted + 1],
                    NEW outcome \in [Tenants -> Outcome],
                    \A t \in Tenants : env[t] <= MaxKeys, StartWith(env, outcome)
             PROVE  Inv'
  BY DEF Start
<1> DEFINE found == {t \in Tenants : env[t] # 0}
<1>1. TypeOK /\ RowsBounded /\ minted \in Nat /\ MaxKeys \in Nat \ {0}
  BY SealAssumption DEF Inv, TypeOK
<1>2. minted' \in 0..MaxKeys /\ minted <= minted' /\ \A t \in Tenants : env[t] <= minted'
  <2>1. CASE \E t \in Tenants : env[t] > minted
    <3>1. PICK t \in Tenants : env[t] > minted
      BY <2>1
    <3>2. minted' = minted + 1
      BY <2>1 DEF StartWith
    <3>3. QED
      BY <1>1, <3>1, <3>2
  <2>2. CASE ~\E t \in Tenants : env[t] > minted
    <3>1. minted' = minted
      BY <2>2 DEF StartWith
    <3>2. QED
      BY <1>1, <2>2, <3>1 DEF TypeOK
  <2>3. QED
    BY <2>1, <2>2
<1>3. \A t \in found : t \in Tenants /\ env[t] \in Key /\ outcome[t] \in Outcome
  BY <1>1 DEF Key
<1>4. ASSUME NEW t \in Tenants
      PROVE  /\ t \in found => /\ rows'[t] = RowsAfter(t, env[t], outcome[t])
                               /\ cache'[t] = CacheAfter(t, env[t], outcome[t])
                               /\ active'[t] = [key |-> env[t], version |-> StartVersion(t)]
             /\ t \notin found => rows'[t] = rows[t] /\ cache'[t] = <<>> /\ active'[t] = NotLoaded
  BY DEF StartWith
<1>5. /\ stamping' = {} /\ issued' = issued /\ found \subseteq Tenants
      /\ restored' = {t \in found : outcome[t] = "restored"}
      /\ starts' \in 0..MaxStarts
      /\ rows' = [t \in Tenants |-> rows'[t]] /\ cache' = [t \in Tenants |-> cache'[t]]
      /\ active' = [t \in Tenants |-> active'[t]]
  <2>1. starts \in 0..MaxStarts /\ MaxStarts \in Nat
    BY <1>1, SealAssumption DEF TypeOK
  <2>2. QED
    BY <2>1 DEF StartWith
<1>6. ASSUME NEW t \in Tenants
      PROVE  /\ Newest(t) \in Nat /\ Newest(t) <= minted
             /\ StartVersion(t) \in Version /\ StartVersion(t) \in Nat \ {0}
             /\ StartVersion(t) = IF Newest(t) = 0 THEN 1 ELSE Newest(t)
             /\ rows[t] = <<>> <=> Newest(t) = 0
  <2>1. minted <= MaxKeys
    BY <1>1 DEF TypeOK
  <2>2. QED
    BY <1>1, <2>1, Shape DEF RowsBounded, Version
<1>7. /\ misset \subseteq misset' /\ misset' \subseteq Tenants \X Version
      /\ unrecorded \subseteq unrecorded' /\ unrecorded' \subseteq Token
      /\ \A t \in found : Newest(t) # 0 =>
           rows[t][Newest(t)].key = env[t] \/ <<t, Newest(t)>> \in misset'
      /\ \A t \in found : Newest(t) = 0 /\ outcome[t] = "unrecorded" =>
           [tenant |-> t, version |-> 1, key |-> env[t]] \in unrecorded'
  <2> DEFINE wrong == {u \in found : rows[u] # <<>> /\ rows[u][Newest(u)].key # env[u]}
             lost == {u \in found : rows[u] = <<>> /\ outcome[u] = "unrecorded"}
  <2>1. /\ misset' = misset \union {<<t, Newest(t)>> : t \in wrong}
        /\ unrecorded' = unrecorded \union {[tenant |-> t, version |-> 1, key |-> env[t]] : t \in lost}
    BY DEF StartWith
  <2>2. \A t \in wrong : <<t, Newest(t)>> \in Tenants \X Version
    BY <1>3, <1>6
  <2>3. \A t \in lost : [tenant |-> t, version |-> 1, key |-> env[t]] \in Token
    BY <1>1, <1>3 DEF Token, Version
  <2>4. \A t \in found : Newest(t) # 0 /\ rows[t][Newest(t)].key # env[t] => t \in wrong
    BY <1>3, <1>6
  <2>5. \A t \in found : Newest(t) = 0 /\ outcome[t] = "unrecorded" => t \in lost
    BY <1>3, <1>6
  <2>6. misset \subseteq Tenants \X Version /\ unrecorded \subseteq Token
    BY <1>1 DEF TypeOK
  <2> HIDE DEF wrong, lost
  <2>7. QED
    BY <2>1, <2>2, <2>3, <2>4, <2>5, <2>6
<1> HIDE DEF found
<1>8. ASSUME NEW t \in Tenants
      PROVE  /\ rows'[t] \in Seq(PublicKey) /\ Newest(t)' = Len(rows'[t])
             /\ Newest(t)' \in Nat /\ Newest(t)' <= minted' /\ Newest(t) <= Newest(t)'
             /\ \A v \in 1..Newest(t) : rows'[t][v] = rows[t][v]
  <2>1. rows[t] \in Seq(PublicKey) /\ Newest(t) = Len(rows[t])
    BY <1>1, Shape DEF Newest
  <2>2. Newest(t)' = Len(rows'[t])
    BY DEF Newest
  <2>3. CASE t \in found
    <3>1. env[t] \in Key /\ outcome[t] \in Outcome /\ env[t] >= 1 /\ env[t] <= minted'
      BY <1>2, <1>3, <2>3 DEF Key
    <3>2. /\ rows'[t] \in Seq(PublicKey)
          /\ Len(rows'[t]) \in {Newest(t), StartVersion(t)}
          /\ Newest(t) <= Len(rows'[t])
          /\ \A v \in 1..Newest(t) : rows'[t][v] = rows[t][v]
      <4>1. rows'[t] = RowsAfter(t, env[t], outcome[t])
        BY <1>4, <2>3
      <4>2. QED
        BY <1>1, <3>1, <4>1, TenantStarted
    <3>3. Newest(t) \in Nat /\ StartVersion(t) \in Nat /\ Newest(t) <= minted
          /\ (StartVersion(t) = 1 \/ StartVersion(t) = Newest(t))
      BY <1>6
    <3>4. minted \in Nat /\ minted' \in Nat /\ minted <= minted' /\ 1 <= minted'
      BY <1>1, <1>2, <3>1 DEF Key
    <3>5. StartVersion(t) <= minted' /\ Newest(t) <= minted'
      BY <3>3, <3>4
    <3>6. Newest(t)' \in Nat /\ Newest(t)' <= minted' /\ Newest(t) <= Newest(t)'
      BY <2>2, <3>2, <3>3, <3>5
    <3>7. QED
      BY <2>2, <3>2, <3>6
  <2>4. CASE t \notin found
    <3>1. rows'[t] = rows[t]
      BY <1>4, <2>4
    <3>2. QED
      BY <1>1, <1>2, <1>6, <2>1, <2>2, <3>1
  <2>5. QED
    BY <2>3, <2>4
<1>9. ASSUME NEW t \in found
      PROVE  /\ StartVersion(t)' = StartVersion(t)
             /\ DOMAIN cache'[t] \subseteq Version /\ StartVersion(t) \in DOMAIN cache'[t]
             /\ \A v \in DOMAIN cache'[t] : cache'[t][v] \in PublicKey
             /\ cache'[t][StartVersion(t)].key = active'[t].key
             /\ active'[t] \in [key : Key, version : Version]
             /\ active'[t].version = StartVersion(t)
             /\ Known(Signed(t))'
             /\ outcome[t] = "restored" => DOMAIN cache'[t] = 1..Newest(t)'
             /\ outcome[t] = "restored" => \A v \in 1..Newest(t)' :
                  cache'[t][v].key = rows'[t][v].key \/ <<t, v>> \in misset'
  <2>1. t \in Tenants /\ env[t] \in Key /\ outcome[t] \in Outcome
    BY <1>3
  <2>2. /\ rows'[t] = RowsAfter(t, env[t], outcome[t])
        /\ cache'[t] = CacheAfter(t, env[t], outcome[t])
        /\ active'[t] = [key |-> env[t], version |-> StartVersion(t)]
    BY <1>4, <2>1
  <2>3. /\ rows'[t] \in Seq(PublicKey)
        /\ Len(rows'[t]) \in {Newest(t), StartVersion(t)}
        /\ \A v \in 1..Newest(t) : rows'[t][v] = rows[t][v]
        /\ outcome[t] # "unrecorded" \/ Newest(t) # 0 => Len(rows'[t]) = StartVersion(t)
        /\ outcome[t] # "unrecorded" /\ Newest(t) = 0 => rows'[t][1].key = env[t]
        /\ DOMAIN cache'[t] \subseteq 1..StartVersion(t) /\ StartVersion(t) \in DOMAIN cache'[t]
        /\ \A v \in DOMAIN cache'[t] : cache'[t][v] \in PublicKey
        /\ cache'[t][StartVersion(t)].key = env[t]
        /\ outcome[t] = "restored"
             => /\ DOMAIN cache'[t] = 1..StartVersion(t)
                /\ \A v \in 1..StartVersion(t) :
                     v # StartVersion(t) => cache'[t][v] = rows'[t][v]
    BY <1>1, <2>1, <2>2, TenantStarted
  <2>4. Newest(t) \in Nat /\ StartVersion(t) \in Version /\ StartVersion(t) \in Nat \ {0}
        /\ StartVersion(t) = IF Newest(t) = 0 THEN 1 ELSE Newest(t)
    BY <1>6, <2>1
  <2>5. Newest(t)' = Len(rows'[t]) /\ (rows'[t] = <<>> <=> Len(rows'[t]) = 0)
    BY <2>3 DEF Newest
  <2>6. StartVersion(t)' = StartVersion(t)
    <3>1. StartVersion(t)' = IF Newest(t)' = 0 THEN 1 ELSE Newest(t)'
      BY <2>5 DEF StartVersion
    <3>2. QED
      BY <2>3, <2>4, <2>5, <3>1
  <2>7. 1..StartVersion(t) \subseteq Version
    BY <1>1, <2>4 DEF Version
  <2>8. active'[t] \in [key : Key, version : Version] /\ active'[t].version = StartVersion(t)
        /\ active'[t].key = env[t]
    BY <2>1, <2>2, <2>4
  <2>9. Signed(t)' = [tenant |-> t, version |-> StartVersion(t), key |-> env[t]]
    BY <2>8 DEF Signed
  <2>10. Newest(t) # 0 => rows[t][Newest(t)].key = env[t] \/ <<t, Newest(t)>> \in misset'
    BY <1>7
  <2>11. outcome[t] # "unrecorded" \/ Newest(t) # 0
           => /\ StartVersion(t) = Newest(t)' /\ StartVersion(t) \in 1..Newest(t)'
              /\ rows'[t][StartVersion(t)].key = env[t] \/ <<t, StartVersion(t)>> \in misset'
    <3>1. CASE Newest(t) # 0
      <4>1. StartVersion(t) = Newest(t) /\ Newest(t)' = Newest(t) /\ Newest(t) \in 1..Newest(t)
        BY <2>3, <2>4, <2>5, <3>1
      <4>2. rows'[t][Newest(t)] = rows[t][Newest(t)]
        BY <2>3, <4>1
      <4>3. QED
        BY <2>10, <3>1, <4>1, <4>2
    <3>2. CASE Newest(t) = 0
      BY <2>3, <2>4, <2>5, <3>2
    <3>3. QED
      BY <3>1, <3>2
  <2>12. Known(Signed(t))'
    <3>1. CASE outcome[t] # "unrecorded" \/ Newest(t) # 0
      <4>1. Signed(t)'.tenant = t /\ Signed(t)'.version = StartVersion(t) /\ Signed(t)'.key = env[t]
        BY <2>9
      <4>2. QED
        BY <2>11, <3>1, <4>1 DEF Known
    <3>2. CASE outcome[t] = "unrecorded" /\ Newest(t) = 0
      <4>1. Signed(t)' \in unrecorded'
        BY <1>7, <2>4, <2>9, <3>2
      <4>2. QED
        BY <4>1 DEF Known
    <3>3. QED
      BY <3>1, <3>2
  <2>13. ASSUME outcome[t] = "restored"
         PROVE  /\ DOMAIN cache'[t] = 1..Newest(t)'
                /\ \A v \in 1..Newest(t)' : cache'[t][v].key = rows'[t][v].key \/ <<t, v>> \in misset'
    <3>1. Newest(t)' = StartVersion(t)
      BY <2>11, <2>13
    <3>2. rows'[t][StartVersion(t)].key = cache'[t][StartVersion(t)].key
          \/ <<t, StartVersion(t)>> \in misset'
      BY <2>3, <2>11, <2>13
    <3>3. QED
      BY <2>3, <2>13, <3>1, <3>2
  <2>14. DOMAIN cache'[t] \subseteq Version
    BY <2>3, <2>7
  <2>15. QED
    BY <2>3, <2>6, <2>8, <2>12, <2>13, <2>14
<1>10. ASSUME NEW t \in Tenants, t \notin found
       PROVE  active'[t] = NotLoaded /\ ~Loaded(t)' /\ DOMAIN cache'[t] = {}
  <2>1. cache'[t] = <<>> /\ active'[t] = NotLoaded
    BY <1>4, <1>10
  <2>2. QED
    BY <2>1 DEF Loaded
<1>11. TypeOK'
  <2>1. rows' \in [Tenants -> Seq(PublicKey)]
    BY <1>5, <1>8
  <2>2. active' \in [Tenants -> [key : Key, version : Version] \union {NotLoaded}]
    BY <1>5, <1>9, <1>10
  <2>3. DOMAIN cache' = Tenants
    BY <1>5
  <2>4. ASSUME NEW t \in Tenants
        PROVE  /\ DOMAIN cache'[t] \subseteq Version
               /\ \A v \in DOMAIN cache'[t] : cache'[t][v] \in PublicKey
               /\ Loaded(t)' => /\ active'[t].version = StartVersion(t)'
                                /\ StartVersion(t)' \in DOMAIN cache'[t]
    <3>1. CASE t \in found
      BY <1>9, <3>1
    <3>2. CASE t \notin found
      BY <1>10, <3>2
    <3>3. QED
      BY <3>1, <3>2
  <2>5. stamping' \subseteq Token /\ issued' \subseteq Token
    BY <1>1, <1>5 DEF TypeOK
  <2>6. restored' \subseteq Tenants
    BY <1>5
  <2>7. QED
    BY <1>2, <1>5, <1>7, <2>1, <2>2, <2>3, <2>4, <2>5, <2>6 DEF TypeOK
<1>12. RowsBounded'
  BY <1>8 DEF RowsBounded
<1>13. CacheMatches'
  BY <1>5, <1>9 DEF CacheMatches
<1>14. TokensMatch'
  <2> SUFFICES ASSUME NEW token \in issued PROVE Known(token)'
    BY <1>5 DEF TokensMatch
  <2>1. token \in Token /\ token.tenant \in Tenants /\ Known(token)
    BY <1>1 DEF Inv, TokensMatch, TypeOK, Token
  <2>2. /\ Newest(token.tenant) \in Nat /\ Newest(token.tenant)' \in Nat
        /\ Newest(token.tenant) <= Newest(token.tenant)'
        /\ \A v \in 1..Newest(token.tenant) : rows'[token.tenant][v].key = rows[token.tenant][v].key
    BY <1>6, <1>8, <2>1
  <2>3. QED
    BY <1>7, <2>1, <2>2, KnownStays
<1>15. ActiveMatches'
  <2> SUFFICES ASSUME NEW t \in Tenants, Loaded(t)'
               PROVE  cache'[t][StartVersion(t)'].key = active'[t].key /\ Known(Signed(t))'
    BY DEF ActiveMatches
  <2>1. t \in found
    BY <1>10
  <2>2. QED
    BY <1>9, <2>1
<1>16. QED
  BY <1>11, <1>12, <1>13, <1>14, <1>15 DEF Inv

\* A rotation appends a version and changes no other version's key.
LEMMA RotateKeeps == ASSUME Inv, NEW t \in Tenants, Rotate(t) PROVE Inv'
<1> DEFINE key == minted + 1
           next == Newest(t) + 1
           kept == MarkedRows(t)
           old == MarkedCache(t)
           new == [v \in DOMAIN old \union {next} |-> IF v = next THEN Fresh(key) ELSE old[v]]
<1>1. TypeOK /\ minted \in Nat /\ MaxKeys \in Nat /\ minted < MaxKeys
  BY SealAssumption DEF Inv, TypeOK, Rotate
<1>2. /\ minted' = key
      /\ rows' = [kept EXCEPT ![t] = Append(@, Fresh(key))]
      /\ cache' = [cache EXCEPT ![t] = new]
      /\ active' = [active EXCEPT ![t] = [key |-> key, version |-> next]]
      /\ UNCHANGED <<stamping, issued, starts, restored, misset, unrecorded>>
  BY DEF Rotate, history
<1>3. /\ kept \in [Tenants -> Seq(PublicKey)]
      /\ \A u \in Tenants : Len(kept[u]) = Newest(u)
      /\ \A u \in Tenants : u # t => kept[u] = rows[u]
      /\ \A v \in 1..Newest(t) : kept[t][v].key = rows[t][v].key
      /\ DOMAIN old = DOMAIN cache[t]
      /\ \A v \in DOMAIN cache[t] : old[v] \in PublicKey /\ old[v].key = cache[t][v].key
  BY <1>1, Marked
<1>4. \A u \in Tenants : Newest(u) \in Nat /\ Newest(u) <= minted
                          /\ DOMAIN cache[u] \subseteq Version
                          /\ \A v \in DOMAIN cache[u] : cache[u][v] \in PublicKey
  BY <1>1, Shape DEF Inv, RowsBounded, TypeOK
<1>5. Fresh(key) \in PublicKey /\ Fresh(key).key = key /\ key \in Key /\ next \in Version
  BY <1>1, <1>4 DEF Fresh, PublicKey, Key, Version
<1> HIDE DEF kept, old
<1>6. /\ rows' \in [Tenants -> Seq(PublicKey)]
      /\ Newest(t)' = next /\ rows'[t] # <<>> /\ rows'[t][next] = Fresh(key)
      /\ \A u \in Tenants : u # t => rows'[u] = rows[u] /\ Newest(u)' = Newest(u)
      /\ \A v \in 1..Newest(t) : rows'[t][v].key = rows[t][v].key
  BY <1>2, <1>3, <1>4, <1>5 DEF Newest
<1>7. \A u \in Tenants : /\ Newest(u)' \in Nat /\ Newest(u) <= Newest(u)'
                          /\ \A v \in 1..Newest(u) : rows'[u][v].key = rows[u][v].key
  BY <1>4, <1>6
<1>8. /\ DOMAIN new = DOMAIN cache[t] \union {next} /\ new[next] = Fresh(key)
      /\ \A v \in DOMAIN cache[t] :
           new[v] \in PublicKey /\ (v # next => new[v].key = cache[t][v].key)
  BY <1>3, <1>5
<1> HIDE DEF new
<1>9. /\ DOMAIN cache' = Tenants /\ cache'[t] = new
      /\ \A u \in Tenants : u # t => cache'[u] = cache[u] /\ active'[u] = active[u]
      /\ active'[t] = [key |-> key, version |-> next]
      /\ StartVersion(t)' = next
      /\ \A u \in Tenants : u # t => StartVersion(u)' = StartVersion(u)
  <2>1. StartVersion(t)' = next
    BY <1>6 DEF StartVersion
  <2>2. \A u \in Tenants : u # t => StartVersion(u)' = StartVersion(u)
    BY <1>6 DEF StartVersion
  <2>3. QED
    BY <1>1, <1>2, <2>1, <2>2 DEF TypeOK
<1>a. next = Newest(t) + 1 /\ key = minted + 1
  OBVIOUS
<1> HIDE DEF next, key
<1>10. ASSUME NEW u \in Tenants
       PROVE  /\ DOMAIN cache'[u] \subseteq Version
              /\ \A v \in DOMAIN cache'[u] : cache'[u][v] \in PublicKey
              /\ Loaded(u)' => active'[u].version = StartVersion(u)' /\ StartVersion(u)' \in DOMAIN cache'[u]
  <2>1. CASE u = t
    BY <1>4, <1>5, <1>8, <1>9, <2>1
  <2>2. CASE u # t
    <3>1. Loaded(u)' <=> Loaded(u)
      BY <1>9, <2>2 DEF Loaded
    <3>2. QED
      BY <1>1, <1>9, <2>2, <3>1 DEF TypeOK
  <2>3. QED
    BY <2>1, <2>2
<1>11. TypeOK'
  <2>1. active' \in [Tenants -> [key : Key, version : Version] \union {NotLoaded}]
    BY <1>1, <1>2, <1>5 DEF TypeOK
  <2>2. minted' \in 0..MaxKeys
    BY <1>1, <1>2, <1>a
  <2>3. QED
    BY <1>1, <1>2, <1>6, <1>9, <1>10, <2>1, <2>2 DEF TypeOK
<1>12. RowsBounded'
  <2> SUFFICES ASSUME NEW u \in Tenants PROVE Newest(u)' <= minted'
    BY DEF RowsBounded
  <2>1. CASE u = t
    <3>1. Newest(u)' = next
      BY <1>6, <2>1 DEF Newest
    <3>2. QED
      BY <1>1, <1>2, <1>4, <1>a, <3>1
  <2>2. CASE u # t
    <3>1. Newest(u)' = Newest(u)
      BY <1>6, <2>2
    <3>2. QED
      BY <1>1, <1>2, <1>4, <1>a, <3>1
  <2>3. QED
    BY <2>1, <2>2
<1>13. CacheMatches'
  <2> SUFFICES ASSUME NEW u \in restored
               PROVE  /\ DOMAIN cache'[u] = 1..Newest(u)'
                      /\ \A v \in 1..Newest(u)' : cache'[u][v].key = rows'[u][v].key \/ <<u, v>> \in misset
    BY <1>2 DEF CacheMatches
  <2>1. u \in Tenants /\ DOMAIN cache[u] = 1..Newest(u) /\ Newest(u) \in Nat
        /\ \A v \in 1..Newest(u) : cache[u][v].key = rows[u][v].key \/ <<u, v>> \in misset
    BY <1>1, <1>4 DEF Inv, CacheMatches, TypeOK
  <2>2. CASE u = t
    <3>1. Newest(t)' = next /\ cache'[t] = new /\ next \notin 1..Newest(t)
          /\ 1..next = 1..Newest(t) \union {next}
      BY <1>6, <1>9, <1>a, <2>1, <2>2
    <3>2. DOMAIN new = 1..next
      BY <1>8, <2>1, <2>2, <3>1
    <3>3. \A v \in 1..next : new[v].key = rows'[t][v].key \/ <<t, v>> \in misset
      BY <1>5, <1>6, <1>8, <2>1, <2>2, <3>1
    <3>4. Newest(u)' = next
      BY <2>2, <3>1 DEF Newest
    <3>5. QED
      BY <2>2, <3>1, <3>2, <3>3, <3>4
  <2>3. CASE u # t
    BY <1>6, <1>9, <2>1, <2>3
  <2>4. QED
    BY <2>2, <2>3
<1>14. ASSUME NEW token \in Token, Known(token) PROVE Known(token)'
  <2>1. token.tenant \in Tenants
    BY DEF Token
  <2>2. /\ Newest(token.tenant) \in Nat /\ Newest(token.tenant)' \in Nat
        /\ Newest(token.tenant) <= Newest(token.tenant)'
        /\ \A v \in 1..Newest(token.tenant) : rows'[token.tenant][v].key = rows[token.tenant][v].key
    BY <1>4, <1>7, <2>1
  <2>3. QED
    BY <1>2, <1>14, <2>2, KnownStays
<1>15. TokensMatch'
  <2>1. issued \union stamping \subseteq Token
    BY <1>1 DEF TypeOK
  <2>2. \A token \in issued \union stamping : Known(token)
    BY DEF Inv, TokensMatch
  <2>3. QED
    BY <1>2, <1>14, <2>1, <2>2 DEF TokensMatch
<1>16. ActiveMatches'
  <2> SUFFICES ASSUME NEW u \in Tenants, Loaded(u)'
               PROVE  cache'[u][StartVersion(u)'].key = active'[u].key /\ Known(Signed(u))'
    BY DEF ActiveMatches
  <2>1. CASE u = t
    <3>1. cache'[t][next].key = key /\ rows'[t][next].key = key
      BY <1>5, <1>6, <1>8, <1>9
    <3>2. next \in 1..Newest(t)'
      BY <1>4, <1>6, <1>a
    <3>3. Signed(t)'.tenant = t /\ Signed(t)'.version = next /\ Signed(t)'.key = key
      BY <1>9 DEF Signed
    <3>4. Known(Signed(t))'
      BY <3>1, <3>2, <3>3 DEF Known
    <3>5. QED
      BY <1>9, <2>1, <3>1, <3>4
  <2>2. CASE u # t
    <3>1. Loaded(u) /\ Signed(u)' = Signed(u) /\ Signed(u) \in Token
      BY <1>1, <1>9, <2>2 DEF Loaded, Signed, Token, TypeOK
    <3>2. cache[u][StartVersion(u)].key = active[u].key /\ Known(Signed(u))
      BY <3>1 DEF Inv, ActiveMatches
    <3>3. QED
      BY <1>9, <1>14, <2>2, <3>1, <3>2
  <2>3. QED
    BY <2>1, <2>2
<1>17. QED
  BY <1>11, <1>12, <1>13, <1>15, <1>16 DEF Inv

\* A rotation that fails after its UPDATE changes no key at all.
LEMMA RotateHalfwayKeeps == ASSUME Inv, NEW t \in Tenants, RotateHalfway(t) PROVE Inv'
<1> DEFINE kept == MarkedRows(t)
           old == MarkedCache(t)
<1>1. TypeOK
  BY DEF Inv
<1>2. /\ rows' = kept /\ cache' = [cache EXCEPT ![t] = old]
      /\ UNCHANGED <<active, stamping, issued, minted, starts, restored, misset, unrecorded>>
  BY DEF RotateHalfway, history
<1>3. /\ kept \in [Tenants -> Seq(PublicKey)]
      /\ \A u \in Tenants : Len(kept[u]) = Newest(u)
      /\ \A u \in Tenants : u # t => kept[u] = rows[u]
      /\ \A v \in 1..Newest(t) : kept[t][v].key = rows[t][v].key
      /\ DOMAIN old = DOMAIN cache[t]
      /\ \A v \in DOMAIN cache[t] : old[v] \in PublicKey /\ old[v].key = cache[t][v].key
  BY <1>1, Marked
<1> HIDE DEF kept, old
<1>4. /\ rows' \in [Tenants -> Seq(PublicKey)]
      /\ \A u \in Tenants : Newest(u)' = Newest(u) /\ Newest(u) \in Nat
      /\ \A u \in Tenants : \A v \in 1..Newest(u) : rows'[u][v].key = rows[u][v].key
  BY <1>1, <1>2, <1>3, Shape DEF Newest
<1>5. /\ DOMAIN cache' = Tenants
      /\ \A u \in Tenants : DOMAIN cache'[u] = DOMAIN cache[u]
      /\ \A u \in Tenants : \A v \in DOMAIN cache[u] :
           cache'[u][v] \in PublicKey /\ cache'[u][v].key = cache[u][v].key
  BY <1>1, <1>2, <1>3 DEF TypeOK
<1>6. ASSUME NEW u \in Tenants
      PROVE  StartVersion(u)' = StartVersion(u)
  <2>1. rows'[u] \in Seq(PublicKey) /\ Newest(u)' = Len(rows'[u])
    BY <1>4 DEF Newest
  <2>2. rows'[u] = <<>> <=> Newest(u)' = 0
    BY <2>1
  <2>3. rows[u] = <<>> <=> Newest(u) = 0
    BY <1>1, Shape
  <2>4. QED
    BY <1>4, <2>2, <2>3 DEF StartVersion
<1>7. TypeOK'
  <2>1. \A u \in Tenants : Loaded(u)' <=> Loaded(u)
    BY <1>2 DEF Loaded
  <2>2. QED
    BY <1>1, <1>2, <1>4, <1>5, <1>6, <2>1 DEF TypeOK
<1>8. RowsBounded'
  BY <1>2, <1>4 DEF Inv, RowsBounded
<1>9. CacheMatches'
  <2>1. restored \subseteq Tenants
    BY <1>1 DEF TypeOK
  <2>2. QED
    BY <1>2, <1>4, <1>5, <2>1 DEF Inv, CacheMatches
<1>10. ASSUME NEW token \in Token, Known(token) PROVE Known(token)'
  <2>1. token.tenant \in Tenants
    BY DEF Token
  <2>2. /\ Newest(token.tenant) \in Nat /\ Newest(token.tenant)' \in Nat
        /\ Newest(token.tenant) <= Newest(token.tenant)'
        /\ \A v \in 1..Newest(token.tenant) : rows'[token.tenant][v].key = rows[token.tenant][v].key
    BY <1>4, <2>1
  <2>3. QED
    BY <1>2, <1>10, <2>2, KnownStays
<1>11. TokensMatch'
  <2>1. issued \union stamping \subseteq Token
    BY <1>1 DEF TypeOK
  <2>2. \A token \in issued \union stamping : Known(token)
    BY DEF Inv, TokensMatch
  <2>3. QED
    BY <1>2, <1>10, <2>1, <2>2 DEF TokensMatch
<1>12. ActiveMatches'
  <2> SUFFICES ASSUME NEW u \in Tenants, Loaded(u)'
               PROVE  cache'[u][StartVersion(u)'].key = active'[u].key /\ Known(Signed(u))'
    BY DEF ActiveMatches
  <2>1. Loaded(u) /\ Signed(u)' = Signed(u) /\ Signed(u) \in Token
        /\ StartVersion(u) \in DOMAIN cache[u]
    BY <1>1, <1>2 DEF Loaded, Signed, Token, TypeOK
  <2>2. cache[u][StartVersion(u)].key = active[u].key /\ Known(Signed(u))
    BY <2>1 DEF Inv, ActiveMatches
  <2>3. QED
    BY <1>2, <1>5, <1>6, <1>10, <2>1, <2>2
<1>13. QED
  BY <1>7, <1>8, <1>9, <1>11, <1>12 DEF Inv

\* Tokens move, or are made of what signs now; nothing else changes.
LEMMA TokensKeep ==
  ASSUME NEW added \in SUBSET Token, Inv,
         UNCHANGED <<rows, active, cache, minted, starts, history>>,
         issued' \union stamping' \subseteq issued \union stamping \union added,
         \A token \in added : Known(token)
  PROVE  Inv'
<1>1. UNCHANGED <<restored, misset, unrecorded>>
  BY DEF history
<1>2. TypeOK'
  BY <1>1 DEF Inv, TypeOK, Loaded, StartVersion, Newest
<1>3. RowsBounded' /\ CacheMatches'
  BY <1>1 DEF Inv, RowsBounded, CacheMatches, Newest
<1>4. \A token : Known(token)' <=> Known(token)
  BY <1>1 DEF Known, Newest
<1>5. ActiveMatches'
  <2>1. \A t \in Tenants : /\ Loaded(t)' <=> Loaded(t) /\ StartVersion(t)' = StartVersion(t)
                            /\ Signed(t)' = Signed(t)
    BY DEF Loaded, StartVersion, Newest, Signed
  <2>2. \A t \in Tenants :
          Loaded(t) => cache[t][StartVersion(t)].key = active[t].key /\ Known(Signed(t))
    BY DEF Inv, ActiveMatches
  <2>3. QED
    BY <1>4, <2>1, <2>2 DEF ActiveMatches
<1>6. TokensMatch'
  BY <1>4 DEF Inv, TokensMatch
<1>7. QED
  BY <1>2, <1>3, <1>5, <1>6 DEF Inv

\* The same with no token added.
LEMMA TokensMove ==
  ASSUME Inv, UNCHANGED <<rows, active, cache, minted, starts, history>>,
         issued' \union stamping' \subseteq issued \union stamping
  PROVE  Inv'
<1> DEFINE added == {}
<1>1. /\ added \in SUBSET Token
      /\ issued' \union stamping' \subseteq issued \union stamping \union added
      /\ \A token \in added : Known(token)
  OBVIOUS
<1> HIDE DEF added
<1>2. QED
  BY <1>1, TokensKeep

\* Every step keeps the invariant.
THEOREM NextKeeps == Inv /\ [Next]_vars => Inv'
<1> SUFFICES ASSUME Inv, [Next]_vars PROVE Inv'
  OBVIOUS
<1>1. CASE Start
  BY <1>1, StartKeeps
<1>2. ASSUME NEW t \in Tenants, Rotate(t) PROVE Inv'
  BY <1>2, RotateKeeps
<1>3. ASSUME NEW t \in Tenants, RotateHalfway(t) PROVE Inv'
  BY <1>3, RotateHalfwayKeeps
<1>4. ASSUME NEW t \in Tenants, Sign(t) \/ SignAndStamp(t) PROVE Inv'
  <2>1. Loaded(t) /\ UNCHANGED <<rows, active, cache, minted, starts, history>>
        /\ issued' \union stamping' \subseteq issued \union stamping \union {Signed(t)}
    BY <1>4 DEF Sign, SignAndStamp
  <2> DEFINE added == {Signed(t)}
  <2>2. Signed(t) \in Token /\ Known(Signed(t))
    BY <2>1 DEF Inv, ActiveMatches, TypeOK, Loaded, Signed, Token
  <2>3. /\ added \in SUBSET Token
        /\ issued' \union stamping' \subseteq issued \union stamping \union added
        /\ \A token \in added : Known(token)
    BY <2>1, <2>2
  <2> HIDE DEF added
  <2>4. QED
    BY <2>1, <2>3, TokensKeep
<1>5. ASSUME NEW token \in stamping, Stamped(token) \/ StampFails(token) PROVE Inv'
  <2>1. UNCHANGED <<rows, active, cache, minted, starts, history>>
        /\ issued' \union stamping' \subseteq issued \union stamping
    BY <1>5 DEF Stamped, StampFails
  <2>2. QED
    BY <2>1, TokensMove
<1>6. CASE UNCHANGED vars
  <2>1. UNCHANGED <<rows, active, cache, minted, starts, history>>
        /\ issued' \union stamping' \subseteq issued \union stamping
    BY <1>6 DEF vars
  <2>2. QED
    BY <2>1, TokensMove
<1>7. QED
  BY <1>1, <1>2, <1>3, <1>4, <1>5, <1>6 DEF Next

\* The inductive invariant holds in every state.
THEOREM Invariant == Spec => []Inv
<1>1. Init => Inv
  BY InitInv
<1>2. QED
  BY <1>1, NextKeeps, PTL DEF Spec

-----------------------------------------------------------------------------
\* The tables and memory keep their types: what signs is always under the
\* newest version of the table, or under the first while the table has none.
THEOREM TypesHold == Spec => []TypeOK
<1>1. Inv => TypeOK
  BY DEF Inv
<1>2. QED
  BY <1>1, Invariant, PTL

\* Over any number of rotations, halfway rotations and restarts, whichever of a
\* start's statements throw, a token verifies in every process that found its
\* tenant's key and read its rows, unless some process was started under the
\* token's key id with another key, or the token's key signed without a row and
\* the row never came.
THEOREM SealsVerifyAlways == Spec => []SealsVerify
<1>1. ASSUME Inv PROVE SealsVerify
  <2> SUFFICES ASSUME NEW token \in issued,
                      token.tenant \in restored,
                      <<token.tenant, token.version>> \notin misset,
                      ~RowLost(token)
               PROVE  Verifies(token)
    BY DEF SealsVerify
  <2>1. TypeOK /\ token.tenant \in Tenants /\ Known(token)
    BY <1>1 DEF Inv, TypeOK, Token, TokensMatch
  <2>2. DOMAIN rows[token.tenant] = 1..Newest(token.tenant)
    BY <2>1, Shape
  <2>3. token.version \in 1..Newest(token.tenant)
        /\ token.key = rows[token.tenant][token.version].key
    BY <2>1, <2>2 DEF Known, RowLost, Recorded
  <2>4. token.version \in DOMAIN cache[token.tenant]
        /\ cache[token.tenant][token.version].key = rows[token.tenant][token.version].key
    BY <1>1, <2>3 DEF Inv, CacheMatches
  <2>5. QED
    BY <2>3, <2>4 DEF Verifies
<1>2. QED
  BY <1>1, Invariant, PTL

\* However many processes signed, stopped half-way through a rotation or a start, or
\* were started with an old environment, a key id that no start bound to another key
\* is one key's, but for the keys that signed without a row and never got one.
THEOREM KeyIdsNameOneKey == Spec => []OneKeyPerId
<1>1. ASSUME Inv PROVE OneKeyPerId
  <2>1. ASSUME NEW token \in issued \union stamping,
               <<token.tenant, token.version>> \notin misset, ~RowLost(token)
        PROVE  token.key = rows[token.tenant][token.version].key
    <3>1. Known(token)
      BY <1>1 DEF Inv, TokensMatch
    <3>2. QED
      BY <2>1, <3>1 DEF Known, RowLost, Recorded
  <2>2. QED
    BY <2>1 DEF OneKeyPerId
<1>2. QED
  BY <1>1, Invariant, PTL

\* The public key served for a tenant is the one it signs with, unless a
\* rotation stopped between its two statements and none has succeeded since, or
\* the start could not insert the row and no rotation has succeeded since.
THEOREM ServedKeyAlwaysSigns == Spec => []ServedKeySigns
<1>1. ASSUME Inv PROVE ServedKeySigns
  <2> SUFFICES ASSUME NEW t \in Tenants, Loaded(t),
                      ~(rows[t] # <<>> /\ rows[t][Newest(t)].superseded),
                      ~(rows[t] = <<>> /\ RowLost(Signed(t)))
               PROVE  ServedKey(t) = active[t].key
    BY DEF ServedKeySigns
  <2>1. TypeOK
    BY <1>1 DEF Inv
  <2>2. DOMAIN rows[t] = 1..Newest(t) /\ Newest(t) \in Nat /\ (rows[t] = <<>> <=> Newest(t) = 0)
    BY <2>1, Shape
  <2>3. Known(Signed(t)) /\ Signed(t).tenant = t /\ cache[t][StartVersion(t)].key = active[t].key
    BY <1>1 DEF Inv, ActiveMatches, Signed
  <2>4. Newest(t) # 0
    <3>1. SUFFICES ASSUME Newest(t) = 0 PROVE FALSE
      OBVIOUS
    <3>2. Signed(t) \in unrecorded /\ DOMAIN rows[t] = {}
      BY <2>2, <2>3, <3>1 DEF Known
    <3>3. QED
      BY <2>2, <2>3, <3>1, <3>2 DEF RowLost, Recorded
  <2>5. StartVersion(t) = Newest(t) /\ Newest(t) \in DOMAIN cache[t] /\ Newest(t) \in 1..Newest(t)
    BY <2>1, <2>2, <2>4 DEF TypeOK, StartVersion
  <2>6. Newest(t) \in Current(t) /\ \A w \in Current(t) : w \in Nat /\ w <= Newest(t)
    BY <2>2, <2>4, <2>5 DEF Current
  <2>7. NewestCurrent(t) \in Current(t) /\ \A w \in Current(t) : w <= NewestCurrent(t)
    BY <2>6 DEF NewestCurrent
  <2>8. NewestCurrent(t) = Newest(t)
    BY <2>2, <2>6, <2>7
  <2>9. ServedKey(t) = cache[t][Newest(t)].key
    BY <2>5, <2>6, <2>8 DEF ServedKey, KeyOf
  <2>10. QED
    BY <2>3, <2>5, <2>9
<1>2. QED
  BY <1>1, Invariant, PTL
=============================================================================
