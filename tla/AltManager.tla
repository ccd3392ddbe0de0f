----------------------------- MODULE AltManager -----------------------------
(***************************************************************************)
(* CachingAltManager (bundler/src/alt.rs) with its TableCatalog            *)
(* (alt/table_catalog.rs): which accounts of a chunk are left to lookup    *)
(* tables, and the cache of such resolutions that the tasks share.         *)
(* resolve_tables looks at the cache in one critical section and fills it  *)
(* in another.                                                             *)
(***************************************************************************)
EXTENDS Integers, Sequences, FiniteSets, FiniteSetsExt

CONSTANTS
    Tasks,
    Keys,      \* account keys
    Payer,     \* one of them
    Reserve,   \* AltPolicy.reserve_message_keys
    MaxAlt,    \* AltPolicy.max_alt_keys
    IndexByte, \* AltPolicy.per_alt_index_byte
    Ttl,       \* how long a cached resolution lives
    Catalogs   \* the lists of tables to consider; <<>> is no catalog

Meta == [key : Keys, writable : BOOLEAN, signer : BOOLEAN]

\* What is asked of the constants; ChunkAttempt assumes it.
AltParameters ==
    /\ Payer \in Keys
    /\ IsFiniteSet(Keys)
    /\ Reserve \in Nat /\ MaxAlt \in Nat \ {0}
    /\ IndexByte \in Nat /\ Ttl \in Nat
    /\ Catalogs \subseteq Seq(SUBSET Keys)

VARIABLES
    now,      \* Instant::now()
    catalog,  \* the tables of the catalog, each the set of its addresses
    altCache, \* from the offloaded keys to a resolution and when it expires
    alt       \* where each task is in resolve_tables, and what it has

altVars == <<catalog, altCache, alt>>

-----------------------------------------------------------------------------
(* Faulty variants.                                                        *)

MetasOf(metas, k) == {metas[i] : i \in {j \in DOMAIN metas : metas[j].key = k}}

\* The flags are taken from the first use of a key.
UsageOfFirst(metas, k) ==
    LET first == metas[CHOOSE i \in DOMAIN metas :
                    metas[i].key = k /\ \A j \in 1..i - 1 : metas[j].key # k]
    IN  [writable |-> first.writable, signer |-> first.signer,
         freq |-> Cardinality({i \in DOMAIN metas : metas[i].key = k})]

\* The cache does not tell a writable use of a key from a readonly one.
CacheKeyOfKeys(keys, usage) == {<<k, FALSE>> : k \in keys}

-----------------------------------------------------------------------------
(* compute_offload_plan.                                                   *)

\* KeyUsage
Usage(metas, k) ==
    [writable |-> \E m \in MetasOf(metas, k) : m.writable,
     signer |-> \E m \in MetasOf(metas, k) : m.signer,
     freq |-> Cardinality({i \in DOMAIN metas : metas[i].key = k})]

\* build_key_usage; the programs are not among the accounts.
UsageOf(metas) ==
    [k \in {metas[i].key : i \in DOMAIN metas} \ {Payer} |-> Usage(metas, k)]

\* key_cost
Cost(u) == (32 - IndexByte) * u.freq + (IF u.writable THEN 8 ELSE 0)

\* The keys after the first `slots` in descending order of cost, up to
\* max_alt_keys.  Keys of equal cost are in the order of a hash map.
Tails(usage, keys, slots) ==
    LET above(S, T) == \A k \in S, l \in T : Cost(usage[k]) >= Cost(usage[l])
    IN  {off \in kSubset(Min({Cardinality(keys) - slots, MaxAlt}), keys) :
            \E top \in kSubset(slots, keys \ off) :
                above(top, off) /\ above(top \cup off, keys \ (top \cup off))}

\* What may be offloaded: nothing when the signers leave no room or when
\* everything has room.
Offloads(usage) ==
    LET signers == {k \in DOMAIN usage : usage[k].signer}
        others == DOMAIN usage \ signers
        slots == Reserve - Cardinality(signers)
    IN  IF slots <= 0 \/ Cardinality(others) <= slots
        THEN {{}}
        ELSE Tails(usage, others, slots)

\* CacheKey::from
CacheKey(keys, usage) == {<<k, usage[k].writable>> : k \in keys}

\* AltResolution: the addresses of the tables and the statistics.
Resolution(tables, keys, usage) ==
    [tables |-> tables, offloaded |-> keys,
     writable |-> Cardinality({k \in keys : usage[k].writable}),
     readonly |-> Cardinality({k \in keys : ~ usage[k].writable})]

NoTables == [tables |-> {}, offloaded |-> {}, writable |-> 0, readonly |-> 0]

\* tables_for: the tables that a key is looked up in are whole.
Resolvable(keys) == {k \in keys : \E i \in DOMAIN catalog : k \in catalog[i]}
LastTable(k) == Max({i \in DOMAIN catalog : k \in catalog[i]})
TablesFor(keys) == UNION {catalog[LastTable(k)] : k \in Resolvable(keys)}

-----------------------------------------------------------------------------
(* resolve_tables.                                                         *)

AltIdle == [pc |-> "idle", keys |-> {}, result |-> NoTables, hit |-> FALSE]

AltInit ==
    /\ catalog \in Catalogs
    /\ altCache = <<>>
    /\ alt = [t \in Tasks |-> AltIdle]

Without(cache, key) == [k \in DOMAIN cache \ {key} |-> cache[k]]

\* Of what was there under the key nothing is left.
With(cache, key, resolution) ==
    [k \in DOMAIN cache \cup {key} |->
        IF k = key THEN [resolution |-> resolution, expires |-> now + Ttl]
        ELSE cache[k]]

Resolved(t, keys, resolution, hit) ==
    alt' = [alt EXCEPT ![t] =
               [pc |-> "resolved", keys |-> keys, result |-> resolution, hit |-> hit]]

\* Nothing to offload.
ResolveNothing(t, metas) ==
    /\ alt[t].pc = "idle"
    /\ {} \in Offloads(UsageOf(metas))
    /\ Resolved(t, {}, NoTables, FALSE)
    /\ UNCHANGED <<catalog, altCache>>

\* The catalog has none of the keys, or its tables are taken.  The cache is
\* filled, under the keys alone, and not looked at.
ResolveByCatalog(t, metas) ==
    /\ alt[t].pc = "idle"
    /\ catalog # <<>>
    /\ LET usage == UsageOf(metas)
       IN  \E off \in Offloads(usage) \ {{}} :
              LET keys == Resolvable(off)
                  resolution == Resolution(TablesFor(off), keys, usage)
              IN  IF keys = {}
                  THEN Resolved(t, {}, NoTables, FALSE) /\ UNCHANGED altCache
                  ELSE /\ Resolved(t, keys, resolution, FALSE)
                       /\ altCache' = With(altCache, {<<k>> : k \in keys}, resolution)
    /\ UNCHANGED catalog

\* The synthetic table: it is found in the cache, or the task goes on to make
\* it; what has expired is removed.
Lookup(t, metas) ==
    /\ alt[t].pc = "idle"
    /\ catalog = <<>>
    /\ LET usage == UsageOf(metas)
       IN  \E off \in Offloads(usage) \ {{}} :
              LET key == CacheKey(off, usage)
              IN  IF key \in DOMAIN altCache /\ altCache[key].expires > now
                  THEN /\ Resolved(t, off, altCache[key].resolution, TRUE)
                       /\ UNCHANGED altCache
                  ELSE /\ alt' = [alt EXCEPT ![t] = [AltIdle EXCEPT !.pc = "insert", !.keys = off]]
                       /\ altCache' = Without(altCache, key)
    /\ UNCHANGED catalog

Insert(t, metas) ==
    /\ alt[t].pc = "insert"
    /\ LET usage == UsageOf(metas)
           keys == alt[t].keys
           resolution == Resolution(keys, keys, usage)
       IN  /\ Resolved(t, keys, resolution, FALSE)
           /\ altCache' = With(altCache, CacheKey(keys, usage), resolution)
    /\ UNCHANGED catalog

ResolveStep(t, metas) ==
    \/ ResolveNothing(t, metas) \/ ResolveByCatalog(t, metas)
    \/ Lookup(t, metas) \/ Insert(t, metas)

-----------------------------------------------------------------------------
(* Correctness properties; metas[t] are the accounts of t's chunk.         *)

AltTypeOK ==
    LET ResolutionRecord == [tables : SUBSET Keys, offloaded : SUBSET Keys,
                             writable : Nat, readonly : Nat]
    IN  /\ catalog \in Catalogs
        /\ alt \in [Tasks -> [pc : {"idle", "insert", "resolved"}, keys : SUBSET Keys,
                              result : ResolutionRecord, hit : BOOLEAN]]
        /\ \A k \in DOMAIN altCache :
              /\ altCache[k].resolution \in ResolutionRecord
              /\ altCache[k].expires \in Nat

\* Whoever filled the cache, for whatever chunk, a task gets the table and the
\* statistics of its own chunk.
ResolutionIsOwn(metas) ==
    \A t \in Tasks : alt[t].pc = "resolved" =>
        /\ alt[t].result.offloaded = alt[t].keys
        /\ alt[t].keys \subseteq alt[t].result.tables
        /\ alt[t].result.writable =
              Cardinality({k \in alt[t].keys : \E m \in MetasOf(metas[t], k) : m.writable})
        /\ alt[t].result.writable + alt[t].result.readonly = Cardinality(alt[t].keys)

\* No account that must sign, in any of the chunk's instructions, is left to a
\* table, nor is the payer, and at most max_alt_keys are.
OffloadIsSound(metas) ==
    \A t \in Tasks :
        /\ Payer \notin alt[t].keys
        /\ \A k \in alt[t].keys : \A m \in MetasOf(metas[t], k) : ~ m.signer
        /\ Cardinality(alt[t].keys) <= MaxAlt

=============================================================================
