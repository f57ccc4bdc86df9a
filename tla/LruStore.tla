------------------------------ MODULE LruStore ------------------------------
(***************************************************************************)
(* The cache: CacheInterceptor over the default store, a Map whose         *)
(* insertion order is the order of use.  A request looks its key up and,   *)
(* when there is no entry, produces the value and stores it without        *)
(* waiting, so that other requests come in between.                        *)
(***************************************************************************)
EXTENDS Naturals, SequencesExt

CONSTANTS
    Readers,        \* requests under way
    Visits,         \* what they may be: [method, by, raw, clean]: the key is made of
                    \* the "url" or given by a @CacheKey, "key", and sanitized
    Stores,         \* module options: [stores, lruSize], lruSize 0 is no bound
    DefaultSize,    \* DEFAULT_CACHE_LRU_SIZE
    Unset,          \* an option that is not given
    MaxLookups      \* bound

VARIABLES
    lruSize,
    store,          \* the keys of the Map, in insertion order
    source,         \* what request the value of each key was made for
    reading,        \* the request each reader is producing the value of
    lookups,        \* lookups made
    used            \* history: every key ever used, the most recent use last

lruVars == <<lruSize, store, source, reading, lookups, used>>

Uncached == ""
Keys == {v.clean : v \in Visits}
Nobody == [method |-> "none", by |-> "none", raw |-> Uncached, clean |-> Uncached]

\* createCacheManager(): stores of the caller's are not bounded, an empty list of them
\* is as good as none.
Bound(o) ==
    IF o.stores = "own" THEN 0 ELSE IF o.lruSize = Unset THEN DefaultSize ELSE o.lruSize

StoresAssumption == \A o \in Stores : Bound(o) \in Nat

Init ==
    /\ \E o \in Stores : lruSize = Bound(o)
    /\ store = <<>> /\ used = <<>> /\ source = [k \in Keys |-> Nobody]
    /\ reading = [r \in Readers |-> Nobody]
    /\ lookups = 0

\* A Map has a key once.
Position(seq, k) == CHOOSE i \in DOMAIN seq : seq[i] = k
Without(seq, k) == IF Contains(seq, k) THEN RemoveAt(seq, Position(seq, k)) ELSE seq

\* delete() and set(): the key becomes the newest of the Map.
Touched(seq, k) == Append(Without(seq, k), k)

Has(k) == Contains(store, k)

\* isRequestCacheable(): asked only when the key is made of the URL.
IsRequestCacheable(v) == v.method = "GET"

\* trackBy(): the key, sanitized; a @CacheKey holds for every method.
TrackBy(v) == IF v.by = "key" \/ IsRequestCacheable(v) THEN v.clean ELSE Uncached

Idle(r) == reading[r] = Nobody /\ lookups < MaxLookups

\* Faulty variant: get() is the Map's own, which leaves the order alone.
Hit_Faulty(r, v) ==
    /\ Idle(r) /\ Has(TrackBy(v))
    /\ used' = Touched(used, TrackBy(v))
    /\ lookups' = lookups + 1
    /\ UNCHANGED <<lruSize, store, source, reading>>

\* LruMap.get(): a hit makes the entry the newest.
Hit(r, v) ==
    /\ Idle(r) /\ Has(TrackBy(v))
    /\ store' = Touched(store, TrackBy(v)) /\ used' = Touched(used, TrackBy(v))
    /\ lookups' = lookups + 1
    /\ UNCHANGED <<lruSize, source, reading>>

\* The handler is called, to store what it returns.
Miss(r, v) ==
    /\ Idle(r) /\ TrackBy(v) # Uncached /\ ~Has(TrackBy(v))
    /\ reading' = [reading EXCEPT ![r] = v]
    /\ lookups' = lookups + 1
    /\ UNCHANGED <<lruSize, store, source, used>>

\* The handler is called and nothing stored: there is no key, or get() throws.
Bypass(r, v) ==
    /\ Idle(r)
    /\ lookups' = lookups + 1
    /\ UNCHANGED <<lruSize, store, source, reading, used>>

\* LruMap.set(): one entry too many costs the oldest.
Evicted(seq) == IF lruSize > 0 /\ Len(seq) > lruSize THEN Tail(seq) ELSE seq

Store(r) ==
    /\ reading[r] # Nobody
    /\ LET k == TrackBy(reading[r]) IN
       /\ store' = Evicted(Touched(store, k))
       /\ source' = [x \in Keys |-> IF x = k THEN reading[r]
                                    ELSE IF Contains(store', x) THEN source[x] ELSE Nobody]
       /\ used' = Touched(used, k)
    /\ reading' = [reading EXCEPT ![r] = Nobody]
    /\ UNCHANGED <<lruSize, lookups>>

\* The handler throws, or the response is a StreamableFile: nothing is stored.
NotStored(r) ==
    /\ reading[r] # Nobody
    /\ reading' = [reading EXCEPT ![r] = Nobody]
    /\ UNCHANGED <<lruSize, store, source, lookups, used>>

\* The application deletes an entry, or it expires and Keyv deletes it.
Delete(k) ==
    /\ Has(k)
    /\ store' = Without(store, k) /\ used' = Without(used, k)
    /\ source' = [source EXCEPT ![k] = Nobody]
    /\ UNCHANGED <<lruSize, reading, lookups>>

Next ==
    \/ \E r \in Readers, v \in Visits : Hit(r, v) \/ Miss(r, v) \/ Bypass(r, v)
    \/ \E r \in Readers : Store(r) \/ NotStored(r)
    \/ \E k \in Keys : Delete(k)

Spec == Init /\ [][Next]_lruVars

-----------------------------------------------------------------------------
\* The store holds the most recently used keys, in the order of their last use, and
\* never more than lruSize of them, however the lookups and the late stores of
\* requests interleave: what is evicted is nothing used since a key that stays.
KeepsRecent ==
    /\ IsSuffix(store, used)
    /\ IF lruSize = 0 THEN store = used ELSE Len(store) <= lruSize

\* An entry was made for a request of the key it is under, so that two requests share
\* one only when their sanitized keys are the same; and of those without a @CacheKey
\* only GET requests have made entries.
OwnEntries ==
    \A k \in Keys :
        IF Has(k) THEN source[k].clean = k /\ (source[k].by = "key" \/ source[k].method = "GET")
        ELSE source[k] = Nobody
=============================================================================
