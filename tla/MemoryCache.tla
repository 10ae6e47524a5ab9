----------------------------- MODULE MemoryCache -----------------------------
(***************************************************************************)
(* MemoryCache (src/kernel/data/cache.ts): least-recently-used entries with *)
(* lifetimes and tags, and loads that callers of getOrSet share.  The      *)
(* application writes the source of a key, then invalidates.  A loader     *)
(* begins synchronously, before its load is in flight: what it calls until *)
(* its first await comes in between.                                       *)
(*                                                                         *)
(* A namespaced cache is this cache under longer keys and tags.            *)
(***************************************************************************)
EXTENDS Integers, Sequences, FiniteSets

CONSTANTS
  Keys, Tags,
  Options,     \* the CacheSetOptions in use: records [ttl, tags]
  Forever,     \* ttl of an entry without ttlMs
  MaxEntries,
  Inner,       \* a bound: the keys a loader may ask for before its first await
  MaxVersion   \* per key, a bound on the writes of its source

ASSUME CacheAssumption ==
  /\ MaxEntries \in Nat \ {0} /\ MaxVersion \in [Keys -> Nat] /\ Forever \in Nat
  /\ Inner \subseteq Keys
  /\ \A o \in Options : o.ttl \in 0..Forever /\ o.tags \subseteq Tags

VARIABLES
  cached,   \* the keys of the map entries
  later,    \* the keys that come after a key in the order of that map: those
            \* used since it was
  entry,    \* the entry of a key: value, what is left of its life, tags
  tagKeys,  \* the map tagKeys; an absent tag has no keys
  load,     \* how far the load of a key is
  calling,  \* the keys whose loader has been called and has the thread, innermost
            \* first: they are not in inFlight yet
  loaded,   \* the value and options of that load
  nested,   \* history: the loads that another's loader began on the thread
  source,   \* the version of the source of a key
  floor     \* history: the version a key had when it was last invalidated
            \* with no older load in flight

cacheVars == <<cached, later, entry, tagKeys, load, calling, loaded, nested, source, floor>>
loadVars == <<load, calling, loaded, nested>>

Blank == [value |-> 0, ttl |-> 0, tags |-> {}]

CacheInit ==
  /\ cached = {} /\ later = [k \in Keys |-> {}]
  /\ entry = [k \in Keys |-> Blank] /\ loaded = [k \in Keys |-> Blank]
  /\ tagKeys = [t \in Tags |-> {}]
  /\ load = [k \in Keys |-> "none"] /\ calling = <<>> /\ nested = {}
  /\ source = [k \in Keys |-> 0] /\ floor = [k \in Keys |-> 0]

-----------------------------------------------------------------------------
Expired(k) == k \in cached /\ entry[k].ttl = 0

\* The order of what is left of the map, and with a key set as its newest.
OrderOf(rest) == [j \in Keys |-> IF j \in rest THEN later[j] \cap rest ELSE {}]
AsNewest(k, rest) ==
  [j \in Keys |-> IF j \in rest THEN (later[j] \cap rest) \cup {k} ELSE {}]

\* removeEntry, of each of a set of keys.  Mutant: a tag is deleted with its
\* first key.
DropTag(dropped) ==
  [t \in Tags |-> IF \E k \in dropped \cap cached : t \in entry[k].tags
                  THEN {} ELSE tagKeys[t]]
Untag(dropped) ==
  [t \in Tags |-> tagKeys[t] \ { k \in dropped \cap cached : t \in entry[k].tags }]

Kept(dropped) == [k \in Keys |-> IF k \in dropped THEN Blank ELSE entry[k]]

RemoveEntries(dropped) ==
  /\ cached' = cached \ dropped /\ later' = OrderOf(cached \ dropped)
  /\ entry' = Kept(dropped)
  /\ tagKeys' = Untag(dropped)

\* The keys that set evicts to make room.  Mutant: one too few.
OneTooFew(k) == { j \in cached \ {k} : Cardinality(later[j] \ {k}) >= MaxEntries }
Evicted(k) == { j \in cached \ {k} : Cardinality(later[j] \ {k}) >= MaxEntries - 1 }

Store(k, value, o) ==
  LET dropped == {k} \cup Evicted(k)
  IN /\ cached' = (cached \ dropped) \cup {k} /\ later' = AsNewest(k, cached \ dropped)
     /\ entry' = [Kept(dropped) EXCEPT ![k] = [value |-> value, ttl |-> o.ttl, tags |-> o.tags]]
     /\ tagKeys' = [t \in Tags |-> Untag(dropped)[t] \cup (IF t \in o.tags THEN {k} ELSE {})]

\* A hit makes the entry the most recently used.
Touch(k) == later' = AsNewest(k, cached \ {k}) /\ UNCHANGED <<cached, entry, tagKeys>>

Get(k) ==
  /\ k \in cached
  /\ IF Expired(k) THEN RemoveEntries({k}) ELSE Touch(k)
  /\ UNCHANGED <<loadVars, source, floor>>

Set(k, o) ==
  /\ Store(k, source[k], o)
  /\ UNCHANGED <<loadVars, source, floor>>

\* An invalidated key has no older value from now on, but for a load that has
\* read one and not stored it yet.
Invalidated(dropped) ==
  floor' = [k \in Keys |-> IF k \in dropped /\ load[k] # "read" THEN source[k] ELSE floor[k]]

Delete(k) ==
  /\ RemoveEntries({k})
  /\ Invalidated({k})
  /\ UNCHANGED <<loadVars, source>>

Tagged(t) == { k \in cached : t \in entry[k].tags }

InvalidateTag(t) ==
  /\ RemoveEntries(tagKeys[t])
  /\ Invalidated(Tagged(t))
  /\ UNCHANGED <<loadVars, source>>

\* clear() leaves the loads in flight.
Clear ==
  /\ cached' = {} /\ later' = [k \in Keys |-> {}] /\ entry' = Kept(Keys) /\ tagKeys' = [t \in Tags |-> {}]
  /\ Invalidated(Keys)
  /\ UNCHANGED <<loadVars, source>>

-----------------------------------------------------------------------------
Calling == { calling[i] : i \in DOMAIN calling }

Loads == { k \in Keys : load[k] # "none" }
InFlight == Loads \ Calling

\* getOrSet on a miss, up to the call of the loader; a hit is a Get, and a caller
\* who finds the load in flight only waits for it.  Before its first await a loader
\* may begin loads of the keys in Inner, but not of its own.
StartLoad(k, o) ==
  /\ k \notin cached \/ Expired(k)
  /\ calling # <<>> => k \in Inner
  /\ k \notin Loads /\ Cardinality(InFlight) < MaxEntries
  /\ RemoveEntries({k})
  /\ load' = [load EXCEPT ![k] = "loading"]
  /\ loaded' = [loaded EXCEPT ![k] = [value |-> 0, ttl |-> o.ttl, tags |-> o.tags]]
  /\ calling' = <<k>> \o calling
  /\ nested' = IF calling = <<>> THEN nested ELSE nested \cup {k}
  /\ UNCHANGED <<source, floor>>

\* It joins, or throws when too many loads are in flight.
JoinOrRefuse(k) ==
  /\ Expired(k) /\ k \notin Calling
  /\ k \in InFlight \/ Cardinality(InFlight) >= MaxEntries
  /\ RemoveEntries({k})
  /\ UNCHANGED <<loadVars, source, floor>>

\* The loader has returned its promise: the load is in flight.
Register(k) ==
  /\ calling # <<>> /\ Head(calling) = k
  /\ calling' = Tail(calling)
  /\ UNCHANGED <<cached, later, entry, tagKeys, load, loaded, nested, source, floor>>

\* The loader reads the source, at once or after an await, returns later, and may
\* fail before.  What follows an await finds no loader on the thread.
LoaderReads(k) ==
  /\ load[k] = "loading"
  /\ calling # <<>> => Head(calling) = k
  /\ load' = [load EXCEPT ![k] = "read"]
  /\ loaded' = [loaded EXCEPT ![k].value = source[k]]
  /\ UNCHANGED <<cached, later, entry, tagKeys, calling, nested, source, floor>>

LoaderReturns(k) ==
  /\ calling = <<>> /\ load[k] = "read"
  /\ load' = [load EXCEPT ![k] = "settled"]
  /\ loaded' = [loaded EXCEPT ![k] = Blank]
  /\ Store(k, loaded[k].value, loaded[k])
  /\ UNCHANGED <<calling, nested, source, floor>>

LoaderFails(k) ==
  /\ calling = <<>> /\ load[k] \in {"loading", "read"}
  /\ load' = [load EXCEPT ![k] = "settled"]
  /\ loaded' = [loaded EXCEPT ![k] = Blank]
  /\ UNCHANGED <<cached, later, entry, tagKeys, calling, nested, source, floor>>

\* The finally block.
EndLoad(k) ==
  /\ calling = <<>> /\ load[k] = "settled"
  /\ load' = [load EXCEPT ![k] = "none"]
  /\ nested' = nested \ {k}
  /\ UNCHANGED <<cached, later, entry, tagKeys, calling, loaded, source, floor>>

WriteSource(k) ==
  /\ source[k] < MaxVersion[k]
  /\ source' = [source EXCEPT ![k] = @ + 1]
  /\ UNCHANGED <<cached, later, entry, tagKeys, loadVars, floor>>

CacheTick ==
  /\ \E k \in cached : entry[k].ttl \in 1..(Forever - 1)
  /\ entry' = [k \in Keys |-> [entry[k] EXCEPT !.ttl = IF @ \in {0, Forever} THEN @ ELSE @ - 1]]
  /\ UNCHANGED <<cached, later, tagKeys, loadVars, source, floor>>

CacheNext ==
  \/ \E k \in Keys, o \in Options : Set(k, o) \/ StartLoad(k, o)
  \/ \E k \in Keys :
       \/ Get(k) \/ Delete(k) \/ JoinOrRefuse(k) \/ WriteSource(k) \/ Register(k)
       \/ LoaderReads(k) \/ LoaderReturns(k) \/ LoaderFails(k) \/ EndLoad(k)
  \/ \E t \in Tags : InvalidateTag(t)
  \/ Clear \/ CacheTick

CacheSpec == CacheInit /\ [][CacheNext]_cacheVars

-----------------------------------------------------------------------------
\* Types; the entries are bounded, and so are the loads, but for those that begin
\* inside another's loader (cache.ts:132, 143); the index of tags is exactly that of
\* the entries, whatever replaces, evicts or expires them (cache.ts:188).
CacheConsistent ==
  /\ cached \subseteq Keys /\ Cardinality(cached) <= MaxEntries
  /\ \A j, k \in cached : j # k => (j \in later[k] <=> k \notin later[j])
  /\ \A k \in Keys : entry[k] \in [value : 0..MaxVersion[k], ttl : 0..Forever, tags : SUBSET Tags]
  /\ tagKeys = [t \in Tags |-> { k \in cached : t \in entry[k].tags }]
  /\ load \in [Keys -> {"none", "loading", "read", "settled"}]
  /\ Cardinality(Loads \ nested) <= MaxEntries

\* After an invalidation, a deletion or a clear, no older value is served, unless
\* a load had read it before and stores it after (cache.ts:140).
InvalidationHolds == \A k \in cached : entry[k].value >= floor[k]
=============================================================================
