----------------------------- MODULE CacheAside -----------------------------
(***************************************************************************)
(* The values that are read through Redis: the effective permissions of a  *)
(* user (RbacService), the settings (SettingsService), the category tree   *)
(* (CatalogService) and the banners (CmsService).  A reader that finds no  *)
(* entry reads the database and stores what it has read, for a limited     *)
(* time; a writer changes the database, in one statement or several, and   *)
(* then deletes the entry.  Nothing orders a store and a delete.           *)
(*                                                                         *)
(* RedisService uses the memory of the process from the moment the         *)
(* connection is lost until the process starts again; the entries in Redis *)
(* stay where they are.  Time passes in ticks.                             *)
(***************************************************************************)
EXTENDS Integers

CONSTANTS
  CacheKeys,
  PatternKeys,   \* deleted by pattern: with a keyPrefix, KEYS finds none in Redis
  Readers, Writers,
  Lifetime,      \* the time to live of an entry, in ticks
  MaxRequest,    \* a request takes at most so many ticks from read to store
  MaxVersion,    \* bound: changes of one value
  NoCacheKey

ASSUME CacheAssumption ==
  /\ PatternKeys \subseteq CacheKeys
  /\ Lifetime \in Nat \ {0}
  /\ MaxRequest \in Nat
  /\ MaxVersion \in Nat
  /\ NoCacheKey \notin CacheKeys

VARIABLES
  version,   \* the value in the database, as the number of its changes
  online,    \* Redis is in use, else the memory of the process
  entries,   \* what is stored, by place and key
  reader, writer,
  troubled   \* history: a writer failed half-way, or Redis or the process did

cacheVars == <<version, online, entries, reader, writer, troubled>>

Stores == {"redis", "memory"}

\* A value that was read: which one it is, for how long it has been outdated,
\* and (history) whether a delete of its key came after the read.
Value(v, outdated, overtaken) ==
  [version |-> v, outdated |-> outdated, overtaken |-> overtaken]

\* ttl = 0: there is no entry.
Entry(value, ttl) == [value |-> value, ttl |-> ttl]

Missing == Entry(Value(0, 0, FALSE), 0)

IdleReader == [key |-> NoCacheKey, loaded |-> FALSE, age |-> 0, value |-> Value(0, 0, FALSE)]

CacheInit ==
  /\ version = [k \in CacheKeys |-> 0]
  /\ online \in BOOLEAN
  /\ entries = [s \in Stores |-> [k \in CacheKeys |-> Missing]]
  /\ reader = [h \in Readers |-> IdleReader]
  /\ writer = [w \in Writers |-> NoCacheKey]
  /\ troubled = FALSE

Place == IF online THEN "redis" ELSE "memory"

-----------------------------------------------------------------------------
\* get finds nothing.  (A hit changes nothing.)
Miss(h, k) ==
  /\ reader[h].key = NoCacheKey
  /\ entries[Place][k].ttl = 0
  /\ reader' = [reader EXCEPT ![h].key = k]
  /\ UNCHANGED <<version, online, entries, writer, troubled>>

\* The database is read.
Load(h) ==
  /\ reader[h].key # NoCacheKey
  /\ ~reader[h].loaded
  /\ reader' = [reader EXCEPT ![h].loaded = TRUE,
                              ![h].value = Value(version[reader[h].key], 0, FALSE)]
  /\ UNCHANGED <<version, online, entries, writer, troubled>>

\* Mutant of TimeToLive: each tick finds the entry as fresh as it was.
KeepsForEver(ttl) == ttl

TimeToLive(ttl) == IF ttl > 0 THEN ttl - 1 ELSE 0

\* set with a time to live
Store(h) ==
  /\ reader[h].loaded
  /\ entries' = [entries EXCEPT ![Place][reader[h].key] = Entry(reader[h].value, Lifetime)]
  /\ reader' = [reader EXCEPT ![h] = IdleReader]
  /\ UNCHANGED <<version, online, writer, troubled>>

\* A statement of a writer; a second one may follow.
Change(w, k) ==
  /\ writer[w] \in {NoCacheKey, k}
  /\ version[k] < MaxVersion
  /\ version' = [version EXCEPT ![k] = @ + 1]
  /\ writer' = [writer EXCEPT ![w] = k]
  /\ UNCHANGED <<online, entries, reader, troubled>>

\* What del and delByPattern reach.
Reached(k) == ~(online /\ k \in PatternKeys)

Overtake(k) ==
  [h \in Readers |-> IF reader[h].key = k /\ reader[h].loaded
                     THEN [reader[h] EXCEPT !.value.overtaken = TRUE] ELSE reader[h]]

\* Mutant of Invalidate: the writer is done without it.
InvalidateNothing(w) ==
  /\ writer[w] # NoCacheKey
  /\ writer' = [writer EXCEPT ![w] = NoCacheKey]
  /\ UNCHANGED <<version, online, entries, reader, troubled>>

\* The writer deletes the entry and is done.
Invalidate(w) ==
  LET k == writer[w]
  IN  /\ k # NoCacheKey
      /\ entries' = IF Reached(k) THEN [entries EXCEPT ![Place][k] = Missing] ELSE entries
      /\ reader' = Overtake(k)
      /\ writer' = [writer EXCEPT ![w] = NoCacheKey]
      /\ UNCHANGED <<version, online, troubled>>

\* A later statement fails, or the delete itself: the entry stays.
WriterFails(w) ==
  /\ writer[w] # NoCacheKey
  /\ writer' = [writer EXCEPT ![w] = NoCacheKey]
  /\ troubled' = TRUE
  /\ UNCHANGED <<version, online, entries, reader>>

-----------------------------------------------------------------------------
Older(key, value) ==
  IF value.version = version[key] THEN value ELSE [value EXCEPT !.outdated = @ + 1]

AgedEntry(k, e) ==
  IF TimeToLive(e.ttl) = 0 THEN Missing ELSE Entry(Older(k, e.value), TimeToLive(e.ttl))

AgedReader(r) ==
  IF r.loaded THEN [r EXCEPT !.age = @ + 1, !.value = Older(r.key, r.value)] ELSE r

Tick ==
  /\ \A h \in Readers : reader[h].age < MaxRequest
  /\ entries' = [s \in Stores |-> [k \in CacheKeys |-> AgedEntry(k, entries[s][k])]]
  /\ reader' = [h \in Readers |-> AgedReader(reader[h])]
  /\ UNCHANGED <<version, online, writer, troubled>>

CacheLosesRedis ==
  /\ online
  /\ online' = FALSE
  /\ troubled' = TRUE
  /\ UNCHANGED <<version, entries, reader, writer>>

\* The process starts again; requests that were under way are gone.
CacheRestart ==
  /\ online' \in BOOLEAN
  /\ entries' = [entries EXCEPT !["memory"] = [k \in CacheKeys |-> Missing]]
  /\ reader' = [h \in Readers |-> IdleReader]
  /\ writer' = [w \in Writers |-> NoCacheKey]
  /\ troubled' = TRUE
  /\ UNCHANGED version

CacheNext ==
  \/ \E h \in Readers : Load(h) \/ Store(h) \/ \E k \in CacheKeys : Miss(h, k)
  \/ \E w \in Writers : Invalidate(w) \/ WriterFails(w) \/ \E k \in CacheKeys : Change(w, k)
  \/ Tick
  \/ CacheLosesRedis
  \/ CacheRestart

CacheSpec == CacheInit /\ [][CacheNext]_cacheVars

-----------------------------------------------------------------------------
Values == [version : Nat, outdated : Nat, overtaken : BOOLEAN]

\* The types of the entries, the readers and the writers.
CacheTypeOK ==
  /\ version \in [CacheKeys -> Nat]
  /\ online \in BOOLEAN
  /\ entries \in [Stores -> [CacheKeys -> [value : Values, ttl : 0..Lifetime]]]
  /\ reader \in [Readers -> [key : CacheKeys \cup {NoCacheKey}, loaded : BOOLEAN,
                             age : 0..MaxRequest, value : Values]]
  /\ writer \in [Writers -> CacheKeys \cup {NoCacheKey}]
  /\ troubled \in BOOLEAN

\* Permissions, settings, the tree and the banners are never served more than
\* their time to live, and the length of a request, after they were changed:
\* not when a fill is stored after the delete that was meant for it, when a
\* writer fails half-way, when Redis is lost and comes back with old entries, or
\* when the delete finds no key.
StalenessBounded ==
  \A s \in Stores, k \in CacheKeys :
    entries[s][k].ttl > 0 => entries[s][k].value.outdated <= Lifetime + MaxRequest

\* Without such troubles, an entry is outdated only while a writer has not yet
\* deleted it, or when the delete came between the read and the store of the
\* fill that put it there.
StaleOnlyIfOvertaken ==
  \A k \in CacheKeys \ PatternKeys :
    LET e == entries[Place][k]
    IN  e.ttl > 0 /\ e.value.version # version[k] =>
          \/ troubled
          \/ e.value.overtaken
          \/ \E w \in Writers : writer[w] = k
=============================================================================
