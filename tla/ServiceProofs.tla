---------------------------- MODULE ServiceProofs ----------------------------
(***************************************************************************)
(* Staff, caches, one-time codes and sessions, for any number of requests  *)
(* that overlap, and the deployment, for any number of commits.  Each part *)
(* has an invariant of its own:                                            *)
(*                                                                         *)
(* Staff.  Unless requests clashed, one that takes the role away is the    *)
(* only one and has seen that a super admin stays.                         *)
(* Caches.  A fill in hand is no older than its request, so the age of an  *)
(* entry and the rest of its time to live add up to a bound.               *)
(* Codes.  A code that only one request had in hand has been tried as      *)
(* often as its row says, and only that request can accept it.             *)
(* Sessions.  Only its own refresh replaces a token, and nobody but the    *)
(* request that is answered with it has the new one.                       *)
(* Deployment.  Where the tree and the files are at each stage.            *)
(***************************************************************************)
EXTENDS Staff, CacheAside, OneTimeCodes, Sessions, Deployment, FiniteSetTheorems, TLAPS

\* A task knows its target; unless requests clashed, one that takes roles away
\* is alone, and has seen that another super admin stays.
Alone(d) == \A o \in Desks \ {d} : task[o] = NoTask

OthersStay ==
  /\ ~clashed => \A d \in Desks :
       /\ TakesRole(task[d]) => Alone(d)
       /\ task[d].at = "delete" /\ ~task[d].makes =>
            supers = {} \/ supers \ {task[d].target} # {}
       /\ task[d].at \in {"unrole", "erase"} => task[d].target \notin supers
       /\ task[d].at \in {"delete", "insert"} /\ task[d].makes => task[d].target \in accounts

StaffTargets ==
  \A d \in Desks :
    /\ task[d].at # "idle" => task[d].target \in Accounts
    /\ task[d].at \in {"count", "unrole", "erase"} => ~task[d].makes
    /\ task[d].at = "insert" => task[d].makes
    /\ task[d].at = "idle" => task[d] = NoTask

StaffInv == StaffTypeOK /\ StaffTargets /\ OthersStay /\ SuperAdminRemains

LEMMA TwoSupers ==
  ASSUME StaffTypeOK, ~LastSuper, NEW a
  PROVE  supers \ {a} # {}
  <1> SUFFICES ASSUME supers \ {a} = {} PROVE FALSE
    OBVIOUS
  <1>1. IsFiniteSet(supers)
    BY StaffAssumption, FS_Subset DEF StaffTypeOK
  <1>2. CASE supers = {}
    BY <1>2, FS_EmptySet DEF LastSuper
  <1>3. CASE supers # {}
    <2>1. supers = {a}
      BY <1>3
    <2> QED
      BY <2>1, FS_Singleton DEF LastSuper
  <1> QED
    BY <1>2, <1>3

LEMMA NoTaskMade == NoTask.at = "idle" /\ NoTask \in
     [at : {"idle", "count", "delete", "insert", "unrole", "erase"},
                         target : Accounts \union {NoAccount}, makes : BOOLEAN]
  BY DEF NoTask, Task

LEMMA BeginStaff ==
  ASSUME StaffInv, NEW d \in Desks, NEW target \in Accounts, NEW makes \in BOOLEAN,
         NEW at \in {"count", "delete", "unrole"},
         BeginTask(d, Task(at, target, makes)),
         target \in accounts,
         at = "count" => target \in supers /\ ~makes,
         at = "delete" => target \notin supers \/ makes,
         at = "unrole" => target \notin supers /\ ~makes
  PROVE  StaffInv'
  <1> DEFINE t == Task(at, target, makes)
  <1>1. /\ t.at = at /\ t.target = target /\ t.makes = makes
        /\ t \in [at : {"idle", "count", "delete", "insert", "unrole", "erase"},
                  target : Accounts \union {NoAccount}, makes : BOOLEAN]
    BY DEF Task
  <1>2. /\ task[d] = NoTask /\ task' = [task EXCEPT ![d] = t]
        /\ UNCHANGED <<accounts, supers, brokenOff>>
        /\ clashed' = (clashed \/ \E o \in Desks :
                   task[o] # NoTask /\ (TakesRole(t) \/ TakesRole(task[o])))
    BY DEF BeginTask
  <1> HIDE DEF t
  <1>3. /\ task'[d] = t /\ \A o \in Desks \ {d} : task'[o] = task[o]
    BY <1>2 DEF StaffInv, StaffTypeOK
  <1>4. StaffTypeOK' /\ StaffTargets'
    BY <1>1, <1>2, <1>3 DEF StaffInv, StaffTypeOK, StaffTargets
  <1>5. SuperAdminRemains'
    <2>1. ASSUME NEW o \in Desks, task[o].at = "insert" PROVE task'[o].at = "insert"
      BY <1>2, <1>3, <2>1, NoTaskMade
    <2> QED
      BY <1>2, <2>1 DEF StaffInv, SuperAdminRemains
  <1>6. ASSUME ~clashed' PROVE OthersStay'
    <2>1. \A o \in Desks : task[o] # NoTask => ~TakesRole(t) /\ ~TakesRole(task[o])
      BY <1>2, <1>6
    <2>2. ~clashed
      BY <1>2, <1>6
    <2>3. ASSUME NEW o \in Desks, TakesRole(task'[o]) PROVE Alone(o)'
      <3>1. CASE o = d
        BY <1>3, <2>1, <2>3, <3>1 DEF Alone
      <3>2. CASE o # d
        BY <1>3, <2>1, <2>3, <3>2, NoTaskMade DEF TakesRole
      <3> QED
        BY <3>1, <3>2
    <2>4. ASSUME NEW o \in Desks
          PROVE  /\ task'[o].at = "delete" /\ ~task'[o].makes =>
                      supers' = {} \/ supers' \ {task'[o].target} # {}
                 /\ task'[o].at \in {"unrole", "erase"} => task'[o].target \notin supers'
                 /\ task'[o].at \in {"delete", "insert"} /\ task'[o].makes =>
                      task'[o].target \in accounts'
      <3>1. CASE o = d
        BY <1>1, <1>2, <1>3, <3>1
      <3>2. CASE o # d
        BY <1>2, <1>3, <2>2, <3>2 DEF StaffInv, OthersStay
      <3> QED
        BY <3>1, <3>2
    <2> QED
      BY <2>3, <2>4 DEF OthersStay
  <1> QED
    BY <1>4, <1>5, <1>6 DEF StaffInv, OthersStay

LEMMA StartStaff ==
  ASSUME StaffInv, NEW d \in Desks, NEW admin \in Accounts, NEW target \in Accounts,
         StartErase(d, admin, target) \/ \E makes \in BOOLEAN : StartAssign(d, admin, target, makes)
  PROVE  StaffInv'
  <1>1. CASE StartErase(d, admin, target)
    BY <1>1, BeginStaff DEF StartErase
  <1>2. ASSUME NEW makes \in BOOLEAN, StartAssign(d, admin, target, makes) PROVE StaffInv'
    <2>1. CASE target \in supers /\ ~makes
      BY <1>2, <2>1, BeginStaff DEF StartAssign
    <2>2. CASE ~(target \in supers /\ ~makes)
      BY <1>2, <2>2, BeginStaff DEF StartAssign
    <2> QED
      BY <2>1, <2>2
  <1> QED
    BY <1>1, <1>2

LEMMA CountStaff ==
  ASSUME StaffInv, NEW d \in Desks, CountSupers(d)
  PROVE  StaffInv'
  <1>1. /\ \A o \in Desks \ {d} : task'[o] = task[o]
        /\ task[d].at = "count" /\ UNCHANGED <<accounts, supers, clashed, brokenOff>>
        /\ \/ task'[d] = NoTask
           \/ ~LastSuper /\ task'[d] = [task[d] EXCEPT !.at = "delete"]
    BY DEF StaffInv, StaffTypeOK, CountSupers, LeaveDesk, Advance
  <1>2. task' \in [Desks -> [at : {"idle", "count", "delete", "insert", "unrole", "erase"},
                         target : Accounts \union {NoAccount}, makes : BOOLEAN]]
    BY NoTaskMade DEF StaffInv, StaffTypeOK, CountSupers, LeaveDesk, Advance
  <1>3. \/ task'[d] = NoTask
        \/ /\ task'[d].at = "delete" /\ task'[d].makes = task[d].makes
           /\ task'[d].target = task[d].target /\ ~LastSuper
    BY <1>1 DEF StaffInv, StaffTypeOK
  <1> QED
    BY <1>1, <1>2, <1>3, NoTaskMade, TwoSupers
    DEF StaffInv, StaffTypeOK, StaffTargets, OthersStay, SuperAdminRemains, Alone, TakesRole

LEMMA DeleteStaff ==
  ASSUME StaffInv, NEW d \in Desks, DeleteRoles(d)
  PROVE  StaffInv'
  <1>1. /\ \A o \in Desks \ {d} : task'[o] = task[o]
        /\ task[d].at = "delete" /\ UNCHANGED <<accounts, clashed, brokenOff>>
        /\ supers' = supers \ {task[d].target}
        /\ \/ ~task[d].makes /\ task'[d] = NoTask
           \/ task[d].makes /\ task'[d] = [task[d] EXCEPT !.at = "insert"]
    BY DEF StaffInv, StaffTypeOK, DeleteRoles, LeaveDesk, Advance
  <1>2. task' \in [Desks -> [at : {"idle", "count", "delete", "insert", "unrole", "erase"},
                         target : Accounts \union {NoAccount}, makes : BOOLEAN]]
    BY NoTaskMade DEF StaffInv, StaffTypeOK, DeleteRoles, LeaveDesk, Advance
  <1>3. \/ ~task[d].makes /\ task'[d] = NoTask
        \/ /\ task'[d].at = "insert" /\ task[d].makes /\ task'[d].makes
           /\ task'[d].target = task[d].target
    BY <1>1 DEF StaffInv, StaffTypeOK
  <1>4. StaffTypeOK' /\ StaffTargets'
    BY <1>1, <1>2, <1>3, NoTaskMade DEF StaffInv, StaffTypeOK, StaffTargets
  <1>5. ASSUME ~clashed PROVE OthersStay'
    <2>1. CASE task[d].makes
      <3>1. \A o \in Desks : ~TakesRole(task[o])
        <4> SUFFICES ASSUME NEW o \in Desks, TakesRole(task[o]) PROVE FALSE
          OBVIOUS
        <4>1. Alone(o)
          BY <1>5 DEF StaffInv, OthersStay
        <4> QED
          BY <1>1, <2>1, <4>1, NoTaskMade DEF Alone, TakesRole
      <3> QED
        BY <1>1, <1>3, <1>5, <2>1, <3>1
        DEF StaffInv, StaffTypeOK, StaffTargets, OthersStay, TakesRole
    <2>2. CASE ~task[d].makes
      <3>1. \A o \in Desks : task'[o] = NoTask
        BY <1>1, <1>3, <1>5, <2>2 DEF StaffInv, OthersStay, TakesRole, Alone
      <3> QED
        BY <3>1, NoTaskMade DEF OthersStay, TakesRole
    <2> QED
      BY <2>1, <2>2
  <1>6. SuperAdminRemains'
    BY <1>1, <1>3, NoTaskMade DEF StaffInv, OthersStay, SuperAdminRemains
  <1> QED
    BY <1>1, <1>4, <1>5, <1>6 DEF StaffInv, OthersStay

LEMMA InsertStaff ==
  ASSUME StaffInv, NEW d \in Desks, InsertRoles(d)
  PROVE  StaffInv'
  <1>1. /\ \A o \in Desks \ {d} : task'[o] = task[o]
        /\ task[d].at = "insert" /\ UNCHANGED <<accounts, clashed, brokenOff>>
        /\ supers' = supers \union ({task[d].target} \intersect accounts)
        /\ task'[d] = NoTask
    BY DEF StaffInv, StaffTypeOK, InsertRoles, LeaveDesk
  <1>2. StaffTypeOK' /\ StaffTargets'
    BY <1>1, NoTaskMade DEF StaffInv, StaffTypeOK, StaffTargets, InsertRoles, LeaveDesk
  <1>3. ASSUME ~clashed PROVE OthersStay'
    <2>1. \A o \in Desks : ~TakesRole(task[o])
      <3> SUFFICES ASSUME NEW o \in Desks, TakesRole(task[o]) PROVE FALSE
        OBVIOUS
      <3>1. Alone(o)
        BY <1>3 DEF StaffInv, OthersStay
      <3> QED
        BY <1>1, <3>1, NoTaskMade DEF Alone, TakesRole
    <2> QED
      BY <1>1, <1>3, <2>1, NoTaskMade
      DEF StaffInv, StaffTypeOK, StaffTargets, OthersStay, TakesRole
  <1>4. SuperAdminRemains'
    <2>1. ~clashed => task[d].target \in accounts
      BY <1>1 DEF StaffInv, StaffTargets, OthersStay
    <2> QED
      BY <1>1, <2>1, NoTaskMade DEF StaffInv, SuperAdminRemains
  <1> QED
    BY <1>1, <1>2, <1>3, <1>4 DEF StaffInv, OthersStay

LEMMA EraseStaff ==
  ASSUME StaffInv, NEW d \in Desks, RemoveRoles(d) \/ EraseAccount(d)
  PROVE  StaffInv'
  <1>1. /\ \A o \in Desks \ {d} : task'[o] = task[o]
        /\ task[d].at \in {"unrole", "erase"} /\ UNCHANGED <<clashed, brokenOff>>
        /\ supers' = supers \ {task[d].target}
        /\ \/ task'[d] = [task[d] EXCEPT !.at = "erase"] /\ accounts' = accounts
           \/ task'[d] = NoTask /\ accounts' = accounts \ {task[d].target}
    BY DEF StaffInv, StaffTypeOK, RemoveRoles, EraseAccount, LeaveDesk, Advance
  <1>2. task' \in [Desks -> [at : {"idle", "count", "delete", "insert", "unrole", "erase"},
                         target : Accounts \union {NoAccount}, makes : BOOLEAN]]
    BY NoTaskMade DEF StaffInv, StaffTypeOK, RemoveRoles, EraseAccount, LeaveDesk, Advance
  <1>3. \/ task'[d] = NoTask
        \/ /\ task'[d].at = "erase" /\ task'[d].makes = task[d].makes
           /\ task'[d].target = task[d].target
    BY <1>1 DEF StaffInv, StaffTypeOK
  <1>4. StaffTypeOK' /\ StaffTargets'
    BY <1>1, <1>2, <1>3, NoTaskMade DEF StaffInv, StaffTypeOK, StaffTargets
  <1>5. ASSUME ~clashed
        PROVE  /\ task[d].target \notin supers /\ ~task[d].makes
               /\ \A o \in Desks \ {d} : task'[o] = NoTask
    BY <1>1, <1>5 DEF StaffInv, StaffTargets, OthersStay, TakesRole, Alone
  <1>6. ASSUME ~clashed PROVE OthersStay'
    BY <1>1, <1>3, <1>5, <1>6, NoTaskMade DEF OthersStay, TakesRole, Alone
  <1>7. SuperAdminRemains'
    BY <1>1, <1>5, NoTaskMade DEF StaffInv, SuperAdminRemains
  <1> QED
    BY <1>1, <1>4, <1>6, <1>7 DEF StaffInv, OthersStay

LEMMA DieStaff ==
  ASSUME StaffInv, NEW d \in Desks, RequestDies(d)
  PROVE  StaffInv'
  <1>1. /\ \A o \in Desks \ {d} : task'[o] = task[o]
        /\ UNCHANGED <<accounts, supers, clashed>>
        /\ task'[d] = NoTask /\ brokenOff' = (brokenOff \/ task[d].at = "insert")
    BY DEF StaffInv, StaffTypeOK, RequestDies, LeaveDesk
  <1>2. StaffTypeOK' /\ StaffTargets'
    BY <1>1, NoTaskMade DEF StaffInv, StaffTypeOK, StaffTargets, RequestDies, LeaveDesk
  <1>3. OthersStay'
    BY <1>1, NoTaskMade DEF StaffInv, OthersStay, TakesRole, Alone
  <1>4. SuperAdminRemains'
    BY <1>1 DEF StaffInv, SuperAdminRemains
  <1> QED
    BY <1>2, <1>3, <1>4 DEF StaffInv

LEMMA StaffFollows == StaffSpec => []StaffInv
  <1>1. StaffInit => StaffInv
    BY NoTaskMade
    DEF StaffInit, StaffInv, StaffTypeOK, StaffTargets, OthersStay, SuperAdminRemains, TakesRole
  <1>2. StaffInv /\ [StaffNext]_staffVars => StaffInv'
    <2> SUFFICES ASSUME StaffInv, [StaffNext]_staffVars PROVE StaffInv'
      OBVIOUS
    <2>1. CASE UNCHANGED staffVars
      BY <2>1 DEF staffVars, StaffInv, StaffTypeOK, StaffTargets, OthersStay,
           SuperAdminRemains, TakesRole, Alone
    <2> QED
      BY <2>1, StartStaff, CountStaff, DeleteStaff, InsertStaff, EraseStaff, DieStaff
      DEF StaffNext
  <1> QED
    BY <1>1, <1>2, PTL DEF StaffSpec

\* The shop keeps a super admin, for any accounts and any number of requests.
THEOREM StaffKeepsSuper == StaffSpec => []SuperAdminRemains
  <1>1. StaffInv => SuperAdminRemains
    BY DEF StaffInv
  <1> QED
    BY <1>1, StaffFollows, PTL

\* The types of the accounts and of the requests.
LEMMA StaffTyped == StaffSpec => []StaffTypeOK
  <1>1. StaffInv => StaffTypeOK
    BY DEF StaffInv
  <1> QED
    BY <1>1, StaffFollows, PTL

-----------------------------------------------------------------------------
\* What is stored, or about to be, is no older than its time to live and the
\* length of a request allow.
Young ==
  /\ \A s \in Stores, k \in CacheKeys :
       entries[s][k].ttl > 0 =>
         entries[s][k].value.outdated + entries[s][k].ttl <= Lifetime + MaxRequest
  /\ \A h \in Readers :
       reader[h].loaded => reader[h].key \in CacheKeys /\ reader[h].value.outdated <= reader[h].age

\* A fill in hand is outdated only if it was overtaken or a writer still has
\* its delete to do.
FillsFollow ==
  ~troubled => \A h \in Readers :
    reader[h].loaded /\ reader[h].value.version # version[reader[h].key] =>
      reader[h].value.overtaken \/ \E w \in Writers : writer[w] = reader[h].key

CacheInv == CacheTypeOK /\ Young


LEMMA CacheParts ==
  ASSUME CacheTypeOK
  PROVE  /\ \A s \in Stores, k \in CacheKeys :
              entries[s][k].ttl \in 0..Lifetime /\ entries[s][k].value \in Values
         /\ \A h \in Readers : reader[h].age \in 0..MaxRequest /\ reader[h].value \in Values
         /\ \A v \in Values : v.version \in Nat /\ v.outdated \in Nat /\ v.overtaken \in BOOLEAN
  BY DEF CacheTypeOK, Values

LEMMA CacheMade ==
  /\ \A v, o, b : /\ Value(v, o, b).version = v /\ Value(v, o, b).outdated = o
                  /\ Value(v, o, b).overtaken = b
                  /\ v \in Nat /\ o \in Nat /\ b \in BOOLEAN => Value(v, o, b) \in Values
  /\ Missing.ttl = 0 /\ Missing.value \in Values
  /\ \A v, t : Entry(v, t).value = v /\ Entry(v, t).ttl = t
  BY DEF Value, Values, Missing, Entry

CacheEntries == [value : Values, ttl : 0..Lifetime]

CacheReaders == [key : CacheKeys \cup {NoCacheKey}, loaded : BOOLEAN,
                 age : 0..MaxRequest, value : Values]

LEMMA IdleReaders == IdleReader \in CacheReaders /\ IdleReader.loaded = FALSE
                      /\ IdleReader.key = NoCacheKey
  BY CacheAssumption DEF IdleReader, CacheReaders, Value, Values

LEMMA EntriesMade ==
  /\ Missing \in CacheEntries
  /\ \A v \in Values, t \in 0..Lifetime : Entry(v, t) \in CacheEntries
  BY CacheAssumption DEF Missing, Entry, CacheEntries, Value, Values

LEMMA MissYoung == ASSUME CacheInv, NEW h \in Readers, NEW k \in CacheKeys, Miss(h, k) PROVE CacheInv'
  <1>1. /\ reader[h] \in CacheReaders
        /\ reader' = [reader EXCEPT ![h] = [reader[h] EXCEPT !.key = k]]
        /\ UNCHANGED <<version, online, entries, writer, troubled>>
    BY DEF CacheInv, CacheTypeOK, CacheReaders, Miss
  <1>2. /\ [reader[h] EXCEPT !.key = k] \in CacheReaders
        /\ [reader[h] EXCEPT !.key = k].key = k
        /\ [reader[h] EXCEPT !.key = k].loaded = reader[h].loaded
        /\ [reader[h] EXCEPT !.key = k].age = reader[h].age
        /\ [reader[h] EXCEPT !.key = k].value = reader[h].value
    BY <1>1 DEF CacheReaders
  <1> QED
    BY <1>1, <1>2 DEF CacheInv, CacheTypeOK, CacheReaders, Young

LEMMA LoadYoung == ASSUME CacheInv, NEW h \in Readers, Load(h) PROVE CacheInv'
  <1> DEFINE v == Value(version[reader[h].key], 0, FALSE)
             r == [reader[h] EXCEPT !.loaded = TRUE, !.value = v]
  <1>1. /\ reader[h] \in CacheReaders /\ reader[h].key \in CacheKeys
        /\ version[reader[h].key] \in Nat
    BY DEF CacheInv, CacheTypeOK, CacheReaders, Load
  <1>2. /\ v \in Values /\ v.outdated = 0 /\ v.version = version[reader[h].key]
    BY <1>1 DEF Value, Values
  <1>3. /\ reader' = [reader EXCEPT ![h] = r]
        /\ UNCHANGED <<version, online, entries, writer, troubled>>
    BY <1>1 DEF Load, CacheInv, CacheTypeOK
  <1> HIDE DEF v
  <1>4. /\ r \in CacheReaders /\ r.key = reader[h].key /\ r.age = reader[h].age /\ r.value = v
    BY <1>1, <1>2 DEF CacheReaders
  <1> HIDE DEF r
  <1>5. r.age \in Nat
    BY <1>4, CacheAssumption DEF CacheReaders
  <1> QED
    BY <1>1, <1>2, <1>3, <1>4, <1>5 DEF CacheInv, CacheTypeOK, CacheReaders, Young

LEMMA StoreYoung == ASSUME CacheInv, NEW h \in Readers, Store(h) PROVE CacheInv'
  <1> DEFINE key == reader[h].key
             new == Entry(reader[h].value, Lifetime)
  <1>1. /\ reader[h].value \in Values /\ key \in CacheKeys /\ Place \in Stores
        /\ reader[h].value.outdated <= MaxRequest
        /\ reader[h].value.outdated \in Nat
    BY CacheAssumption, CacheParts DEF CacheInv, Young, Store, Place, Stores
  <1>2. new \in CacheEntries /\ new.value = reader[h].value /\ new.ttl = Lifetime
    BY <1>1, EntriesMade, CacheMade, CacheAssumption
  <1>3. /\ entries' = [entries EXCEPT ![Place][key] = new]
        /\ reader' = [reader EXCEPT ![h] = IdleReader]
        /\ UNCHANGED <<version, online, writer, troubled>>
    BY DEF Store
  <1> HIDE DEF new, key
  <1>4. CacheTypeOK'
    BY <1>1, <1>2, <1>3, IdleReaders DEF CacheInv, CacheTypeOK, CacheEntries, CacheReaders
  <1>5. ASSUME NEW s \in Stores, NEW k \in CacheKeys, entries'[s][k].ttl > 0
        PROVE  entries'[s][k].value.outdated + entries'[s][k].ttl <= Lifetime + MaxRequest
    <2>1. CASE s = Place /\ k = key
      BY <1>1, <1>2, <1>3, <2>1, CacheAssumption DEF CacheInv, CacheTypeOK
    <2>2. CASE ~(s = Place /\ k = key)
      BY <1>1, <1>3, <1>5, <2>2 DEF CacheInv, CacheTypeOK, Young
    <2> QED
      BY <2>1, <2>2
  <1> QED
    BY <1>3, <1>4, <1>5, IdleReaders DEF CacheInv, CacheTypeOK, Young

LEMMA ChangeYoung == ASSUME CacheInv, NEW w \in Writers, NEW k \in CacheKeys, Change(w, k) PROVE CacheInv'
  BY DEF CacheInv, CacheTypeOK, Young, Change

LEMMA OvertakenReaders ==
  ASSUME CacheInv, NEW k
  PROVE  /\ Overtake(k) \in [Readers -> CacheReaders]
         /\ \A h \in Readers :
              /\ Overtake(k)[h].key = reader[h].key /\ Overtake(k)[h].loaded = reader[h].loaded
              /\ Overtake(k)[h].age = reader[h].age
              /\ Overtake(k)[h].value.outdated = reader[h].value.outdated
              /\ Overtake(k)[h].value.version = reader[h].value.version
              /\ Overtake(k)[h].value.overtaken =
                   (reader[h].value.overtaken \/ (reader[h].key = k /\ reader[h].loaded))
  <1> SUFFICES ASSUME NEW h \in Readers
               PROVE /\ Overtake(k)[h] \in CacheReaders
                     /\ Overtake(k)[h].key = reader[h].key /\ Overtake(k)[h].loaded = reader[h].loaded
                     /\ Overtake(k)[h].age = reader[h].age
                     /\ Overtake(k)[h].value.outdated = reader[h].value.outdated
                     /\ Overtake(k)[h].value.version = reader[h].value.version
                     /\ Overtake(k)[h].value.overtaken =
                          (reader[h].value.overtaken \/ (reader[h].key = k /\ reader[h].loaded))
    BY DEF Overtake
  <1>1. reader[h] \in CacheReaders /\ reader[h].value \in Values
    BY DEF CacheInv, CacheTypeOK, CacheReaders
  <1>2. CASE reader[h].key = k /\ reader[h].loaded
    <2>1. Overtake(k)[h] = [reader[h] EXCEPT !.value.overtaken = TRUE]
      BY <1>2 DEF Overtake
    <2>2. /\ Overtake(k)[h].key = reader[h].key /\ Overtake(k)[h].loaded = reader[h].loaded
          /\ Overtake(k)[h].age = reader[h].age
          /\ Overtake(k)[h].value = [reader[h].value EXCEPT !.overtaken = TRUE]
          /\ Overtake(k)[h] = [key |-> reader[h].key, loaded |-> reader[h].loaded,
                age |-> reader[h].age, value |-> [reader[h].value EXCEPT !.overtaken = TRUE]]
      BY <1>1, <2>1 DEF CacheReaders
    <2>3. /\ [reader[h].value EXCEPT !.overtaken = TRUE] \in Values
          /\ [reader[h].value EXCEPT !.overtaken = TRUE].version = reader[h].value.version
          /\ [reader[h].value EXCEPT !.overtaken = TRUE].outdated = reader[h].value.outdated
          /\ [reader[h].value EXCEPT !.overtaken = TRUE].overtaken = TRUE
      BY <1>1 DEF Values
    <2>4. Overtake(k)[h] \in CacheReaders
      BY <1>1, <2>2, <2>3 DEF CacheReaders
    <2> QED
      BY <1>2, <2>2, <2>3, <2>4
  <1>3. CASE ~(reader[h].key = k /\ reader[h].loaded)
    <2>1. Overtake(k)[h] = reader[h]
      BY <1>3 DEF Overtake
    <2> QED
      BY <1>1, <1>3, <2>1 DEF CacheReaders, Values
  <1> QED
    BY <1>2, <1>3

LEMMA InvalidateYoung == ASSUME CacheInv, NEW w \in Writers, Invalidate(w) PROVE CacheInv'
  <1> DEFINE k == writer[w]
  <1>1. /\ k \in CacheKeys /\ Place \in Stores
        /\ reader' = Overtake(k) /\ UNCHANGED <<version, online, troubled>>
        /\ writer' = [writer EXCEPT ![w] = NoCacheKey]
        /\ \/ entries' = entries
           \/ entries' = [entries EXCEPT ![Place][k] = Missing]
    BY DEF Invalidate, CacheInv, CacheTypeOK, Place, Stores
  <1> HIDE DEF k
  <1>2. CacheTypeOK'
    <2>1. entries \in [Stores -> [CacheKeys -> CacheEntries]]
      BY DEF CacheInv, CacheTypeOK, CacheEntries
    <2>2. entries' \in [Stores -> [CacheKeys -> CacheEntries]]
      BY <1>1, <2>1, EntriesMade
    <2>3. reader' \in [Readers -> CacheReaders]
      BY <1>1, OvertakenReaders
    <2>4. writer' \in [Writers -> CacheKeys \cup {NoCacheKey}]
      BY <1>1 DEF CacheInv, CacheTypeOK
    <2> QED
      BY <1>1, <2>2, <2>3, <2>4 DEF CacheInv, CacheTypeOK, CacheEntries, CacheReaders
  <1>3. ASSUME NEW s \in Stores, NEW l \in CacheKeys, entries'[s][l].ttl > 0
        PROVE  entries'[s][l] = entries[s][l]
    <2>1. entries \in [Stores -> [CacheKeys -> CacheEntries]]
      BY DEF CacheInv, CacheTypeOK, CacheEntries
    <2>2. CASE entries' = entries
      BY <2>2
    <2>3. CASE entries' = [entries EXCEPT ![Place][k] = Missing]
      <3>1. CASE s = Place /\ l = k
        <4>1. entries'[s][l] = Missing
          BY <1>1, <2>1, <2>3, <3>1
        <4> QED
          BY <1>3, <4>1, CacheMade
      <3>2. CASE ~(s = Place /\ l = k)
        BY <1>1, <2>1, <2>3, <3>2
      <3> QED
        BY <3>1, <3>2
    <2> QED
      BY <1>1, <2>2, <2>3
  <1>4. \A s \in Stores, l \in CacheKeys :
          entries'[s][l].ttl > 0 =>
            entries'[s][l].value.outdated + entries'[s][l].ttl <= Lifetime + MaxRequest
    BY <1>3 DEF CacheInv, Young
  <1>5. \A h \in Readers : reader'[h].loaded =>
          reader'[h].key \in CacheKeys /\ reader'[h].value.outdated <= reader'[h].age
    BY <1>1, OvertakenReaders DEF CacheInv, Young
  <1> QED
    BY <1>2, <1>4, <1>5 DEF CacheInv, Young

LEMMA OthersYoung ==
  ASSUME CacheInv,
         \/ \E w \in Writers : WriterFails(w)
         \/ CacheLosesRedis
         \/ UNCHANGED cacheVars
  PROVE  CacheInv'
  BY DEF CacheInv, CacheTypeOK, Young, WriterFails, CacheLosesRedis, cacheVars

LEMMA RestartYoung == ASSUME CacheInv, CacheRestart PROVE CacheInv'
  BY EntriesMade, CacheMade, IdleReaders
  DEF CacheInv, CacheTypeOK, CacheEntries, CacheReaders, Young, CacheRestart, Stores

LEMMA OlderValues ==
  ASSUME NEW k, NEW v \in Values
  PROVE  /\ Older(k, v) \in Values
         /\ Older(k, v).version = v.version
         /\ Older(k, v).overtaken = v.overtaken
         /\ Older(k, v).outdated \in {v.outdated, v.outdated + 1}
  <1>1. CASE v.version = version[k]
    BY <1>1 DEF Older, Values
  <1>2. CASE v.version # version[k]
    BY <1>2 DEF Older, Values
  <1> QED
    BY <1>1, <1>2

LEMMA AgedEntries ==
  ASSUME NEW k \in CacheKeys, NEW e \in CacheEntries
  PROVE  /\ AgedEntry(k, e) \in CacheEntries
         /\ AgedEntry(k, e).ttl > 0 =>
              /\ e.ttl > 0 /\ AgedEntry(k, e).ttl = e.ttl - 1
              /\ AgedEntry(k, e).value = Older(k, e.value)
  <1>1. e.value \in Values /\ e.ttl \in 0..Lifetime
    BY DEF CacheEntries
  <1>2. CASE TimeToLive(e.ttl) = 0
    BY <1>2, EntriesMade, CacheMade DEF AgedEntry
  <1>3. CASE TimeToLive(e.ttl) # 0
    <2>1. e.ttl > 0 /\ TimeToLive(e.ttl) = e.ttl - 1 /\ TimeToLive(e.ttl) \in 0..Lifetime
      BY <1>1, <1>3, CacheAssumption DEF TimeToLive
    <2>2. AgedEntry(k, e) = Entry(Older(k, e.value), TimeToLive(e.ttl))
      BY <1>3 DEF AgedEntry
    <2> QED
      BY <1>1, <2>1, <2>2, OlderValues DEF Entry, CacheEntries
  <1> QED
    BY <1>2, <1>3

LEMMA AgedReaders ==
  ASSUME NEW r \in CacheReaders, r.age < MaxRequest
  PROVE  /\ AgedReader(r) \in CacheReaders
         /\ AgedReader(r).key = r.key /\ AgedReader(r).loaded = r.loaded
         /\ r.loaded /\ r.key \in CacheKeys =>
              AgedReader(r).age = r.age + 1 /\ AgedReader(r).value = Older(r.key, r.value)
  <1>1. r.value \in Values /\ r.age \in Nat /\ r.age + 1 \in 0..MaxRequest
    BY CacheAssumption DEF CacheReaders
  <1>2. CASE r.loaded
    <2>1. AgedReader(r) = [r EXCEPT !.age = r.age + 1, !.value = Older(r.key, r.value)]
      BY <1>2 DEF AgedReader
    <2>2. Older(r.key, r.value) \in Values
      BY <1>1, OlderValues
    <2> QED
      BY <1>1, <2>1, <2>2 DEF CacheReaders
  <1>3. CASE ~r.loaded
    BY <1>3 DEF AgedReader
  <1> QED
    BY <1>2, <1>3

LEMMA TickYoung == ASSUME CacheInv, Tick PROVE CacheInv'
  <1>1. \A s \in Stores, k \in CacheKeys :
          entries[s][k] \in CacheEntries /\ entries'[s][k] = AgedEntry(k, entries[s][k])
    BY DEF CacheInv, CacheTypeOK, CacheEntries, Tick
  <1>2. \A h \in Readers :
          /\ reader[h] \in CacheReaders /\ reader[h].age < MaxRequest
          /\ reader'[h] = AgedReader(reader[h])
    BY DEF CacheInv, CacheTypeOK, CacheReaders, Tick
  <1>3. CacheTypeOK'
    <2>1. entries' \in [Stores -> [CacheKeys -> CacheEntries]]
      BY <1>1, AgedEntries DEF Tick
    <2>2. reader' \in [Readers -> CacheReaders]
      BY <1>2, AgedReaders DEF Tick
    <2> QED
      BY <2>1, <2>2 DEF CacheInv, CacheTypeOK, CacheEntries, CacheReaders, Tick
  <1>4. ASSUME NEW s \in Stores, NEW k \in CacheKeys, entries'[s][k].ttl > 0
        PROVE  entries'[s][k].value.outdated + entries'[s][k].ttl <= Lifetime + MaxRequest
    <2> DEFINE e == entries[s][k]
    <2>1. /\ e \in CacheEntries /\ e.ttl > 0 /\ entries'[s][k].ttl = e.ttl - 1
          /\ entries'[s][k].value = Older(k, e.value)
      BY <1>1, <1>4, AgedEntries
    <2>2. e.value \in Values /\ e.ttl \in Nat /\ e.value.outdated \in Nat
      BY <2>1 DEF CacheEntries, Values
    <2>3. e.value.outdated + e.ttl <= Lifetime + MaxRequest
      BY <2>1 DEF CacheInv, Young
    <2> QED
      BY <2>1, <2>2, <2>3, OlderValues, CacheAssumption
  <1>5. ASSUME NEW h \in Readers, reader'[h].loaded
        PROVE  reader'[h].key \in CacheKeys /\ reader'[h].value.outdated <= reader'[h].age
    <2> DEFINE r == reader[h]
    <2>1. /\ r \in CacheReaders /\ r.loaded /\ r.key \in CacheKeys
          /\ r.value.outdated <= r.age
      BY <1>2, <1>5, AgedReaders DEF CacheInv, Young
    <2>2. r.value \in Values /\ r.age \in Nat /\ r.value.outdated \in Nat
      BY <2>1 DEF CacheReaders, Values
    <2>3. /\ reader'[h].key = r.key /\ reader'[h].age = r.age + 1
          /\ reader'[h].value = Older(r.key, r.value)
      BY <1>2, <2>1, AgedReaders
    <2> QED
      BY <2>1, <2>2, <2>3, OlderValues
  <1> QED
    BY <1>3, <1>4, <1>5 DEF CacheInv, Young

LEMMA CacheStart == CacheInit => CacheInv
  <1> SUFFICES ASSUME CacheInit PROVE CacheInv
    OBVIOUS
  <1>1. \A s \in Stores, k \in CacheKeys : entries[s][k] = Missing
    BY DEF CacheInit
  <1>2. \A h \in Readers : reader[h] = IdleReader
    BY DEF CacheInit
  <1>3. version \in [CacheKeys -> Nat]
    BY DEF CacheInit
  <1>4. entries \in [Stores -> [CacheKeys -> CacheEntries]]
    BY EntriesMade DEF CacheInit
  <1>5. reader \in [Readers -> CacheReaders]
    BY IdleReaders DEF CacheInit
  <1>6. CacheTypeOK
    BY <1>3, <1>4, <1>5 DEF CacheInit, CacheTypeOK, CacheEntries, CacheReaders
  <1>7. Young
    BY <1>1, <1>2, CacheMade, IdleReaders DEF Young
  <1> QED
    BY <1>6, <1>7 DEF CacheInv

LEMMA CacheStep == CacheInv /\ [CacheNext]_cacheVars => CacheInv'
  BY MissYoung, LoadYoung, StoreYoung, ChangeYoung, InvalidateYoung, OthersYoung,
     RestartYoung, TickYoung
  DEF CacheNext

\* Nothing is served for longer than its time to live and a request after it
\* was changed, for any keys, readers and writers.
THEOREM CacheStaleness == CacheSpec => []StalenessBounded
  <1>1. CacheInv => StalenessBounded
    <2> SUFFICES ASSUME CacheInv, NEW s \in Stores, NEW k \in CacheKeys, entries[s][k].ttl > 0
                 PROVE  entries[s][k].value.outdated <= Lifetime + MaxRequest
      BY DEF StalenessBounded
    <2>1. entries[s][k].value.outdated \in Nat /\ entries[s][k].ttl \in Nat
      BY CacheParts DEF CacheInv
    <2> QED
      BY <2>1, CacheAssumption DEF CacheInv, Young
  <1> QED
    BY <1>1, CacheStart, CacheStep, PTL DEF CacheSpec

\* The types of the entries, the readers and the writers.
LEMMA CacheTyped == CacheSpec => []CacheTypeOK
  <1>1. CacheInv => CacheTypeOK
    BY DEF CacheInv
  <1> QED
    BY <1>1, CacheStart, CacheStep, PTL DEF CacheSpec

-----------------------------------------------------------------------------
CacheFollow == CacheInv /\ FillsFollow /\ StaleOnlyIfOvertaken

LEMMA FollowQuiet ==
  ASSUME CacheFollow, UNCHANGED <<version, online, entries, writer, troubled>>,
         \A h \in Readers : reader'[h].loaded =>
            \/ reader'[h] = reader[h]
            \/ reader'[h].value.version = version[reader'[h].key]
  PROVE  FillsFollow' /\ StaleOnlyIfOvertaken'
  BY DEF CacheFollow, FillsFollow, StaleOnlyIfOvertaken, Place

LEMMA MissFollow ==
  ASSUME CacheFollow, NEW h \in Readers, NEW k \in CacheKeys, Miss(h, k)
  PROVE  FillsFollow' /\ StaleOnlyIfOvertaken'
  <1>1. ~reader[h].loaded
    BY CacheAssumption DEF CacheFollow, CacheInv, Young, Miss
  <1>2. reader[h] \in CacheReaders
    BY DEF CacheFollow, CacheInv, CacheTypeOK, CacheReaders
  <1>3. /\ [reader[h] EXCEPT !.key = k].loaded = reader[h].loaded
        /\ reader' = [reader EXCEPT ![h] = [reader[h] EXCEPT !.key = k]]
    BY <1>2 DEF Miss, CacheReaders, CacheFollow, CacheInv, CacheTypeOK
  <1>4. \A g \in Readers : reader'[g].loaded => reader'[g] = reader[g]
    BY <1>1, <1>3 DEF CacheFollow, CacheInv, CacheTypeOK
  <1> QED
    BY <1>4, FollowQuiet DEF Miss

LEMMA LoadFollow ==
  ASSUME CacheFollow, NEW h \in Readers, Load(h)
  PROVE  FillsFollow' /\ StaleOnlyIfOvertaken'
  <1> DEFINE v == Value(version[reader[h].key], 0, FALSE)
             r == [reader[h] EXCEPT !.loaded = TRUE, !.value = v]
  <1>1. /\ reader[h] \in CacheReaders
        /\ reader' = [reader EXCEPT ![h] = r]
    BY DEF CacheFollow, CacheInv, CacheTypeOK, CacheReaders, Load
  <1>2. v.version = version[reader[h].key]
    BY DEF Value
  <1> HIDE DEF v
  <1>3. r.key = reader[h].key /\ r.value = v
    BY <1>1 DEF CacheReaders
  <1> HIDE DEF r
  <1>4. \A g \in Readers : \/ reader'[g] = reader[g]
                           \/ reader'[g].value.version = version[reader'[g].key]
    BY <1>1, <1>2, <1>3 DEF CacheFollow, CacheInv, CacheTypeOK
  <1> QED
    BY <1>4, FollowQuiet DEF Load

LEMMA StoreFollow ==
  ASSUME CacheFollow, NEW h \in Readers, Store(h)
  PROVE  FillsFollow' /\ StaleOnlyIfOvertaken'
  <1> DEFINE key == reader[h].key
             new == Entry(reader[h].value, Lifetime)
  <1>1. /\ key \in CacheKeys /\ Place \in Stores
        /\ new.value = reader[h].value
        /\ entries' = [entries EXCEPT ![Place][key] = new]
        /\ reader' = [reader EXCEPT ![h] = IdleReader]
        /\ UNCHANGED <<version, online, writer, troubled>> /\ Place' = Place
        /\ reader[h].loaded
    BY CacheMade DEF CacheFollow, CacheInv, Young, Store, Place, Stores
  <1> HIDE DEF new, key
  <1>2. FillsFollow'
    BY <1>1, IdleReaders DEF CacheFollow, CacheInv, CacheTypeOK, FillsFollow
  <1>3. ASSUME NEW k \in CacheKeys \ PatternKeys, entries'[Place][k].ttl > 0,
               entries'[Place][k].value.version # version[k], ~troubled
        PROVE  \/ entries'[Place][k].value.overtaken
               \/ \E w \in Writers : writer[w] = k
    <2>1. CASE k = key
      <3>1. entries'[Place][k] = new
        BY <1>1, <2>1 DEF CacheFollow, CacheInv, CacheTypeOK
      <3> QED
        BY <1>1, <1>3, <2>1, <3>1 DEF CacheFollow, FillsFollow, key
    <2>2. CASE k # key
      <3>1. entries'[Place][k] = entries[Place][k]
        BY <1>1, <2>2 DEF CacheFollow, CacheInv, CacheTypeOK
      <3> QED
        BY <1>3, <3>1 DEF CacheFollow, StaleOnlyIfOvertaken
    <2> QED
      BY <2>1, <2>2
  <1> QED
    BY <1>1, <1>2, <1>3 DEF StaleOnlyIfOvertaken

LEMMA ChangeFollow ==
  ASSUME CacheFollow, NEW w \in Writers, NEW k \in CacheKeys, Change(w, k)
  PROVE  FillsFollow' /\ StaleOnlyIfOvertaken'
  <1>1. /\ writer'[w] = k
        /\ \A u \in Writers : writer[u] # NoCacheKey => writer'[u] = writer[u]
        /\ \A l \in CacheKeys : l # k => version'[l] = version[l]
        /\ UNCHANGED <<online, entries, reader, troubled>> /\ Place' = Place
    BY DEF Change, CacheFollow, CacheInv, CacheTypeOK, Place
  <1>2. \A l \in CacheKeys : (\E u \in Writers : writer[u] = l) => \E u \in Writers : writer'[u] = l
    BY <1>1, CacheAssumption
  <1>3. FillsFollow'
    BY <1>1, <1>2 DEF CacheFollow, CacheInv, Young, FillsFollow
  <1>4. StaleOnlyIfOvertaken'
    BY <1>1, <1>2 DEF CacheFollow, StaleOnlyIfOvertaken
  <1> QED
    BY <1>3, <1>4

LEMMA InvalidateFollow ==
  ASSUME CacheFollow, NEW w \in Writers, Invalidate(w)
  PROVE  FillsFollow' /\ StaleOnlyIfOvertaken'
  <1> DEFINE k == writer[w]
  <1>1. /\ k \in CacheKeys /\ Place \in Stores
        /\ reader' = Overtake(k) /\ UNCHANGED <<version, online, troubled>>
        /\ writer' = [writer EXCEPT ![w] = NoCacheKey]
        /\ Place' = Place
        /\ entries' = IF Reached(k) THEN [entries EXCEPT ![Place][k] = Missing] ELSE entries
    BY DEF Invalidate, CacheFollow, CacheInv, CacheTypeOK, Place, Stores
  <1>2. \A l \in CacheKeys : l # k =>
          ((\E u \in Writers : writer[u] = l) => \E u \in Writers : writer'[u] = l)
    BY <1>1 DEF CacheFollow, CacheInv, CacheTypeOK
  <1> HIDE DEF k
  <1>3. FillsFollow'
    <2> SUFFICES ASSUME ~troubled, NEW h \in Readers, reader'[h].loaded,
                        reader'[h].value.version # version[reader'[h].key]
                 PROVE  \/ reader'[h].value.overtaken
                        \/ \E u \in Writers : writer'[u] = reader'[h].key
      BY <1>1 DEF FillsFollow
    <2>1. /\ reader'[h].key = reader[h].key /\ reader[h].loaded
          /\ reader'[h].value.version = reader[h].value.version
          /\ reader'[h].value.overtaken =
               (reader[h].value.overtaken \/ (reader[h].key = k /\ reader[h].loaded))
      BY <1>1, OvertakenReaders DEF CacheFollow
    <2>2. \/ reader[h].value.overtaken
          \/ \E u \in Writers : writer[u] = reader[h].key
      BY <2>1 DEF CacheFollow, FillsFollow
    <2>3. reader[h].key \in CacheKeys
      BY <2>1 DEF CacheFollow, CacheInv, Young
    <2>4. CASE reader[h].value.overtaken \/ reader[h].key = k
      BY <2>1, <2>4
    <2>5. CASE ~reader[h].value.overtaken /\ reader[h].key # k
      BY <1>2, <2>1, <2>2, <2>3, <2>5
    <2> QED
      BY <2>4, <2>5
  <1>4. ASSUME NEW l \in CacheKeys \ PatternKeys, entries'[Place][l].ttl > 0,
               entries'[Place][l].value.version # version[l], ~troubled
        PROVE  \/ entries'[Place][l].value.overtaken
               \/ \E u \in Writers : writer'[u] = l
    <2>1. CASE l = k
      <3>1. entries'[Place][l] = Missing
        BY <1>1, <2>1 DEF Reached, CacheFollow, CacheInv, CacheTypeOK
      <3> QED
        BY <1>4, <3>1, CacheMade
    <2>2. CASE l # k
      <3>1. entries'[Place][l] = entries[Place][l]
        BY <1>1, <2>2 DEF CacheFollow, CacheInv, CacheTypeOK
      <3> QED
        BY <1>2, <1>4, <2>2, <3>1 DEF CacheFollow, StaleOnlyIfOvertaken
    <2> QED
      BY <2>1, <2>2
  <1> QED
    BY <1>1, <1>3, <1>4 DEF StaleOnlyIfOvertaken

LEMMA TickFollow ==
  ASSUME CacheFollow, Tick
  PROVE  FillsFollow' /\ StaleOnlyIfOvertaken'
  <1>1. /\ UNCHANGED <<version, online, writer, troubled>> /\ Place' = Place
        /\ Place \in Stores
    BY DEF Tick, Place, Stores
  <1>2. ASSUME NEW h \in Readers, reader'[h].loaded
        PROVE  /\ reader[h].loaded /\ reader'[h].key = reader[h].key
               /\ reader'[h].value.version = reader[h].value.version
               /\ reader'[h].value.overtaken = reader[h].value.overtaken
    <2> DEFINE r == reader[h]
    <2>1. r \in CacheReaders /\ r.age < MaxRequest /\ reader'[h] = AgedReader(r)
      BY DEF CacheFollow, CacheInv, CacheTypeOK, CacheReaders, Tick
    <2>2. r.loaded /\ r.key \in CacheKeys /\ r.value \in Values
      BY <1>2, <2>1, AgedReaders DEF CacheFollow, CacheInv, Young, CacheReaders
    <2>3. reader'[h].key = r.key /\ reader'[h].value = Older(r.key, r.value)
      BY <2>1, <2>2, AgedReaders
    <2> QED
      BY <2>2, <2>3, OlderValues
  <1>3. ASSUME NEW k \in CacheKeys, entries'[Place][k].ttl > 0
        PROVE  /\ entries[Place][k].ttl > 0
               /\ entries'[Place][k].value.version = entries[Place][k].value.version
               /\ entries'[Place][k].value.overtaken = entries[Place][k].value.overtaken
    <2> DEFINE e == entries[Place][k]
    <2>1. e \in CacheEntries /\ entries'[Place][k] = AgedEntry(k, e)
      BY <1>1 DEF CacheFollow, CacheInv, CacheTypeOK, CacheEntries, Tick
    <2>2. e.ttl > 0 /\ entries'[Place][k].value = Older(k, e.value) /\ e.value \in Values
      BY <1>3, <2>1, AgedEntries DEF CacheEntries
    <2> QED
      BY <2>2, OlderValues
  <1>4. FillsFollow'
    BY <1>1, <1>2 DEF CacheFollow, FillsFollow
  <1>5. StaleOnlyIfOvertaken'
    BY <1>1, <1>3 DEF CacheFollow, StaleOnlyIfOvertaken
  <1> QED
    BY <1>4, <1>5

LEMMA TroubleFollow ==
  ASSUME CacheFollow,
         \/ \E w \in Writers : WriterFails(w)
         \/ CacheLosesRedis
         \/ CacheRestart
         \/ UNCHANGED cacheVars
  PROVE  FillsFollow' /\ StaleOnlyIfOvertaken'
  BY DEF CacheFollow, FillsFollow, StaleOnlyIfOvertaken, Place, WriterFails,
         CacheLosesRedis, CacheRestart, cacheVars

LEMMA FollowStart == CacheInit => CacheFollow
  <1> SUFFICES ASSUME CacheInit PROVE FillsFollow /\ StaleOnlyIfOvertaken
    BY CacheStart DEF CacheFollow
  <1>1. \A s \in Stores, k \in CacheKeys : entries[s][k] = Missing
    BY DEF CacheInit
  <1>2. \A h \in Readers : ~reader[h].loaded
    BY IdleReaders DEF CacheInit
  <1>3. Place \in Stores
    BY DEF Place, Stores
  <1> QED
    BY <1>1, <1>2, <1>3, CacheMade DEF FillsFollow, StaleOnlyIfOvertaken

LEMMA FollowStep == CacheFollow /\ [CacheNext]_cacheVars => CacheFollow'
  <1> SUFFICES ASSUME CacheFollow, [CacheNext]_cacheVars PROVE CacheFollow'
    OBVIOUS
  <1>1. CacheInv'
    BY CacheStep DEF CacheFollow
  <1>2. FillsFollow' /\ StaleOnlyIfOvertaken'
    BY MissFollow, LoadFollow, StoreFollow, ChangeFollow, InvalidateFollow, TickFollow,
       TroubleFollow
    DEF CacheNext
  <1> QED
    BY <1>1, <1>2 DEF CacheFollow

\* While nothing fails, an entry is outdated only while a writer still has its
\* delete to do, or when the fill that put it there was overtaken by it.
THEOREM CacheOutdated == CacheSpec => []StaleOnlyIfOvertaken
  <1>1. CacheFollow => StaleOnlyIfOvertaken
    BY DEF CacheFollow
  <1> QED
    BY <1>1, FollowStart, FollowStep, PTL DEF CacheSpec

-----------------------------------------------------------------------------
CodeRows == [attempts : 0..OtpMaxAttempts, consumed : BOOLEAN, expired : BOOLEAN,
          tries : Nat, accepted : Nat, overlapped : BOOLEAN]

\* What one request at most has in hand, of code c with number n.
SoleUse(n, c, holds) ==
  ~c.overlapped =>
    /\ c.accepted <= 1 /\ (c.accepted = 1 => c.consumed)
    /\ c.tries = c.attempts
    /\ \A r \in Verifiers : holds[r].code = n /\ holds[r].at # "away" =>
         /\ c.accepted = 0
         /\ holds[r].at = "compare" => holds[r].attempts = c.attempts /\ c.attempts < OtpMaxAttempts
         /\ \A s \in Verifiers : holds[s].code = n => s = r

CodesInv ==
  /\ codes \in Seq(CodeRows)
  /\ held \in [Verifiers -> [at : {"away", "compare", "consume"}, code : 0..Len(codes),
                             attempts : 0..OtpMaxAttempts]]
  /\ \A r \in Verifiers : held[r].at = "away" => held[r].code = 0
  /\ \A r \in Verifiers : held[r].at # "away" => held[r].code > 0
  /\ \A r \in Verifiers : held[r].at = "compare" => held[r].attempts < OtpMaxAttempts
  /\ \A n \in DOMAIN codes : SoleUse(n, codes[n], held)

LEMMA NewCodes ==
  /\ NewCode \in CodeRows /\ NewCode.accepted = 0 /\ NewCode.tries = 0 /\ NewCode.attempts = 0
  /\ HoldsNone.at = "away" /\ HoldsNone.code = 0 /\ HoldsNone.attempts = 0
  /\ \A n \in Nat : HoldsNone \in [at : {"away", "compare", "consume"}, code : 0..n,
                    attempts : 0..OtpMaxAttempts]
  BY CodesAssumption DEF NewCode, CodeRows, HoldsNone, Holds

LEMMA ConsumedCodes ==
  ASSUME NEW c \in CodeRows, NEW t \in Nat
  PROVE  LET d == [c EXCEPT !.consumed = TRUE, !.accepted = t]
         IN  /\ d \in CodeRows /\ d.attempts = c.attempts /\ d.tries = c.tries
             /\ d.accepted = t /\ d.consumed /\ d.overlapped = c.overlapped
  BY DEF CodeRows

LEMMA SaveKeeps == ASSUME CodesInv, SaveCode PROVE CodesInv'
  <1>1. /\ codes' = Append(codes, NewCode) /\ held' = held /\ codes \in Seq(CodeRows)
        /\ Len(codes) \in Nat
    BY DEF CodesInv, SaveCode
  <1>2. /\ codes' \in Seq(CodeRows) /\ Len(codes') = Len(codes) + 1
        /\ \A n \in DOMAIN codes : codes'[n] = codes[n]
        /\ codes'[Len(codes) + 1] = NewCode
        /\ DOMAIN codes' = DOMAIN codes \cup {Len(codes) + 1}
    BY <1>1, NewCodes
  <1>3. held' \in [Verifiers -> [at : {"away", "compare", "consume"}, code : 0..Len(codes'),
                             attempts : 0..OtpMaxAttempts]]
    BY <1>1, <1>2 DEF CodesInv
  <1>4. ASSUME NEW n \in DOMAIN codes' PROVE SoleUse(n, codes'[n], held')
    <2>1. CASE n \in DOMAIN codes
      BY <1>1, <1>2, <2>1 DEF CodesInv, SoleUse
    <2>2. CASE n = Len(codes) + 1
      <3>1. \A r \in Verifiers : held'[r].code # n
        BY <1>1, <2>2 DEF CodesInv
      <3> QED
        BY <1>2, <2>2, <3>1, NewCodes DEF SoleUse
    <2> QED
      BY <1>2, <2>1, <2>2
  <1> QED
    BY <1>1, <1>2, <1>3, <1>4 DEF CodesInv

\* A step of request r that changes nothing but its code and what r holds of it.
LEMMA OneCode ==
  ASSUME CodesInv, NEW r \in Verifiers, NEW n \in DOMAIN codes,
         NEW c \in CodeRows,
         NEW h \in [at : {"away", "compare", "consume"}, code : 0..Len(codes),
                    attempts : 0..OtpMaxAttempts],
         codes' = [codes EXCEPT ![n] = c], held' = [held EXCEPT ![r] = h],
         held[r].at = "away" \/ held[r].code = n,
         (h.at = "away" /\ h.code = 0) \/ (h.at # "away" /\ h.code = n),
         h.at = "compare" => h.attempts < OtpMaxAttempts,
         SoleUse(n, c, held')
  PROVE  CodesInv'
  <1>1. /\ codes \in Seq(CodeRows) /\ codes' \in Seq(CodeRows) /\ Len(codes') = Len(codes)
        /\ DOMAIN codes' = DOMAIN codes /\ codes'[n] = c /\ n > 0
        /\ \A m \in DOMAIN codes : m # n => codes'[m] = codes[m]
    BY DEF CodesInv
  <1>2. /\ \A s \in Verifiers : s # r => held'[s] = held[s]
        /\ held'[r] = h
    BY DEF CodesInv
  <1>3. held' \in [Verifiers -> [at : {"away", "compare", "consume"}, code : 0..Len(codes'),
                             attempts : 0..OtpMaxAttempts]]
    BY <1>1 DEF CodesInv
  <1>4. ASSUME NEW m \in DOMAIN codes, m # n PROVE SoleUse(m, codes'[m], held')
    <2>1. \A s \in Verifiers : held'[s].code = m => held'[s] = held[s] /\ s # r
      BY <1>1, <1>2, <1>4
    <2> QED
      BY <1>1, <1>2, <1>4, <2>1 DEF CodesInv, SoleUse
  <1> QED
    BY <1>1, <1>2, <1>3, <1>4 DEF CodesInv

LEMMA ReadKeeps == ASSUME CodesInv, NEW r \in Verifiers, ReadCode(r) PROVE CodesInv'
  <1> DEFINE n == Len(codes)
             c == [codes[n] EXCEPT !.overlapped = codes[n].overlapped \/ InHand(n)]
             h == Holds("compare", n, codes[n].attempts)
  <1>1. /\ n \in DOMAIN codes /\ n \in Nat /\ codes[n] \in CodeRows
        /\ codes[n].attempts < OtpMaxAttempts /\ ~codes[n].consumed
        /\ codes' = [codes EXCEPT ![n] = c] /\ held' = [held EXCEPT ![r] = h]
        /\ held[r] = HoldsNone /\ n > 0
    BY DEF CodesInv, ReadCode
  <1>2. /\ c \in CodeRows /\ c.attempts = codes[n].attempts /\ c.tries = codes[n].tries
        /\ c.accepted = codes[n].accepted /\ c.consumed = codes[n].consumed
        /\ ~c.overlapped => ~codes[n].overlapped /\ ~InHand(n)
    BY <1>1 DEF CodeRows, InHand
  <1>3. /\ h \in [at : {"away", "compare", "consume"}, code : 0..Len(codes),
                  attempts : 0..OtpMaxAttempts]
        /\ h.at = "compare" /\ h.code = n /\ h.attempts = codes[n].attempts
    BY <1>1 DEF Holds, CodeRows
  <1>4. held'[r] = h /\ \A s \in Verifiers : s # r => held'[s] = held[s]
    BY <1>1 DEF CodesInv
  <1> HIDE DEF c, h
  <1>5. SoleUse(n, c, held')
    <2>1. ASSUME ~c.overlapped, NEW s \in Verifiers, held'[s].code = n PROVE s = r
      BY <1>2, <1>4, <2>1 DEF InHand
    <2>2. codes[n].accepted \in Nat /\ SoleUse(n, codes[n], held)
      BY <1>1 DEF CodesInv, CodeRows
    <2>3. ~c.overlapped => c.accepted = 0 /\ c.tries = c.attempts
      BY <1>1, <1>2, <2>2 DEF SoleUse
    <2>4. c.attempts < OtpMaxAttempts
      BY <1>1, <1>2
    <2> QED
      BY <1>2, <1>3, <1>4, <2>1, <2>3, <2>4 DEF SoleUse
  <1>6. held[r].at = "away" /\ h.at # "away"
    BY <1>1, <1>3, NewCodes
  <1> QED
    BY <1>1, <1>2, <1>3, <1>5, <1>6, OneCode

LEMMA CompareKeeps ==
  ASSUME CodesInv, NEW r \in Verifiers, NEW right \in BOOLEAN, CompareCode(r, right)
  PROVE  CodesInv'
  <1> DEFINE n == held[r].code
             a == held[r].attempts + 1
             c == [codes[n] EXCEPT !.attempts = a, !.tries = codes[n].tries + 1]
             h == IF right THEN [held[r] EXCEPT !.at = "consume"] ELSE HoldsNone
  <1>0. /\ held[r].at = "compare" /\ held[r].at # "away"
        /\ codes' = [codes EXCEPT ![n].attempts = a, ![n].tries = @ + 1]
        /\ held' = [held EXCEPT ![r] = IF right THEN [@ EXCEPT !.at = "consume"] ELSE HoldsNone]
    BY DEF CompareCode, AttemptsAfter
  <1>1. /\ n \in DOMAIN codes /\ n > 0 /\ codes[n] \in CodeRows /\ held[r].at = "compare"
        /\ Len(codes) \in Nat
        /\ held[r] \in [at : {"away", "compare", "consume"}, code : 0..Len(codes),
                        attempts : 0..OtpMaxAttempts]
        /\ held' = [held EXCEPT ![r] = h]
    BY <1>0 DEF CodesInv
  <1>2. codes' = [codes EXCEPT ![n] = c]
    BY <1>0, <1>1 DEF CodesInv, CodeRows
  <1>3. a \in 0..OtpMaxAttempts
    BY <1>1, CodesAssumption DEF CodesInv
  <1>4. /\ c \in CodeRows /\ c.attempts = a /\ c.tries = codes[n].tries + 1
        /\ c.accepted = codes[n].accepted /\ c.consumed = codes[n].consumed
        /\ c.overlapped = codes[n].overlapped
    <2>1. codes[n].tries + 1 \in Nat
      BY <1>1 DEF CodeRows
    <2> HIDE DEF a
    <2>2. /\ c.attempts = a /\ c.tries = codes[n].tries + 1
          /\ c.accepted = codes[n].accepted /\ c.consumed = codes[n].consumed
          /\ c.overlapped = codes[n].overlapped
      BY <1>1 DEF CodeRows
    <2>3. \A o \in CodeRows, t \in Nat : [o EXCEPT !.attempts = a, !.tries = t] \in CodeRows
      BY <1>3 DEF CodeRows
    <2>4. c \in CodeRows
      BY <1>1, <2>1, <2>3, Zenon
    <2> QED
      BY <2>2, <2>4
  <1>5. /\ h \in [at : {"away", "compare", "consume"}, code : 0..Len(codes),
                  attempts : 0..OtpMaxAttempts]
        /\ \/ h.at = "consume" /\ h.code = n
           \/ h.at = "away" /\ h.code = 0
    <2>1. CASE right
      BY <1>1, <2>1
    <2>2. CASE ~right
      BY <1>1, <2>2, NewCodes
    <2> QED
      BY <2>1, <2>2
  <1>6. held'[r] = h /\ \A s \in Verifiers : s # r => held'[s] = held[s]
    BY <1>1 DEF CodesInv
  <1> HIDE DEF c, h, a
  <1>7. SoleUse(n, c, held')
    <2>1. SoleUse(n, codes[n], held)
      BY <1>1 DEF CodesInv
    <2>2. codes[n].attempts \in Nat /\ held[r].attempts \in Nat
      BY <1>1, CodesAssumption DEF CodeRows
    <2>3. \A s \in Verifiers : held'[s].code = n => held[s].code = n
      BY <1>5, <1>6
    <2> QED
      BY <1>0, <1>1, <1>4, <1>5, <1>6, <2>1, <2>2, <2>3 DEF SoleUse, a
  <1> QED
    BY <1>1, <1>2, <1>4, <1>5, <1>7, OneCode

LEMMA ConsumeKeeps == ASSUME CodesInv, NEW r \in Verifiers, ConsumeCode(r) PROVE CodesInv'
  <1> DEFINE n == held[r].code
             c == [codes[n] EXCEPT !.consumed = TRUE, !.accepted = codes[n].accepted + 1]
  <1>1. /\ n \in DOMAIN codes /\ n > 0 /\ codes[n] \in CodeRows /\ held[r].at = "consume"
        /\ held' = [held EXCEPT ![r] = HoldsNone]
        /\ codes' = [codes EXCEPT ![n].consumed = TRUE, ![n].accepted = @ + 1]
        /\ Len(codes) \in Nat
    BY DEF CodesInv, ConsumeCode
  <1>2. codes' = [codes EXCEPT ![n] = c]
    BY <1>1 DEF CodesInv, CodeRows
  <1>3. /\ c \in CodeRows /\ c.attempts = codes[n].attempts /\ c.tries = codes[n].tries
        /\ c.accepted = codes[n].accepted + 1 /\ c.consumed
        /\ c.overlapped = codes[n].overlapped
    <2>1. codes[n].accepted + 1 \in Nat
      BY <1>1 DEF CodeRows
    <2> QED
      BY <1>1, <2>1, ConsumedCodes
  <1>4. held'[r] = HoldsNone /\ \A s \in Verifiers : s # r => held'[s] = held[s]
    BY <1>1 DEF CodesInv
  <1> HIDE DEF c
  <1>5. SoleUse(n, c, held')
    <2>1. SoleUse(n, codes[n], held)
      BY <1>1 DEF CodesInv
    <2>2. ASSUME NEW s \in Verifiers, held'[s].code = n PROVE held[s].code = n /\ s # r
      BY <1>1, <1>4, <2>2, NewCodes
    <2> QED
      BY <1>1, <1>3, <1>4, <2>1, <2>2 DEF SoleUse
  <1> QED
    BY <1>1, <1>2, <1>3, <1>5, NewCodes, OneCode

LEMMA DieKeeps == ASSUME CodesInv, NEW r \in Verifiers, VerifierDies(r) PROVE CodesInv'
  <1>1. /\ codes' = codes /\ held'[r] = HoldsNone
        /\ held' = [held EXCEPT ![r] = HoldsNone]
        /\ \A s \in Verifiers : s # r => held'[s] = held[s]
    BY DEF CodesInv, VerifierDies
  <1>2. Len(codes) \in Nat
    BY DEF CodesInv
  <1>3. ASSUME NEW n \in DOMAIN codes PROVE SoleUse(n, codes[n], held')
    <2>1. \A s \in Verifiers : held'[s].code = n => s # r /\ held'[s] = held[s]
      BY <1>1, <1>2, NewCodes DEF CodesInv
    <2> QED
      BY <1>1, <2>1 DEF CodesInv, SoleUse
  <1> QED
    BY <1>1, <1>2, <1>3, NewCodes DEF CodesInv

LEMMA ExpireKeeps == ASSUME CodesInv, NEW n, CodeExpires(n) PROVE CodesInv'
  <1> DEFINE c == [codes[n] EXCEPT !.expired = TRUE]
  <1>0. n \in DOMAIN codes /\ held' = held /\ codes' = [codes EXCEPT ![n].expired = TRUE]
    BY DEF CodeExpires
  <1>1. codes[n] \in CodeRows /\ held' = held /\ n \in DOMAIN codes
        /\ codes' = [codes EXCEPT ![n] = c]
    BY <1>0 DEF CodesInv
  <1>2. /\ c \in CodeRows /\ c.attempts = codes[n].attempts /\ c.tries = codes[n].tries
        /\ c.accepted = codes[n].accepted /\ c.consumed = codes[n].consumed
        /\ c.overlapped = codes[n].overlapped
    BY <1>1 DEF CodeRows
  <1> HIDE DEF c
  <1>3. /\ codes' \in Seq(CodeRows) /\ Len(codes') = Len(codes) /\ DOMAIN codes' = DOMAIN codes
        /\ codes'[n] = c /\ \A m \in DOMAIN codes : m # n => codes'[m] = codes[m]
    BY <1>1, <1>2 DEF CodesInv
  <1>4. ASSUME NEW m \in DOMAIN codes PROVE SoleUse(m, codes'[m], held')
    BY <1>1, <1>2, <1>3 DEF CodesInv, SoleUse
  <1> QED
    BY <1>1, <1>3, <1>4 DEF CodesInv

LEMMA CodesFollow == CodesSpec => []CodesInv
  <1>1. CodesInit => CodesInv
    BY CodesAssumption, NewCodes DEF CodesInit, CodesInv
  <1>2. CodesInv /\ [CodesNext]_codesVars => CodesInv'
    <2>1. CodesInv /\ UNCHANGED codesVars => CodesInv'
      BY DEF CodesInv, codesVars, SoleUse
    <2> QED
      BY <2>1, SaveKeeps, ReadKeeps, CompareKeeps, ConsumeKeeps, DieKeeps, ExpireKeeps
      DEF CodesNext
  <1> QED
    BY <1>1, <1>2, PTL DEF CodesSpec

\* A code opens one session and is tried as often as allowed, unless two
\* requests had it in hand: for any number of codes and requests.
THEOREM CodeOnce == CodesSpec => []CodeUsedOnce
  <1>1. CodesInv => CodeUsedOnce
    <2> SUFFICES ASSUME CodesInv, NEW n \in DOMAIN codes, ~codes[n].overlapped
                 PROVE  codes[n].accepted <= 1 /\ codes[n].tries <= OtpMaxAttempts
      BY DEF CodeUsedOnce
    <2> DEFINE c == codes[n]
    <2>1. c \in CodeRows /\ SoleUse(n, c, held) /\ ~c.overlapped
      BY DEF CodesInv
    <2>2. OtpMaxAttempts \in Nat
      BY CodesAssumption
    <2>3. c.accepted <= 1 /\ c.tries <= OtpMaxAttempts
      <3> HIDE DEF c
      <3>1. c.attempts \in 0..OtpMaxAttempts
        BY <2>1 DEF CodeRows
      <3> QED
        BY <2>1, <2>2, <3>1 DEF SoleUse
    <2> QED
      BY <2>3
  <1> QED
    BY <1>1, CodesFollow, PTL

\* The types of the codes and of what the requests hold.
LEMMA CodesTyped == CodesSpec => []CodesTypeOK
  <1>1. CodesInv => CodesTypeOK
    BY DEF CodesInv, CodesTypeOK, CodeRows
  <1> QED
    BY <1>1, CodesFollow, PTL

-----------------------------------------------------------------------------
(* Sessions.  A token that is replaced under a refresh has been sent by    *)
(* another tab as well, and one that is replaced in the cookie by a tab    *)
(* that still waits for its successor.                                     *)

TokenStates == {"live", "replaced", "ended"}

Errands ==
  [purpose : {"none", "refresh", "credentials", "logout"},
   stage : {"idle", "sent", "valid", "stolen", "refused", "issuing", "issued", "loggedOut"},
   token : Nat]

SessTypes ==
  /\ tokens \in Seq(TokenStates) /\ cookie \in 0..Len(tokens)
  /\ errand \in [TabCalls -> Errands]
  /\ \A r \in TabCalls : errand[r].token <= Len(tokens)
  /\ usedBy \in Seq(SUBSET Tabs) /\ Len(usedBy) = Len(tokens)
  /\ \A k \in Issued : IsFiniteSet(usedBy[k])
  /\ unheard \in BOOLEAN

\* Before the rotation, a refresh has a token that its tab has sent.
HasOwn(r) == errand[r].stage \in {"sent", "valid", "stolen", "issuing"}

Refreshes ==
  /\ \A r \in TabCalls :
       /\ errand[r].stage \in {"valid", "stolen"} => errand[r].purpose = "refresh"
       /\ errand[r].purpose = "refresh" /\ HasOwn(r) =>
            errand[r].token \in Issued /\ r[1] \in usedBy[errand[r].token]
       /\ errand[r].stage = "stolen" => tokens[errand[r].token] # "live"
  /\ \A r, q \in TabCalls :
       errand[r].purpose = "refresh" /\ errand[q].purpose = "refresh" /\ r[1] = q[1] => r = q

\* Nobody but the request that will be answered with it has a new token.
NewTokens ==
  \A r \in TabCalls : errand[r].stage = "issued" =>
    /\ errand[r].token \in Issued /\ errand[r].token # cookie
    /\ tokens[errand[r].token] # "replaced"
    /\ \A q \in TabCalls : errand[q].token = errand[r].token => q = r

\* A token that is replaced under a refresh was sent by another tab too; one
\* that is in the cookie, by a tab that is still waiting for its successor.
Suspects ==
  \A r \in TabCalls :
    /\ errand[r].purpose = "refresh" /\ errand[r].stage \in {"sent", "valid", "stolen"}
    /\ tokens[errand[r].token] = "replaced" /\ ~unheard
    => \E tab \in usedBy[errand[r].token] : tab # r[1]

Rotates(r) ==
  /\ errand[r].purpose = "refresh" /\ r[1] \in usedBy[cookie]
  /\ \/ errand[r].stage = "issuing" /\ errand[r].token = cookie
     \/ errand[r].stage = "issued"

Successors ==
  cookie \in Issued /\ tokens[cookie] = "replaced" /\ ~unheard
    => \E r \in TabCalls : Rotates(r)

SessInv == SessTypes /\ Refreshes /\ NewTokens /\ Suspects /\ Successors

\* No token comes back from the dead.
Ending ==
  /\ tokens' \in Seq(TokenStates) /\ Len(tokens') = Len(tokens)
  /\ \A k \in Issued : tokens'[k] \in {tokens[k], "ended"}

\* Some tokens are ended, the others stay.
LEMMA EndsSome ==
  ASSUME SessTypes, NEW over,
         tokens' = [k \in DOMAIN tokens |-> IF k \in over THEN "ended" ELSE tokens[k]]
  PROVE  Ending
  <1>1. /\ DOMAIN tokens = 1..Len(tokens) /\ Len(tokens) \in Nat
        /\ \A k \in 1..Len(tokens) : tokens[k] \in TokenStates
    BY DEF SessTypes
  <1>2. tokens' \in [1..Len(tokens) -> TokenStates]
    BY <1>1 DEF TokenStates
  <1>3. tokens' \in Seq(TokenStates) /\ Len(tokens') = Len(tokens)
    BY <1>1, <1>2
  <1> QED
    BY <1>1, <1>3 DEF Ending, Issued

\* A step on the server that issues and replaces nothing.
LEMMA MovesKeep ==
  ASSUME SessInv, NEW r \in TabCalls, NEW purpose, NEW from, NEW to,
         Moves(r, purpose, from, to), Ending,
         from \in {"sent", "stolen"},
         to \in {"valid", "stolen", "refused", "issuing", "loggedOut"},
         to \in {"valid", "stolen"} => purpose = "refresh",
         to = "issuing" => purpose # "refresh",
         to = "stolen" => tokens[errand[r].token] # "live"
  PROVE  SessInv'
  <1>1. /\ errand' = [errand EXCEPT ![r].stage = to]
        /\ cookie' = cookie /\ usedBy' = usedBy /\ unheard' = unheard
        /\ errand[r].purpose = purpose /\ errand[r].stage = from
    BY DEF Moves
  <1>2. /\ errand' \in [TabCalls -> Errands] /\ Issued' = Issued
        /\ \A q \in TabCalls :
             /\ errand'[q].purpose = errand[q].purpose /\ errand'[q].token = errand[q].token
             /\ errand'[q].stage = IF q = r THEN to ELSE errand[q].stage
    BY <1>1 DEF SessInv, SessTypes, Errands, Ending, Issued
  <1>3. SessTypes'
    BY <1>1, <1>2 DEF SessInv, SessTypes, Ending
  <1>a. \A k \in Issued : /\ tokens[k] # "live" => tokens'[k] # "live"
                          /\ tokens[k] # "replaced" => tokens'[k] # "replaced"
    BY DEF Ending
  <1>4. Refreshes'
    <2>1. \A q \in TabCalls : errand'[q].stage = "stolen" =>
            errand[q].token \in Issued /\ tokens[errand[q].token] # "live"
      BY <1>1, <1>2 DEF SessInv, Refreshes, HasOwn
    <2>2. \A q \in TabCalls : errand'[q].stage \in {"valid", "stolen"} => errand'[q].purpose = "refresh"
      BY <1>1, <1>2 DEF SessInv, Refreshes
    <2>3. \A q \in TabCalls : errand'[q].purpose = "refresh" /\ HasOwn(q)' =>
            errand'[q].token \in Issued' /\ q[1] \in usedBy'[errand'[q].token]
      BY <1>1, <1>2 DEF SessInv, Refreshes, HasOwn
    <2> QED
      BY <1>1, <1>2, <1>a, <2>1, <2>2, <2>3 DEF SessInv, Refreshes
  <1>5. NewTokens'
    BY <1>1, <1>2, <1>a DEF SessInv, NewTokens
  <1>6. Suspects'
    <2> SUFFICES ASSUME NEW q \in TabCalls, errand'[q].purpose = "refresh",
                        errand'[q].stage \in {"sent", "valid", "stolen"},
                        tokens'[errand'[q].token] = "replaced", ~unheard'
                 PROVE  \E tab \in usedBy'[errand'[q].token] : tab # q[1]
      BY DEF Suspects
    <2>1. errand[q].purpose = "refresh" /\ errand[q].stage \in {"sent", "valid", "stolen"}
      BY <1>1, <1>2
    <2>2. errand[q].token \in Issued
      BY <2>1 DEF SessInv, Refreshes, HasOwn
    <2> QED
      BY <1>1, <1>2, <1>a, <2>1, <2>2 DEF SessInv, Suspects
  <1>7. Successors'
    <2> SUFFICES ASSUME cookie' \in Issued', tokens'[cookie'] = "replaced", ~unheard'
                 PROVE  \E q \in TabCalls : Rotates(q)'
      BY DEF Successors
    <2>1. PICK q \in TabCalls : Rotates(q)
      BY <1>1, <1>2, <1>a DEF SessInv, Successors
    <2>2. q # r
      BY <1>1, <2>1 DEF Rotates
    <2> QED
      BY <1>1, <1>2, <2>1, <2>2 DEF Rotates
  <1> QED
    BY <1>3, <1>4, <1>5, <1>6, <1>7 DEF SessInv

\* A tab sends a request.
LEMMA SendKeeps ==
  ASSUME SessInv, NEW r \in TabCalls, SendRefresh(r) \/ SendCredentials(r) \/ SendLogout(r)
  PROVE  SessInv'
  <1>1. /\ \E purpose \in {"refresh", "credentials", "logout"}, token \in {0, cookie} :
             /\ errand' = [errand EXCEPT ![r] = Call(purpose, "sent", token)]
             /\ purpose = "refresh" =>
                  /\ token = cookie /\ NoRefreshOf(r[1]) /\ cookie # 0
                  /\ usedBy' = [usedBy EXCEPT ![cookie] = @ \cup {r[1]}]
             /\ purpose # "refresh" => usedBy' = usedBy
        /\ errand[r] = NoSend /\ tokens' = tokens /\ cookie' = cookie /\ unheard' = unheard
    BY DEF SendRefresh, SendCredentials, SendLogout, Send
  <1>2. PICK purpose \in {"refresh", "credentials", "logout"}, token \in {0, cookie} :
             /\ errand' = [errand EXCEPT ![r] = Call(purpose, "sent", token)]
             /\ purpose = "refresh" =>
                  /\ token = cookie /\ NoRefreshOf(r[1]) /\ cookie # 0
                  /\ usedBy' = [usedBy EXCEPT ![cookie] = @ \cup {r[1]}]
             /\ purpose # "refresh" => usedBy' = usedBy
    BY <1>1
  <1>3. /\ errand' \in [TabCalls -> Errands] /\ Issued' = Issued
        /\ \A q \in TabCalls : q # r => errand'[q] = errand[q]
        /\ errand'[r].purpose = purpose /\ errand'[r].token = token /\ errand'[r].stage = "sent"
        /\ errand[r].stage = "idle" /\ errand[r].purpose = "none"
    BY <1>1, <1>2 DEF SessInv, SessTypes, Errands, Issued, NoSend, Call
  <1>r. r[1] \in Tabs
    BY SessionAssumption
  <1>4. /\ usedBy' \in Seq(SUBSET Tabs) /\ Len(usedBy') = Len(tokens)
        /\ \A k \in Issued : usedBy[k] \subseteq usedBy'[k]
        /\ \A k \in Issued : usedBy'[k] = usedBy[k] \/ usedBy'[k] = usedBy[k] \cup {r[1]}
        /\ purpose = "refresh" => cookie \in Issued /\ r[1] \in usedBy'[cookie]
    <2>1. CASE purpose # "refresh"
      BY <1>2, <2>1 DEF SessInv, SessTypes
    <2>2. CASE purpose = "refresh"
      <3>1. cookie \in 1..Len(usedBy) /\ Issued = 1..Len(usedBy)
        BY <1>2, <2>2 DEF SessInv, SessTypes, Issued
      <3>2. usedBy[cookie] \cup {r[1]} \in SUBSET Tabs
        BY <1>r, <3>1 DEF SessInv, SessTypes
      <3>3. usedBy' = [usedBy EXCEPT ![cookie] = usedBy[cookie] \cup {r[1]}]
        BY <1>2, <2>2
      <3>4. usedBy' \in Seq(SUBSET Tabs) /\ Len(usedBy') = Len(usedBy)
        BY <3>1, <3>2, <3>3 DEF SessInv, SessTypes
      <3> QED
        BY <3>1, <3>3, <3>4, <1>2, <2>2 DEF SessInv, SessTypes
    <2> QED
      BY <2>1, <2>2
  <1>5. SessTypes'
    <2>1. ASSUME NEW k \in Issued PROVE IsFiniteSet(usedBy'[k])
      <3>1. IsFiniteSet(usedBy[k])
        BY DEF SessInv, SessTypes
      <3>2. IsFiniteSet(usedBy[k] \cup {r[1]})
        BY <3>1, FS_AddElement
      <3> QED
        BY <1>4, <3>1, <3>2
    <2>2. \A q \in TabCalls : errand'[q].token <= Len(tokens)
      BY <1>2, <1>3 DEF SessInv, SessTypes
    <2> QED
      BY <1>1, <1>3, <1>4, <2>1, <2>2 DEF SessInv, SessTypes
  <1>6. Refreshes'
    <2>1. \A q \in TabCalls :
       /\ errand'[q].stage \in {"valid", "stolen"} => errand'[q].purpose = "refresh"
       /\ errand'[q].stage = "stolen" => tokens'[errand'[q].token] # "live"
      BY <1>1, <1>3 DEF SessInv, Refreshes
    <2>2. \A q \in TabCalls : errand'[q].purpose = "refresh" /\ HasOwn(q)' =>
            errand'[q].token \in Issued' /\ q[1] \in usedBy'[errand'[q].token]
      BY <1>2, <1>3, <1>4 DEF SessInv, Refreshes, HasOwn
    <2>3. \A x, q \in TabCalls :
       errand'[x].purpose = "refresh" /\ errand'[q].purpose = "refresh" /\ x[1] = q[1] => x = q
      BY <1>2, <1>3 DEF SessInv, Refreshes, NoRefreshOf
    <2> QED
      BY <2>1, <2>2, <2>3 DEF Refreshes
  <1>7. NewTokens'
    BY <1>1, <1>2, <1>3 DEF SessInv, NewTokens, Issued
  <1>8. Suspects'
    <2> SUFFICES ASSUME NEW q \in TabCalls, errand'[q].purpose = "refresh",
                        errand'[q].stage \in {"sent", "valid", "stolen"},
                        tokens'[errand'[q].token] = "replaced", ~unheard'
                 PROVE  \E tab \in usedBy'[errand'[q].token] : tab # q[1]
      BY DEF Suspects
    <2>1. CASE q = r
      <3>1. purpose = "refresh" /\ token = cookie /\ NoRefreshOf(r[1]) /\ cookie \in Issued
        BY <1>2, <1>3, <1>4, <2>1
      <3>2. PICK x \in TabCalls : Rotates(x)
        BY <1>1, <1>3, <2>1, <3>1 DEF SessInv, Successors
      <3>3. x[1] # r[1]
        BY <3>1, <3>2 DEF NoRefreshOf, Rotates
      <3> QED
        BY <1>3, <1>4, <2>1, <3>1, <3>2, <3>3 DEF Rotates
    <2>2. CASE q # r
      <3>1. errand[q].token \in Issued
        BY <1>3, <2>2 DEF SessInv, Refreshes, HasOwn
      <3> QED
        BY <1>1, <1>3, <1>4, <2>2, <3>1 DEF SessInv, Suspects
    <2> QED
      BY <2>1, <2>2
  <1>9. Successors'
    <2> SUFFICES ASSUME cookie' \in Issued', tokens'[cookie'] = "replaced", ~unheard'
                 PROVE  \E q \in TabCalls : Rotates(q)'
      BY DEF Successors
    <2>1. PICK q \in TabCalls : Rotates(q)
      BY <1>1, <1>3 DEF SessInv, Successors
    <2>2. q # r
      BY <1>3, <2>1 DEF Rotates
    <2> QED
      BY <1>1, <1>3, <1>4, <2>1, <2>2 DEF Rotates
  <1> QED
    BY <1>5, <1>6, <1>7, <1>8, <1>9 DEF SessInv

\* A refresh revokes its own token.
LEMMA RevokeKeeps ==
  ASSUME SessInv, NEW r \in TabCalls, RevokeOwn(r)
  PROVE  SessInv'
  <1> DEFINE own == errand[r].token
  <1>1. /\ errand' = [errand EXCEPT ![r].stage = "issuing"]
        /\ cookie' = cookie /\ usedBy' = usedBy /\ unheard' = unheard
        /\ errand[r].purpose = "refresh" /\ errand[r].stage = "valid"
        /\ tokens' = [tokens EXCEPT ![own] = IF @ = "live" THEN "replaced" ELSE @]
    BY DEF RevokeOwn, Moves
  <1>2. own \in Issued /\ r[1] \in usedBy[own]
    BY <1>1 DEF SessInv, Refreshes, HasOwn
  <1>3. /\ tokens' \in Seq(TokenStates) /\ Len(tokens') = Len(tokens) /\ Issued' = Issued
        /\ \A k \in Issued : k # own => tokens'[k] = tokens[k]
        /\ tokens'[own] # "live"
    BY <1>1, <1>2 DEF SessInv, SessTypes, Issued, TokenStates
  <1>4. /\ errand' \in [TabCalls -> Errands]
        /\ \A q \in TabCalls :
             /\ errand'[q].purpose = errand[q].purpose /\ errand'[q].token = errand[q].token
             /\ errand'[q].stage = IF q = r THEN "issuing" ELSE errand[q].stage
    BY <1>1 DEF SessInv, SessTypes, Errands
  <1> HIDE DEF own
  <1>5. SessTypes'
    BY <1>1, <1>3, <1>4 DEF SessInv, SessTypes
  <1>6. Refreshes'
    <2>1. \A q \in TabCalls :
       /\ errand'[q].stage \in {"valid", "stolen"} => errand'[q].purpose = "refresh"
       /\ errand'[q].purpose = "refresh" /\ HasOwn(q)' =>
            errand'[q].token \in Issued' /\ q[1] \in usedBy'[errand'[q].token]
      BY <1>1, <1>3, <1>4 DEF SessInv, Refreshes, HasOwn
    <2>2. \A q \in TabCalls : errand'[q].stage = "stolen" => tokens'[errand'[q].token] # "live"
      <3> SUFFICES ASSUME NEW q \in TabCalls, errand'[q].stage = "stolen"
                   PROVE  tokens'[errand'[q].token] # "live"
        OBVIOUS
      <3>1. errand[q].stage = "stolen"
        BY <1>4
      <3>2. errand[q].token \in Issued /\ tokens[errand[q].token] # "live"
        BY <3>1 DEF SessInv, Refreshes, HasOwn
      <3> QED
        BY <1>3, <1>4, <3>2
    <2> QED
      BY <1>4, <2>1, <2>2 DEF SessInv, Refreshes
  <1>7. NewTokens'
    <2>1. \A q \in TabCalls : errand[q].stage = "issued" => errand[q].token # own
      BY <1>1 DEF SessInv, NewTokens, own
    <2> QED
      BY <1>1, <1>3, <1>4, <2>1 DEF SessInv, NewTokens
  <1>8. Suspects'
    <2> SUFFICES ASSUME NEW q \in TabCalls, errand'[q].purpose = "refresh",
                        errand'[q].stage \in {"sent", "valid", "stolen"},
                        tokens'[errand'[q].token] = "replaced", ~unheard'
                 PROVE  \E tab \in usedBy'[errand'[q].token] : tab # q[1]
      BY DEF Suspects
    <2>1. q # r /\ errand[q].purpose = "refresh" /\ errand[q].token \in Issued
      BY <1>4 DEF SessInv, Refreshes, HasOwn
    <2>2. CASE errand[q].token = own
      <3>1. q[1] # r[1]
        BY <1>1, <2>1 DEF SessInv, Refreshes
      <3> QED
        BY <1>1, <1>2, <1>4, <2>2, <3>1
    <2>3. CASE errand[q].token # own
      BY <1>1, <1>3, <1>4, <2>1, <2>3 DEF SessInv, Suspects
    <2> QED
      BY <2>2, <2>3
  <1>9. Successors'
    <2> SUFFICES ASSUME cookie' \in Issued', tokens'[cookie'] = "replaced", ~unheard'
                 PROVE  \E q \in TabCalls : Rotates(q)'
      BY DEF Successors
    <2>1. CASE cookie = own
      <3>1. Rotates(r)'
        BY <1>1, <1>2, <1>4, <2>1 DEF Rotates, own
      <3> QED
        BY <3>1
    <2>2. CASE cookie # own
      <3>1. PICK q \in TabCalls : Rotates(q)
        BY <1>1, <1>3, <2>2 DEF SessInv, Successors
      <3>2. Rotates(q)'
        BY <1>1, <1>4, <3>1 DEF Rotates
      <3> QED
        BY <3>2
    <2> QED
      BY <2>1, <2>2
  <1> QED
    BY <1>5, <1>6, <1>7, <1>8, <1>9 DEF SessInv

\* A new token is issued.
LEMMA IssueKeeps ==
  ASSUME SessInv, NEW r \in TabCalls, IssueTokens(r)
  PROVE  SessInv'
  <1> DEFINE new == Len(tokens) + 1
  <1>1. /\ tokens' = Append(tokens, "live") /\ usedBy' = Append(usedBy, {})
        /\ errand' = [errand EXCEPT ![r].stage = "issued", ![r].token = Len(tokens')]
        /\ cookie' = cookie /\ unheard' = unheard /\ errand[r].stage = "issuing"
    BY DEF IssueTokens
  <1>2. /\ tokens' \in Seq(TokenStates) /\ Len(tokens') = new /\ new \in Nat
        /\ usedBy' \in Seq(SUBSET Tabs) /\ Len(usedBy') = new
        /\ Issued' = Issued \cup {new} /\ new \notin Issued /\ new # cookie
        /\ tokens'[new] = "live" /\ usedBy'[new] = {}
        /\ \A k \in Issued : tokens'[k] = tokens[k] /\ usedBy'[k] = usedBy[k] /\ k # new
    BY <1>1 DEF SessInv, SessTypes, Issued, TokenStates
  <1>3. /\ errand' \in [TabCalls -> Errands]
        /\ \A q \in TabCalls :
             /\ errand'[q].purpose = errand[q].purpose
             /\ errand'[q].token = IF q = r THEN new ELSE errand[q].token
             /\ errand'[q].stage = IF q = r THEN "issued" ELSE errand[q].stage
        /\ \A q \in TabCalls : errand[q].token < new
    BY <1>1, <1>2 DEF SessInv, SessTypes, Errands
  <1> HIDE DEF new
  <1>4. SessTypes'
    <2>1. \A k \in Issued' : IsFiniteSet(usedBy'[k])
      BY <1>2, FS_EmptySet DEF SessInv, SessTypes
    <2>2. cookie \in 0..new
      BY DEF SessInv, SessTypes, new
    <2>3. \A q \in TabCalls : errand[q].token \in Nat
      BY DEF SessInv, SessTypes, Errands
    <2>4. \A q \in TabCalls : errand'[q].token <= new
      BY <1>2, <1>3, <2>3
    <2> QED
      BY <1>1, <1>2, <1>3, <2>1, <2>2, <2>4 DEF SessInv, SessTypes
  <1>5. Refreshes'
    <2>1. \A q \in TabCalls : q # r => (HasOwn(q)' <=> HasOwn(q))
      BY <1>3 DEF HasOwn
    <2>2. ~HasOwn(r)'
      BY <1>3 DEF HasOwn
    <2>3. \A q \in TabCalls : errand'[q].purpose = "refresh" /\ HasOwn(q)' =>
            errand'[q].token \in Issued' /\ q[1] \in usedBy'[errand'[q].token]
      BY <1>2, <1>3, <2>1, <2>2 DEF SessInv, Refreshes
    <2>4. \A q \in TabCalls : errand'[q].stage = "stolen" => tokens'[errand'[q].token] # "live"
      <3> SUFFICES ASSUME NEW q \in TabCalls, errand'[q].stage = "stolen"
                   PROVE  tokens'[errand'[q].token] # "live"
        OBVIOUS
      <3>1. errand[q].stage = "stolen" /\ q # r
        BY <1>3
      <3>2. errand[q].token \in Issued /\ tokens[errand[q].token] # "live"
        BY <3>1 DEF SessInv, Refreshes, HasOwn
      <3> QED
        BY <1>2, <1>3, <3>1, <3>2
    <2> QED
      BY <1>3, <2>3, <2>4 DEF SessInv, Refreshes
  <1>6. NewTokens'
    <2> SUFFICES ASSUME NEW q \in TabCalls, errand'[q].stage = "issued"
                 PROVE  /\ errand'[q].token \in Issued' /\ errand'[q].token # cookie'
                        /\ tokens'[errand'[q].token] # "replaced"
                        /\ \A x \in TabCalls : errand'[x].token = errand'[q].token => x = q
      BY DEF NewTokens
    <2>1. CASE q = r
      <3>1. \A x \in TabCalls : x # r => errand'[x].token # new
        <4>1. \A x \in TabCalls : x # r => errand'[x].token < new
          BY <1>3
        <4> QED
          BY <1>2, <4>1
      <3>2. errand'[q].token = new
        BY <1>3, <2>1
      <3>3. new \in Issued' /\ new # cookie' /\ tokens'[new] # "replaced"
        BY <1>1, <1>2
      <3> QED
        BY <2>1, <3>1, <3>2, <3>3
    <2>2. CASE q # r
      <3>1. errand[q].stage = "issued" /\ errand'[q].token = errand[q].token
        BY <1>3, <2>2
      <3>2. /\ errand[q].token \in Issued /\ errand[q].token # cookie
            /\ tokens[errand[q].token] # "replaced"
            /\ \A x \in TabCalls : errand[x].token = errand[q].token => x = q
        BY <3>1 DEF SessInv, NewTokens
      <3>3. errand[q].token # new
        BY <1>2, <3>2
      <3> QED
        BY <1>1, <1>2, <1>3, <2>2, <3>1, <3>2, <3>3
    <2> QED
      BY <2>1, <2>2
  <1>7. Suspects'
    <2> SUFFICES ASSUME NEW q \in TabCalls, errand'[q].purpose = "refresh",
                        errand'[q].stage \in {"sent", "valid", "stolen"},
                        tokens'[errand'[q].token] = "replaced", ~unheard'
                 PROVE  \E tab \in usedBy'[errand'[q].token] : tab # q[1]
      BY DEF Suspects
    <2>1. q # r /\ errand[q].token \in Issued
      BY <1>3 DEF SessInv, Refreshes, HasOwn
    <2>2. /\ errand'[q].token = errand[q].token
          /\ usedBy'[errand[q].token] = usedBy[errand[q].token]
          /\ tokens[errand[q].token] = "replaced" /\ ~unheard
          /\ errand[q].purpose = "refresh" /\ errand[q].stage \in {"sent", "valid", "stolen"}
      BY <1>1, <1>2, <1>3, <2>1
    <2>3. \E tab \in usedBy[errand[q].token] : tab # q[1]
      BY <2>2 DEF SessInv, Suspects
    <2> QED
      BY <2>2, <2>3
  <1>8. Successors'
    <2> SUFFICES ASSUME cookie' \in Issued', tokens'[cookie'] = "replaced", ~unheard'
                 PROVE  \E q \in TabCalls : Rotates(q)'
      BY DEF Successors
    <2>1. cookie \in Issued /\ tokens[cookie] = "replaced"
      BY <1>1, <1>2
    <2>2. PICK q \in TabCalls : Rotates(q)
      BY <1>1, <2>1 DEF SessInv, Successors
    <2>3. Rotates(q)'
      BY <1>1, <1>2, <1>3, <2>1, <2>2 DEF Rotates
    <2> QED
      BY <2>3
  <1> QED
    BY <1>4, <1>5, <1>6, <1>7, <1>8 DEF SessInv

\* A request that ends, heard or not.
LEMMA AnsweredKeeps ==
  ASSUME SessInv, NEW r \in TabCalls, HearAnswer(r) \/ LoseCall(r)
  PROVE  SessInv'
  <1>1. /\ errand' = [errand EXCEPT ![r] = NoSend]
        /\ tokens' = tokens /\ usedBy' = usedBy
    BY DEF HearAnswer, LoseCall
  <1>u. unheard' \in BOOLEAN /\ (unheard => unheard')
    <2>1. unheard \in BOOLEAN /\ (unheard' = unheard \/ unheard' = TRUE)
      BY DEF HearAnswer, LoseCall, SessInv, SessTypes
    <2> QED
      BY <2>1
  <1>2. /\ errand' \in [TabCalls -> Errands] /\ Issued' = Issued
        /\ \A q \in TabCalls : q # r => errand'[q] = errand[q]
        /\ errand'[r].purpose = "none" /\ errand'[r].token = 0 /\ errand'[r].stage = "idle"
    BY <1>1 DEF SessInv, SessTypes, Errands, NoSend, Call, Issued
  <1>3. \/ cookie' = cookie
        \/ cookie' = 0
        \/ errand[r].stage = "issued" /\ cookie' = errand[r].token
    BY DEF HearAnswer, LoseCall, SetRefreshCookie
  <1>4. SessTypes'
    <2>1. Len(tokens) \in Nat /\ \A q \in TabCalls : errand[q].token \in 0..Len(tokens)
      BY DEF SessInv, SessTypes, Errands
    <2>2. cookie' \in 0..Len(tokens)
      BY <1>3, <2>1 DEF SessInv, SessTypes
    <2>3. \A q \in TabCalls : errand'[q].token <= Len(tokens)
      BY <1>2, <2>1
    <2>4. unheard' \in BOOLEAN
      BY <1>u
    <2>5. /\ tokens \in Seq(TokenStates)
          /\ usedBy \in Seq(SUBSET Tabs) /\ Len(usedBy) = Len(tokens)
          /\ \A k \in Issued : IsFiniteSet(usedBy[k])
      BY DEF SessInv, SessTypes
    <2>6. tokens' = tokens /\ usedBy' = usedBy
      BY <1>1
    <2>7. errand' \in [TabCalls -> Errands] /\ Issued' = Issued
      BY <1>2
    <2> QED
      BY <2>2, <2>3, <2>4, <2>5, <2>6, <2>7, Zenon DEF SessTypes
  <1>5. Refreshes'
    BY <1>1, <1>2 DEF SessInv, Refreshes, HasOwn
  <1>6. NewTokens'
    BY <1>1, <1>2, <1>3 DEF SessInv, NewTokens, Issued
  <1>7. Suspects'
    <2> SUFFICES ASSUME NEW q \in TabCalls, errand'[q].purpose = "refresh",
                        errand'[q].stage \in {"sent", "valid", "stolen"},
                        tokens'[errand'[q].token] = "replaced", ~unheard'
                 PROVE  \E tab \in usedBy'[errand'[q].token] : tab # q[1]
      BY DEF Suspects
    <2>1. errand'[q] = errand[q] /\ tokens' = tokens /\ usedBy' = usedBy
      BY <1>1, <1>2
    <2>2. ~unheard
      BY <1>u, Zenon
    <2> QED
      BY <2>1, <2>2 DEF SessInv, Suspects
  <1>8. Successors'
    <2> SUFFICES ASSUME cookie' \in Issued', tokens'[cookie'] = "replaced", ~unheard'
                 PROVE  \E q \in TabCalls : Rotates(q)'
      BY DEF Successors
    <2>1. HearAnswer(r)
      BY DEF LoseCall
    <2>2. cookie' = cookie
      BY <1>1, <1>2, <1>3 DEF SessInv, NewTokens, Issued
    <2>3. errand[r].stage \notin {"issuing", "issued"}
      BY <2>1, <2>2 DEF HearAnswer, SetRefreshCookie, SessInv, NewTokens
    <2>b. ~unheard
      BY <1>u, Zenon
    <2>c. cookie \in Issued /\ tokens[cookie] = "replaced"
      BY <1>1, <1>2, <2>2
    <2>4. PICK q \in TabCalls : Rotates(q)
      BY <2>b, <2>c DEF SessInv, Successors
    <2>5. Rotates(q)'
      BY <1>1, <1>2, <2>2, <2>3, <2>4 DEF Rotates
    <2> QED
      BY <2>5
  <1> QED
    BY <1>4, <1>5, <1>6, <1>7, <1>8 DEF SessInv

\* Every step preserves the invariant.
LEMMA SessionStep ==
  ASSUME SessInv, [SessionNext]_sessionVars
  PROVE  SessInv'
  <1>1. CASE UNCHANGED sessionVars
    BY <1>1 DEF sessionVars, SessInv, SessTypes, Refreshes, HasOwn, NewTokens, Suspects,
                Successors, Rotates, Issued
  <1>2. ASSUME NEW r \in TabCalls,
               SendRefresh(r) \/ SendCredentials(r) \/ SendLogout(r)
        PROVE  SessInv'
    BY <1>2, SendKeeps
  <1>a. tokens' = tokens => Ending
    BY DEF Ending, SessInv, SessTypes
  <1>b. EndAll => Ending
    <2>1. SessTypes
      BY DEF SessInv
    <2> SUFFICES ASSUME EndAll PROVE Ending
      OBVIOUS
    <2> DEFINE over == {k \in DOMAIN tokens : tokens[k] = "live"}
    <2>2. tokens' = [k \in DOMAIN tokens |-> IF k \in over THEN "ended" ELSE tokens[k]]
      BY DEF EndAll
    <2> HIDE DEF over
    <2> QED
      BY <2>1, <2>2, EndsSome
  <1>3. ASSUME NEW r \in TabCalls, ReadSession(r) PROVE SessInv'
    BY <1>3, <1>a, MovesKeep DEF ReadSession
  <1>4. ASSUME NEW r \in TabCalls, RefuseToken(r) PROVE SessInv'
    BY <1>4, <1>a, MovesKeep DEF RefuseToken
  <1>5. ASSUME NEW r \in TabCalls, Authenticate(r) PROVE SessInv'
    BY <1>5, <1>a, MovesKeep DEF Authenticate
  <1>6. ASSUME NEW r \in TabCalls, Alarm(r) PROVE SessInv'
    BY <1>6, <1>b, MovesKeep DEF Alarm
  <1>7. ASSUME NEW r \in TabCalls, ChangePassword(r) PROVE SessInv'
    BY <1>7, <1>b, MovesKeep DEF ChangePassword
  <1>8. ASSUME NEW r \in TabCalls, ResetPassword(r) PROVE SessInv'
    BY <1>8, <1>b, MovesKeep DEF ResetPassword
  <1>9. ASSUME NEW r \in TabCalls, Logout(r) PROVE SessInv'
    <2>1. SessTypes
      BY DEF SessInv
    <2> DEFINE over == {errand[r].token}
    <2>2. tokens' = [k \in DOMAIN tokens |-> IF k \in over THEN "ended" ELSE tokens[k]]
      BY <1>9 DEF Logout
    <2> HIDE DEF over
    <2>3. Ending
      BY <2>1, <2>2, EndsSome
    <2> QED
      BY <1>9, <2>3, MovesKeep DEF Logout
  <1>10. ASSUME NEW r \in TabCalls, RevokeOwn(r) PROVE SessInv'
    BY <1>10, RevokeKeeps
  <1>11. ASSUME NEW r \in TabCalls, IssueTokens(r) PROVE SessInv'
    BY <1>11, IssueKeeps
  <1>12. ASSUME NEW r \in TabCalls, HearAnswer(r) \/ LoseCall(r) PROVE SessInv'
    BY <1>12, AnsweredKeeps
  <1> QED
    BY <1>1, <1>2, <1>3, <1>4, <1>5, <1>6, <1>7, <1>8, <1>9, <1>10, <1>11, <1>12
    DEF SessionNext

\* It holds at first.
LEMMA SessionStart == SessionInit => SessInv
  <1> SUFFICES ASSUME SessionInit PROVE SessInv
    OBVIOUS
  <1>1. /\ tokens = <<>> /\ usedBy = <<>> /\ cookie = 0 /\ unheard = FALSE /\ Issued = {}
        /\ errand \in [TabCalls -> Errands]
        /\ \A r \in TabCalls : errand[r].purpose = "none" /\ errand[r].stage = "idle"
                              /\ errand[r].token = 0
    BY DEF SessionInit, Issued, Errands, NoSend, Call
  <1>2. SessTypes
    <2>1. tokens \in Seq(TokenStates) /\ usedBy \in Seq(SUBSET Tabs)
      BY <1>1
    <2>2. Len(tokens) = 0 /\ Len(usedBy) = 0 /\ unheard \in BOOLEAN
      BY <1>1
    <2> QED
      BY <1>1, <2>1, <2>2 DEF SessTypes
  <1>3. Refreshes /\ NewTokens /\ Suspects /\ Successors
    BY <1>1 DEF Refreshes, HasOwn, NewTokens, Suspects, Successors
  <1> QED
    BY <1>2, <1>3 DEF SessInv

\* A session is taken for stolen only after a lost answer, a refresh by two tabs
\* or the end of the session, for any number of tabs and requests
\* (AuthService.refresh, refreshPromise).
THEOREM SessionAlarm == SessionSpec => []AlarmHasCause
  <1>1. SessInv => AlarmHasCause
    <2> SUFFICES ASSUME SessInv, NEW r \in TabCalls, errand[r].stage = "stolen",
                        ~unheard, tokens[errand[r].token] # "ended"
                 PROVE  Cardinality(usedBy[errand[r].token]) > 1
      BY DEF AlarmHasCause
    <2> DEFINE users == usedBy[errand[r].token]
    <2>1. /\ errand[r].purpose = "refresh" /\ errand[r].token \in Issued
          /\ r[1] \in users /\ tokens[errand[r].token] # "live"
      BY DEF SessInv, Refreshes, HasOwn
    <2>2. tokens[errand[r].token] = "replaced"
      BY <2>1 DEF SessInv, SessTypes, TokenStates, Issued
    <2>3. PICK tab \in users : tab # r[1]
      BY <2>1, <2>2 DEF SessInv, Suspects
    <2>4. IsFiniteSet(users)
      BY <2>1 DEF SessInv, SessTypes
    <2>5. {r[1], tab} \subseteq users
      BY <2>1, <2>3
    <2>6. IsFiniteSet({r[1]}) /\ Cardinality({r[1]}) = 1
      BY FS_Singleton
    <2>7. Cardinality({r[1]} \cup {tab}) = 2
      <3>1. tab \notin {r[1]}
        BY <2>3
      <3>2. Cardinality({r[1]} \cup {tab}) = Cardinality({r[1]}) + 1
        BY <2>6, <3>1, FS_AddElement
      <3> QED
        BY <2>6, <3>2
    <2>8. {r[1], tab} = {r[1]} \cup {tab}
      OBVIOUS
    <2>9. Cardinality({r[1], tab}) = 2
      BY <2>7, <2>8
    <2>10. Cardinality(users) \in Nat /\ 2 <= Cardinality(users)
      BY <2>4, <2>5, <2>9, FS_Subset, FS_CardinalityType
    <2> QED
      BY <2>10
  <1>2. SessInv /\ [SessionNext]_sessionVars => SessInv'
    BY SessionStep
  <1> QED
    BY <1>1, <1>2, SessionStart, PTL DEF SessionSpec

\* The cookie stays good for another refresh, whatever order the answers come in
\* (AuthController.setRefreshCookie).
THEOREM SessionStays == SessionSpec => []StaysSignedIn
  <1>1. SessInv => StaysSignedIn
    BY DEF SessInv, Successors, StaysSignedIn, Rotates, NewTokens, Issued
  <1>2. SessInv /\ [SessionNext]_sessionVars => SessInv'
    BY SessionStep
  <1> QED
    BY <1>1, <1>2, SessionStart, PTL DEF SessionSpec

\* The types of the tokens and of the requests.
LEMMA SessionTyped == SessionSpec => []SessionTypeOK
  <1>1. SessInv => SessionTypeOK
    <2> SUFFICES ASSUME SessInv PROVE SessionTypeOK
      OBVIOUS
    <2>1. /\ tokens \in Seq({"live", "replaced", "ended"}) /\ cookie \in 0..Len(tokens)
          /\ errand \in [TabCalls -> Errands]
          /\ usedBy \in Seq(SUBSET Tabs) /\ Len(usedBy) = Len(tokens) /\ unheard \in BOOLEAN
      BY DEF SessInv, SessTypes, TokenStates
    <2>2. \A r \in TabCalls : errand[r].token \in 0..Len(tokens)
      <3>1. \A r \in TabCalls : errand[r].token \in Nat /\ errand[r].token <= Len(tokens)
        BY DEF SessInv, SessTypes, Errands
      <3>2. Len(tokens) \in Nat
        BY <2>1
      <3> QED
        BY <3>1, <3>2
    <2>3. \A k \in Issued : usedBy[k] \subseteq Tabs
      BY <2>1 DEF Issued
    <2> QED
      BY <2>1, <2>2, <2>3 DEF SessionTypeOK
  <1>2. SessInv /\ [SessionNext]_sessionVars => SessInv'
    BY SessionStep
  <1> QED
    BY <1>1, <1>2, SessionStart, PTL DEF SessionSpec

-----------------------------------------------------------------------------
(* Deployment.  The invariant follows one deploy through the script: where *)
(* the tree stands against the commit that was asked for, and what the     *)
(* files of the API and their backup are at each stage.                    *)

\* The parts of DeployTypeOK.
NumbersOK ==
  head \in 0..MaxCommits /\ wanted \in 0..MaxCommits /\ checkout \in 0..MaxCommits

PlacesOK ==
  /\ link \in {"none", "connecting", "open"} /\ timer \in BOOLEAN
  /\ stage \in {"idle", "git", "build", "api.backup", "api.extract", "api.install",
                "api.migrate", "web.backup", "web.extract", "web.install"}
  /\ report \in {"none", "success", "failed", "rolled back"}
  /\ configured \in BOOLEAN
  /\ gitFailed \in BOOLEAN /\ brokeOff \in BOOLEAN /\ strayed \in BOOLEAN

AppsOK == api \in Apps /\ web \in Apps /\ migrated \in Builds

TreeOrder == wanted <= head /\ checkout <= head

\* The stages after git, and those of the API between backup and migration.
Updated == {"build", "api.backup", "api.extract", "api.install", "api.migrate",
            "web.backup", "web.extract", "web.install"}

Replacing == {"api.extract", "api.install", "api.migrate"}

TreeFollows == stage \in Updated => gitFailed \/ wanted <= checkout

FilesFollow ==
  /\ stage \in {"api.install", "api.migrate"} => api.files = checkout
  /\ stage \in {"web.backup", "web.extract", "web.install"} => api.files = checkout
  /\ stage = "web.install" => web.files = checkout

\* Unless a rollout broke off, the last migrated build is there: in place, or as the
\* backup while it is being replaced.  The process runs it, or will when it restarts
\* as it was asked to, or has loaded another one beside a backup.
BackupKept ==
  /\ migrated \in 0..MaxCommits
  /\ ~brokeOff =>
       /\ stage \in Replacing => api.backup = migrated
       /\ stage = "api.extract" => api.files = Nothing
       /\ stage \notin Replacing =>
            api.files = migrated \/ (api.files = Nothing /\ api.backup = migrated)
       /\ api.runs = migrated \/ strayed \/ api.due

FilesRestored ==
  stage = "idle" /\ report = "rolled back" /\ ~brokeOff => api.files = migrated

DeployInv ==
  /\ NumbersOK /\ PlacesOK /\ AppsOK
  /\ TreeOrder /\ TreeFollows /\ FilesFollow /\ BackupKept
  /\ SuccessMeansDeployed /\ FilesRestored

-----------------------------------------------------------------------------
LEMMA Types == NumbersOK /\ PlacesOK /\ AppsOK => DeployTypeOK
  BY DEF DeployTypeOK, NumbersOK, PlacesOK, AppsOK

LEMMA Numbers ==
  /\ Nothing \notin 0..MaxCommits
  /\ 0..MaxCommits \subseteq Builds /\ Nothing \in Builds /\ Partial \in Builds
  BY DeploymentAssumption DEF Nothing, Partial, Builds

\* What the script and the host make of an application.
LEMMA AppMade ==
  ASSUME NEW a \in Apps
  PROVE  /\ BackedUp(a) \in Apps /\ Finished(a) \in Apps /\ Reloaded(a) \in Apps
         /\ \A n \in Builds : [a EXCEPT !.files = n] \in Apps
         /\ [a EXCEPT !.due = TRUE] \in Apps
         /\ [a EXCEPT !.files = a.backup, !.backup = Nothing] \in Apps
<1>1. Nothing \in Builds
  BY Numbers
<1>2. a.files \in Builds /\ a.backup \in Builds
  BY DEF Apps
<1>3. BackedUp(a) \in Apps
  BY <1>1, <1>2 DEF Apps, BackedUp
<1>4. Finished(a) \in Apps
  BY <1>1 DEF Apps, Finished
<1>5. Reloaded(a) \in Apps
  BY <1>2 DEF Apps, Reloaded
<1>6. [a EXCEPT !.files = a.backup, !.backup = Nothing] \in Apps
  BY <1>1, <1>2 DEF Apps
<1>7. (\A n \in Builds : [a EXCEPT !.files = n] \in Apps) /\ [a EXCEPT !.due = TRUE] \in Apps
  BY DEF Apps
<1> QED
  BY <1>3, <1>4, <1>5, <1>6, <1>7

LEMMA AppParts ==
  ASSUME NEW a \in Apps
  PROVE  /\ BackedUp(a).files = Nothing /\ BackedUp(a).runs = a.runs /\ BackedUp(a).due = a.due
         /\ BackedUp(a).backup = IF a.files = Nothing THEN a.backup ELSE a.files
         /\ Finished(a).files = a.files /\ Finished(a).runs = a.runs /\ Finished(a).due = TRUE
         /\ Reloaded(a).files = a.files /\ Reloaded(a).backup = a.backup
         /\ Reloaded(a).runs = a.files /\ Reloaded(a).due = FALSE
         /\ \A n : /\ [a EXCEPT !.files = n].files = n
                  /\ [a EXCEPT !.files = n].backup = a.backup
                  /\ [a EXCEPT !.files = n].runs = a.runs
                  /\ [a EXCEPT !.files = n].due = a.due
         /\ [a EXCEPT !.due = TRUE].files = a.files /\ [a EXCEPT !.due = TRUE].due = TRUE
         /\ [a EXCEPT !.due = TRUE].backup = a.backup /\ [a EXCEPT !.due = TRUE].runs = a.runs
         /\ [a EXCEPT !.files = a.backup, !.backup = Nothing].files = a.backup
         /\ [a EXCEPT !.files = a.backup, !.backup = Nothing].runs = a.runs
         /\ [a EXCEPT !.files = a.backup, !.backup = Nothing].due = a.due
BY DEF Apps, BackedUp, Finished, Reloaded

\* A reload changes what a process runs, and nothing else.
LEMMA ReloadChanges ==
  ASSUME AppsOK, HostReloads
  PROVE  /\ api'.files = api.files /\ web'.files = web.files /\ api'.backup = api.backup
         /\ \/ api' = api /\ strayed' = strayed
            \/ api'.runs = api.files /\ strayed' = (api.backup # Nothing)
         /\ web' = web \/ web'.runs = web.files
         /\ UNCHANGED <<head, stage, wanted, checkout, report, gitFailed, migrated, brokeOff>>
<1>1. CASE api' = Reloaded(api) /\ strayed' = (api.backup # Nothing) /\ UNCHANGED web
  BY <1>1, AppParts DEF AppsOK, HostReloads
<1>2. CASE web' = Reloaded(web) /\ UNCHANGED <<api, strayed>>
  BY <1>2, AppParts DEF AppsOK, HostReloads
<1> QED
  BY <1>1, <1>2 DEF HostReloads

\* The migrations have run, or have failed and the backup is put back.
LEMMA MigrationChanges ==
  ASSUME AppsOK
  PROVE  /\ MigrateApi => /\ api'.files = api.files /\ api'.due = TRUE
                          /\ migrated' = api.files /\ migrated' \in Builds
                          /\ stage = "api.migrate" /\ stage' = "web.backup"
         /\ MigrationFails => /\ api'.files = api.backup /\ api'.runs = api.runs /\ api'.due = api.due
                              /\ UNCHANGED <<migrated, brokeOff, strayed>>
                              /\ stage = "api.migrate" /\ stage' = "idle"
<1>1. api.files \in Builds
  BY DEF AppsOK, Apps
<1>2. MigrateApi => api' = Finished(api) /\ migrated' = api.files
                    /\ stage = "api.migrate" /\ stage' = "web.backup"
  BY DEF MigrateApi
<1>3. MigrationFails => /\ api' = [api EXCEPT !.files = api.backup, !.backup = Nothing]
                        /\ UNCHANGED <<migrated, brokeOff, strayed>>
                        /\ stage = "api.migrate" /\ stage' = "idle"
  BY DEF MigrationFails, history
<1>4. Finished(api).files = api.files /\ Finished(api).due = TRUE
  BY AppParts DEF AppsOK
<1> DEFINE back == [api EXCEPT !.files = api.backup, !.backup = Nothing]
<1>5. back.files = api.backup /\ back.runs = api.runs /\ back.due = api.due
  BY AppParts DEF AppsOK
<1>6. MigrationFails => api' = back
  BY <1>3
<1> HIDE DEF back
<1> QED
  BY <1>1, <1>2, <1>3, <1>4, <1>5, <1>6

\* Both applications are there, and both processes are to restart.
LEMMA InstallChanges ==
  ASSUME AppsOK, InstallWeb
  PROVE  /\ api'.files = api.files /\ web'.files = web.files /\ api'.due = TRUE /\ web'.due = TRUE
         /\ stage = "web.install" /\ UNCHANGED <<head, wanted, checkout, gitFailed>>
<1>1. /\ api' = [api EXCEPT !.due = TRUE] /\ web' = Finished(web)
      /\ stage = "web.install" /\ UNCHANGED <<head, wanted, checkout, gitFailed>>
  BY DEF InstallWeb, history
<1> QED
  BY <1>1, AppParts DEF AppsOK

-----------------------------------------------------------------------------
LEMMA ListenerStep ==
  ASSUME NeverSilent, [DeployNext]_deployVars
  PROVE  NeverSilent'
  <1> USE DEF NeverSilent, listener, history
  <1>1. CASE TimerFires
    BY <1>1 DEF TimerFires
  <1>2. CASE Connected
    BY <1>2 DEF Connected
  <1>3. CASE Disconnected
    BY <1>3 DEF Disconnected, LinkLost
  <1>4. CASE Push
    BY <1>4 DEF Push
  <1>5. CASE \E commit \in 1..MaxCommits : Webhook(commit)
    BY <1>5 DEF Webhook
  <1>6. CASE \E works \in BOOLEAN : UpdateTree(works)
    BY <1>6 DEF UpdateTree, Fetched
  <1>7. CASE BuildAndUpload
    BY <1>7 DEF BuildAndUpload
  <1>8. CASE CommandFails
    BY <1>8 DEF CommandFails
  <1>9. CASE ExtractionStops
    BY <1>9 DEF ExtractionStops
  <1>10. CASE BackUpApi
    BY <1>10 DEF BackUpApi, ApiBackedUp, BackedUp
  <1>11. CASE ExtractApi
    BY <1>11 DEF ExtractApi
  <1>12. CASE InstallApi
    BY <1>12 DEF InstallApi
  <1>13. CASE MigrateApi
    BY <1>13 DEF MigrateApi
  <1>14. CASE MigrationFails
    BY <1>14 DEF MigrationFails
  <1>15. CASE MigrationCutOff
    BY <1>15 DEF MigrationCutOff
  <1>16. CASE BackUpWeb
    BY <1>16 DEF BackUpWeb, BackedUp
  <1>17. CASE ExtractWeb
    BY <1>17 DEF ExtractWeb
  <1>18. CASE InstallWeb
    BY <1>18 DEF InstallWeb
  <1>19. CASE HostReloads
    BY <1>19 DEF HostReloads
  <1>20. CASE SkipMigrations
    BY <1>20 DEF SkipMigrations
  <1>21. CASE Configure
    BY <1>21 DEF Configure
  <1>22. CASE UNCHANGED deployVars
    BY <1>22 DEF deployVars
  <1> QED
    BY <1>1, <1>2, <1>3, <1>4, <1>5, <1>6, <1>7, <1>8, <1>9, <1>10, <1>11,
       <1>12, <1>13, <1>14, <1>15, <1>16, <1>17, <1>18, <1>19, <1>20, <1>21, <1>22
    DEF DeployNext

\* The listener is connected, connecting, or about to connect.
THEOREM DeployNeverSilent == DeploySpec => []NeverSilent
  <1>1. DeployInit => NeverSilent
    BY DEF DeployInit, NeverSilent
  <1>2. NeverSilent /\ [DeployNext]_deployVars => NeverSilent'
    BY ListenerStep
  <1> QED
    BY <1>1, <1>2, PTL DEF DeploySpec

-----------------------------------------------------------------------------
LEMMA NumbersStep ==
  ASSUME NumbersOK, TreeOrder, [DeployNext]_deployVars
  PROVE  (NumbersOK /\ TreeOrder)'
  <1> USE DeploymentAssumption
          DEF NumbersOK, TreeOrder, listener, history
  <1>1. CASE TimerFires
    BY <1>1 DEF TimerFires
  <1>2. CASE Connected
    BY <1>2 DEF Connected
  <1>3. CASE Disconnected
    BY <1>3 DEF Disconnected, LinkLost
  <1>4. CASE Push
    BY <1>4 DEF Push
  <1>5. CASE \E commit \in 1..MaxCommits : Webhook(commit)
    BY <1>5 DEF Webhook
  <1>6. CASE \E works \in BOOLEAN : UpdateTree(works)
    BY <1>6 DEF UpdateTree, Fetched
  <1>7. CASE BuildAndUpload
    BY <1>7 DEF BuildAndUpload
  <1>8. CASE CommandFails
    BY <1>8 DEF CommandFails
  <1>9. CASE ExtractionStops
    BY <1>9 DEF ExtractionStops
  <1>10. CASE BackUpApi
    BY <1>10 DEF BackUpApi, ApiBackedUp, BackedUp
  <1>11. CASE ExtractApi
    BY <1>11 DEF ExtractApi
  <1>12. CASE InstallApi
    BY <1>12 DEF InstallApi
  <1>13. CASE MigrateApi
    BY <1>13 DEF MigrateApi
  <1>14. CASE MigrationFails
    BY <1>14 DEF MigrationFails
  <1>15. CASE MigrationCutOff
    BY <1>15 DEF MigrationCutOff
  <1>16. CASE BackUpWeb
    BY <1>16 DEF BackUpWeb, BackedUp
  <1>17. CASE ExtractWeb
    BY <1>17 DEF ExtractWeb
  <1>18. CASE InstallWeb
    BY <1>18 DEF InstallWeb
  <1>19. CASE HostReloads
    BY <1>19 DEF HostReloads
  <1>20. CASE SkipMigrations
    BY <1>20 DEF SkipMigrations
  <1>21. CASE Configure
    BY <1>21 DEF Configure
  <1>22. CASE UNCHANGED deployVars
    BY <1>22 DEF deployVars
  <1> QED
    BY <1>1, <1>2, <1>3, <1>4, <1>5, <1>6, <1>7, <1>8, <1>9, <1>10, <1>11,
       <1>12, <1>13, <1>14, <1>15, <1>16, <1>17, <1>18, <1>19, <1>20, <1>21, <1>22
    DEF DeployNext

LEMMA PlacesStep ==
  ASSUME PlacesOK, [DeployNext]_deployVars
  PROVE  PlacesOK'
  <1> USE DEF PlacesOK, listener, history
  <1>1. CASE TimerFires
    BY <1>1 DEF TimerFires
  <1>2. CASE Connected
    BY <1>2 DEF Connected
  <1>3. CASE Disconnected
    BY <1>3 DEF Disconnected, LinkLost
  <1>4. CASE Push
    BY <1>4 DEF Push
  <1>5. CASE \E commit \in 1..MaxCommits : Webhook(commit)
    BY <1>5 DEF Webhook
  <1>6. CASE \E works \in BOOLEAN : UpdateTree(works)
    BY <1>6 DEF UpdateTree, Fetched
  <1>7. CASE BuildAndUpload
    BY <1>7 DEF BuildAndUpload
  <1>8. CASE CommandFails
    BY <1>8 DEF CommandFails
  <1>9. CASE ExtractionStops
    BY <1>9 DEF ExtractionStops
  <1>10. CASE BackUpApi
    BY <1>10 DEF BackUpApi, ApiBackedUp, BackedUp
  <1>11. CASE ExtractApi
    BY <1>11 DEF ExtractApi
  <1>12. CASE InstallApi
    BY <1>12 DEF InstallApi
  <1>13. CASE MigrateApi
    BY <1>13 DEF MigrateApi
  <1>14. CASE MigrationFails
    BY <1>14 DEF MigrationFails
  <1>15. CASE MigrationCutOff
    BY <1>15 DEF MigrationCutOff
  <1>16. CASE BackUpWeb
    BY <1>16 DEF BackUpWeb, BackedUp
  <1>17. CASE ExtractWeb
    BY <1>17 DEF ExtractWeb
  <1>18. CASE InstallWeb
    BY <1>18 DEF InstallWeb
  <1>19. CASE HostReloads
    <2>1. UNCHANGED <<link, timer, stage, report, configured, gitFailed, brokeOff>>
      BY <1>19 DEF HostReloads
    <2>2. strayed' = (api.backup # Nothing) \/ strayed' = strayed
      BY <1>19 DEF HostReloads
    <2> QED
      BY <2>1, <2>2
  <1>20. CASE SkipMigrations
    BY <1>20 DEF SkipMigrations
  <1>21. CASE Configure
    BY <1>21 DEF Configure
  <1>22. CASE UNCHANGED deployVars
    <2>1. UNCHANGED <<link, timer, stage, report, configured, gitFailed, brokeOff, strayed>>
      BY <1>22 DEF deployVars
    <2> QED
      BY <2>1
  <1> QED
    BY <1>1, <1>2, <1>3, <1>4, <1>5, <1>6, <1>7, <1>8, <1>9, <1>10, <1>11,
       <1>12, <1>13, <1>14, <1>15, <1>16, <1>17, <1>18, <1>19, <1>20, <1>21, <1>22
    DEF DeployNext

LEMMA AppsStep ==
  ASSUME NumbersOK, AppsOK, [DeployNext]_deployVars
  PROVE  AppsOK'
  <1> USE Numbers, AppMade, DeploymentAssumption
          DEF NumbersOK, AppsOK, listener, history
  <1>1. CASE TimerFires
    BY <1>1 DEF TimerFires
  <1>2. CASE Connected
    BY <1>2 DEF Connected
  <1>3. CASE Disconnected
    BY <1>3 DEF Disconnected, LinkLost
  <1>4. CASE Push
    BY <1>4 DEF Push
  <1>5. CASE \E commit \in 1..MaxCommits : Webhook(commit)
    BY <1>5 DEF Webhook
  <1>6. CASE \E works \in BOOLEAN : UpdateTree(works)
    BY <1>6 DEF UpdateTree, Fetched
  <1>7. CASE BuildAndUpload
    BY <1>7 DEF BuildAndUpload
  <1>8. CASE CommandFails
    BY <1>8 DEF CommandFails
  <1>9. CASE ExtractionStops
    BY <1>9 DEF ExtractionStops
  <1>10. CASE BackUpApi
    BY <1>10 DEF BackUpApi, ApiBackedUp, BackedUp
  <1>11. CASE ExtractApi
    BY <1>11 DEF ExtractApi
  <1>12. CASE InstallApi
    BY <1>12 DEF InstallApi
  <1>13. CASE MigrateApi
    BY <1>13, MigrationChanges DEF MigrateApi
  <1>14. CASE MigrationFails
    BY <1>14 DEF MigrationFails
  <1>15. CASE MigrationCutOff
    BY <1>15 DEF MigrationCutOff
  <1>16. CASE BackUpWeb
    BY <1>16 DEF BackUpWeb, BackedUp
  <1>17. CASE ExtractWeb
    BY <1>17 DEF ExtractWeb
  <1>18. CASE InstallWeb
    BY <1>18 DEF InstallWeb
  <1>19. CASE HostReloads
    BY <1>19 DEF HostReloads
  <1>20. CASE SkipMigrations
    BY <1>20 DEF SkipMigrations
  <1>21. CASE Configure
    BY <1>21 DEF Configure
  <1>22. CASE UNCHANGED deployVars
    BY <1>22 DEF deployVars
  <1> QED
    BY <1>1, <1>2, <1>3, <1>4, <1>5, <1>6, <1>7, <1>8, <1>9, <1>10, <1>11,
       <1>12, <1>13, <1>14, <1>15, <1>16, <1>17, <1>18, <1>19, <1>20, <1>21, <1>22
    DEF DeployNext

LEMMA TreeFollowed ==
  ASSUME NumbersOK, TreeOrder, TreeFollows, [DeployNext]_deployVars
  PROVE  TreeFollows'
  <1> USE DeploymentAssumption
          DEF NumbersOK, TreeOrder, TreeFollows, Updated, listener, history
  <1>1. CASE TimerFires
    BY <1>1 DEF TimerFires
  <1>2. CASE Connected
    BY <1>2 DEF Connected
  <1>3. CASE Disconnected
    BY <1>3 DEF Disconnected, LinkLost
  <1>4. CASE Push
    BY <1>4 DEF Push
  <1>5. CASE \E commit \in 1..MaxCommits : Webhook(commit)
    BY <1>5 DEF Webhook
  <1>6. CASE \E works \in BOOLEAN : UpdateTree(works)
    BY <1>6 DEF UpdateTree, Fetched
  <1>7. CASE BuildAndUpload
    BY <1>7 DEF BuildAndUpload
  <1>8. CASE CommandFails
    BY <1>8 DEF CommandFails
  <1>9. CASE ExtractionStops
    BY <1>9 DEF ExtractionStops
  <1>10. CASE BackUpApi
    BY <1>10 DEF BackUpApi, ApiBackedUp, BackedUp
  <1>11. CASE ExtractApi
    BY <1>11 DEF ExtractApi
  <1>12. CASE InstallApi
    BY <1>12 DEF InstallApi
  <1>13. CASE MigrateApi
    BY <1>13 DEF MigrateApi
  <1>14. CASE MigrationFails
    BY <1>14 DEF MigrationFails
  <1>15. CASE MigrationCutOff
    BY <1>15 DEF MigrationCutOff
  <1>16. CASE BackUpWeb
    BY <1>16 DEF BackUpWeb, BackedUp
  <1>17. CASE ExtractWeb
    BY <1>17 DEF ExtractWeb
  <1>18. CASE InstallWeb
    BY <1>18 DEF InstallWeb
  <1>19. CASE HostReloads
    BY <1>19 DEF HostReloads
  <1>20. CASE SkipMigrations
    BY <1>20 DEF SkipMigrations
  <1>21. CASE Configure
    BY <1>21 DEF Configure
  <1>22. CASE UNCHANGED deployVars
    BY <1>22 DEF deployVars
  <1> QED
    BY <1>1, <1>2, <1>3, <1>4, <1>5, <1>6, <1>7, <1>8, <1>9, <1>10, <1>11,
       <1>12, <1>13, <1>14, <1>15, <1>16, <1>17, <1>18, <1>19, <1>20, <1>21, <1>22
    DEF DeployNext

LEMMA FilesStep ==
  ASSUME AppsOK, FilesFollow, [DeployNext]_deployVars
  PROVE  FilesFollow'
  <1> USE AppParts
          DEF AppsOK, FilesFollow, listener, history
  <1>1. CASE TimerFires
    BY <1>1 DEF TimerFires
  <1>2. CASE Connected
    BY <1>2 DEF Connected
  <1>3. CASE Disconnected
    BY <1>3 DEF Disconnected, LinkLost
  <1>4. CASE Push
    BY <1>4 DEF Push
  <1>5. CASE \E commit \in 1..MaxCommits : Webhook(commit)
    BY <1>5 DEF Webhook
  <1>6. CASE \E works \in BOOLEAN : UpdateTree(works)
    BY <1>6 DEF UpdateTree, Fetched
  <1>7. CASE BuildAndUpload
    BY <1>7 DEF BuildAndUpload
  <1>8. CASE CommandFails
    BY <1>8 DEF CommandFails
  <1>9. CASE ExtractionStops
    BY <1>9 DEF ExtractionStops
  <1>10. CASE BackUpApi
    BY <1>10 DEF BackUpApi, ApiBackedUp, BackedUp
  <1>11. CASE ExtractApi
    BY <1>11 DEF ExtractApi
  <1>12. CASE InstallApi
    BY <1>12 DEF InstallApi
  <1>13. CASE MigrateApi
    BY <1>13 DEF MigrateApi
  <1>14. CASE MigrationFails
    BY <1>14 DEF MigrationFails
  <1>15. CASE MigrationCutOff
    BY <1>15 DEF MigrationCutOff
  <1>16. CASE BackUpWeb
    BY <1>16 DEF BackUpWeb, BackedUp
  <1>17. CASE ExtractWeb
    BY <1>17 DEF ExtractWeb
  <1>18. CASE InstallWeb
    BY <1>18 DEF InstallWeb
  <1>19. CASE HostReloads
    BY <1>19, ReloadChanges
  <1>20. CASE SkipMigrations
    BY <1>20 DEF SkipMigrations
  <1>21. CASE Configure
    BY <1>21 DEF Configure
  <1>22. CASE UNCHANGED deployVars
    BY <1>22 DEF deployVars
  <1> QED
    BY <1>1, <1>2, <1>3, <1>4, <1>5, <1>6, <1>7, <1>8, <1>9, <1>10, <1>11,
       <1>12, <1>13, <1>14, <1>15, <1>16, <1>17, <1>18, <1>19, <1>20, <1>21, <1>22
    DEF DeployNext

LEMMA BackupStep ==
  ASSUME NumbersOK, AppsOK, FilesFollow, BackupKept, [DeployNext]_deployVars
  PROVE  BackupKept'
  <1> USE Numbers, AppParts
          DEF NumbersOK, AppsOK, FilesFollow, BackupKept, Replacing, listener, history
  <1>1. CASE TimerFires
    BY <1>1 DEF TimerFires
  <1>2. CASE Connected
    BY <1>2 DEF Connected
  <1>3. CASE Disconnected
    BY <1>3 DEF Disconnected, LinkLost
  <1>4. CASE Push
    BY <1>4 DEF Push
  <1>5. CASE \E commit \in 1..MaxCommits : Webhook(commit)
    BY <1>5 DEF Webhook
  <1>6. CASE \E works \in BOOLEAN : UpdateTree(works)
    BY <1>6 DEF UpdateTree, Fetched
  <1>7. CASE BuildAndUpload
    BY <1>7 DEF BuildAndUpload
  <1>8. CASE CommandFails
    BY <1>8 DEF CommandFails
  <1>9. CASE ExtractionStops
    BY <1>9 DEF ExtractionStops
  <1>10. CASE BackUpApi
    BY <1>10 DEF BackUpApi, ApiBackedUp, BackedUp
  <1>11. CASE ExtractApi
    BY <1>11 DEF ExtractApi
  <1>12. CASE InstallApi
    BY <1>12 DEF InstallApi
  <1>13. CASE MigrateApi
    <2>1. /\ api'.files = migrated' /\ api'.due = TRUE
          /\ stage = "api.migrate" /\ stage' = "web.backup"
      BY <1>13, MigrationChanges
    <2>2. migrated' \in 0..MaxCommits
      BY <1>13 DEF MigrateApi
    <2> QED
      BY <2>1, <2>2
  <1>14. CASE MigrationFails
    BY <1>14, MigrationChanges
  <1>15. CASE MigrationCutOff
    BY <1>15 DEF MigrationCutOff
  <1>16. CASE BackUpWeb
    BY <1>16 DEF BackUpWeb, BackedUp
  <1>17. CASE ExtractWeb
    BY <1>17 DEF ExtractWeb
  <1>18. CASE InstallWeb
    BY <1>18 DEF InstallWeb
  <1>19. CASE HostReloads
    <2>1. /\ api'.files = api.files /\ api'.backup = api.backup
          /\ UNCHANGED <<stage, migrated, brokeOff>>
      BY <1>19, ReloadChanges
    <2>2. ~brokeOff /\ api.backup = Nothing => api.files = migrated
      OBVIOUS
    <2>3. ~brokeOff => (api.runs = migrated \/ strayed \/ api.due)'
      <3>1. CASE api' = api /\ strayed' = strayed
        BY <2>1, <3>1
      <3>2. CASE api'.runs = api.files /\ strayed' = (api.backup # Nothing)
        BY <2>1, <2>2, <3>2
      <3> QED
        BY <1>19, <3>1, <3>2, ReloadChanges
    <2> QED
      BY <2>1, <2>3
  <1>20. CASE SkipMigrations
    BY <1>20 DEF SkipMigrations
  <1>21. CASE Configure
    BY <1>21 DEF Configure
  <1>22. CASE UNCHANGED deployVars
    BY <1>22 DEF deployVars
  <1> QED
    BY <1>1, <1>2, <1>3, <1>4, <1>5, <1>6, <1>7, <1>8, <1>9, <1>10, <1>11,
       <1>12, <1>13, <1>14, <1>15, <1>16, <1>17, <1>18, <1>19, <1>20, <1>21, <1>22
    DEF DeployNext

LEMMA SuccessStep ==
  ASSUME NumbersOK, AppsOK, TreeOrder, TreeFollows, FilesFollow, SuccessMeansDeployed, [DeployNext]_deployVars
  PROVE  SuccessMeansDeployed'
  <1> USE AppParts, DeploymentAssumption
          DEF NumbersOK, AppsOK, TreeOrder, TreeFollows, Updated, FilesFollow,
              SuccessMeansDeployed, listener, history
  <1>1. CASE TimerFires
    BY <1>1 DEF TimerFires
  <1>2. CASE Connected
    BY <1>2 DEF Connected
  <1>3. CASE Disconnected
    BY <1>3 DEF Disconnected, LinkLost
  <1>4. CASE Push
    BY <1>4 DEF Push
  <1>5. CASE \E commit \in 1..MaxCommits : Webhook(commit)
    BY <1>5 DEF Webhook
  <1>6. CASE \E works \in BOOLEAN : UpdateTree(works)
    BY <1>6 DEF UpdateTree, Fetched
  <1>7. CASE BuildAndUpload
    BY <1>7 DEF BuildAndUpload
  <1>8. CASE CommandFails
    BY <1>8 DEF CommandFails
  <1>9. CASE ExtractionStops
    BY <1>9 DEF ExtractionStops
  <1>10. CASE BackUpApi
    BY <1>10 DEF BackUpApi, ApiBackedUp, BackedUp
  <1>11. CASE ExtractApi
    BY <1>11 DEF ExtractApi
  <1>12. CASE InstallApi
    BY <1>12 DEF InstallApi
  <1>13. CASE MigrateApi
    BY <1>13 DEF MigrateApi
  <1>14. CASE MigrationFails
    BY <1>14 DEF MigrationFails
  <1>15. CASE MigrationCutOff
    BY <1>15 DEF MigrationCutOff
  <1>16. CASE BackUpWeb
    BY <1>16 DEF BackUpWeb, BackedUp
  <1>17. CASE ExtractWeb
    BY <1>17 DEF ExtractWeb
  <1>18. CASE InstallWeb
    <2>1. ~gitFailed => api.files \in wanted..head /\ web.files \in wanted..head
      BY <1>18 DEF InstallWeb
    <2> QED
      <3>1. /\ api'.files = api.files /\ web'.files = web.files
            /\ api'.due = TRUE /\ web'.due = TRUE /\ UNCHANGED <<head, wanted, gitFailed>>
        BY <1>18, InstallChanges
      <3> QED
        BY ONLY <2>1, <3>1 DEF SuccessMeansDeployed
  <1>19. CASE HostReloads
    BY <1>19, ReloadChanges
  <1>20. CASE SkipMigrations
    BY <1>20 DEF SkipMigrations
  <1>21. CASE Configure
    BY <1>21 DEF Configure
  <1>22. CASE UNCHANGED deployVars
    BY <1>22 DEF deployVars
  <1> QED
    BY <1>1, <1>2, <1>3, <1>4, <1>5, <1>6, <1>7, <1>8, <1>9, <1>10, <1>11,
       <1>12, <1>13, <1>14, <1>15, <1>16, <1>17, <1>18, <1>19, <1>20, <1>21, <1>22
    DEF DeployNext

LEMMA RollbackStep ==
  ASSUME AppsOK, BackupKept, FilesRestored, [DeployNext]_deployVars
  PROVE  FilesRestored'
  <1> USE AppParts
          DEF AppsOK, BackupKept, Replacing, FilesRestored, listener, history
  <1>1. CASE TimerFires
    BY <1>1 DEF TimerFires
  <1>2. CASE Connected
    BY <1>2 DEF Connected
  <1>3. CASE Disconnected
    BY <1>3 DEF Disconnected, LinkLost
  <1>4. CASE Push
    BY <1>4 DEF Push
  <1>5. CASE \E commit \in 1..MaxCommits : Webhook(commit)
    BY <1>5 DEF Webhook
  <1>6. CASE \E works \in BOOLEAN : UpdateTree(works)
    BY <1>6 DEF UpdateTree, Fetched
  <1>7. CASE BuildAndUpload
    BY <1>7 DEF BuildAndUpload
  <1>8. CASE CommandFails
    BY <1>8 DEF CommandFails
  <1>9. CASE ExtractionStops
    BY <1>9 DEF ExtractionStops
  <1>10. CASE BackUpApi
    BY <1>10 DEF BackUpApi, ApiBackedUp, BackedUp
  <1>11. CASE ExtractApi
    BY <1>11 DEF ExtractApi
  <1>12. CASE InstallApi
    BY <1>12 DEF InstallApi
  <1>13. CASE MigrateApi
    BY <1>13 DEF MigrateApi
  <1>14. CASE MigrationFails
    BY <1>14 DEF MigrationFails
  <1>15. CASE MigrationCutOff
    BY <1>15 DEF MigrationCutOff
  <1>16. CASE BackUpWeb
    BY <1>16 DEF BackUpWeb, BackedUp
  <1>17. CASE ExtractWeb
    BY <1>17 DEF ExtractWeb
  <1>18. CASE InstallWeb
    BY <1>18 DEF InstallWeb
  <1>19. CASE HostReloads
    BY <1>19, ReloadChanges
  <1>20. CASE SkipMigrations
    BY <1>20 DEF SkipMigrations
  <1>21. CASE Configure
    BY <1>21 DEF Configure
  <1>22. CASE UNCHANGED deployVars
    BY <1>22 DEF deployVars
  <1> QED
    BY <1>1, <1>2, <1>3, <1>4, <1>5, <1>6, <1>7, <1>8, <1>9, <1>10, <1>11,
       <1>12, <1>13, <1>14, <1>15, <1>16, <1>17, <1>18, <1>19, <1>20, <1>21, <1>22
    DEF DeployNext

-----------------------------------------------------------------------------
LEMMA DeployInvariant == DeploySpec => []DeployInv
  <1>1. ASSUME DeployInit PROVE DeployInv
    <2>1. /\ api \in Apps /\ api.files = 0 /\ api.runs = 0
          /\ web \in Apps
      BY <1>1, Numbers, DeploymentAssumption DEF DeployInit, FirstBuild, Apps
    <2>2. NumbersOK /\ TreeOrder
      BY <1>1, DeploymentAssumption DEF DeployInit, NumbersOK, TreeOrder
    <2>3. PlacesOK
      BY <1>1 DEF DeployInit, PlacesOK
    <2>4. AppsOK
      BY <1>1, <2>1, Numbers, DeploymentAssumption DEF DeployInit, AppsOK
    <2>5. BackupKept
      BY <1>1, <2>1, DeploymentAssumption DEF DeployInit, BackupKept, Replacing
    <2> QED
      BY <1>1, <2>2, <2>3, <2>4, <2>5
      DEF DeployInit, DeployInv, TreeFollows, Updated, FilesFollow,
          SuccessMeansDeployed, FilesRestored
  <1>2. DeployInv /\ [DeployNext]_deployVars => DeployInv'
    BY NumbersStep, PlacesStep, AppsStep, TreeFollowed, FilesStep, BackupStep,
       SuccessStep, RollbackStep
    DEF DeployInv
  <1> QED
    BY <1>1, <1>2, PTL DEF DeploySpec

\* Every variable of the deployment keeps its type.
THEOREM DeployTypes == DeploySpec => []DeployTypeOK
  <1>1. DeployInv => DeployTypeOK
    BY Types DEF DeployInv
  <1> QED
    BY <1>1, DeployInvariant, PTL

\* A deploy that is reported as a success has put the commit it was started for, or a
\* later one, on the server, or could not update the tree; each process runs such a
\* build, or is still to make the restart it was asked for.
THEOREM DeploySuccess == DeploySpec => []SuccessMeansDeployed
  <1>1. DeployInv => SuccessMeansDeployed
    BY DEF DeployInv
  <1> QED
    BY <1>1, DeployInvariant, PTL

\* Failed migrations leave the last build whose migrations ran, unless an earlier
\* rollout broke off, or went on without migrations, with its files in place; and it
\* is what the process runs, but for reloads in the middle and restarts to come.
THEOREM DeployRollback == DeploySpec => []RollbackRestores
  <1>1. DeployInv => RollbackRestores
    BY DEF DeployInv, BackupKept, FilesRestored, RollbackRestores
  <1> QED
    BY <1>1, DeployInvariant, PTL
=============================================================================
