-------------------------- MODULE ReadThroughCache --------------------------
(***************************************************************************)
(* RedisService.getOrSet and the invalidations of the writers              *)
(* (redis/redis.service.ts), for one key.                                  *)
(*                                                                         *)
(* A row of the database is a version number that every write increases.   *)
(* A reader is one call of getOrSet on one instance of the server; a       *)
(* writer is a service method that commits its row and then deletes the    *)
(* key, with del or with delByPattern.  A reply of Redis and the change of *)
(* the instance's own map that follows it are one step.                    *)
(***************************************************************************)
EXTENDS Integers, FiniteSets

CONSTANTS Instances, Readers, Writers, None

ASSUME CacheAssumption ==
    /\ IsFiniteSet(Writers)
    /\ Readers \cap Writers = {}
    /\ None \notin Nat /\ None \notin Readers

Calls == Readers \cup Writers

VARIABLES
    db,          \* the version of the row
    entry,       \* the key in Redis, None for no key
    lock,        \* the key cache_build_lock: the reader that set it
    l1,          \* l1Cache of each instance, None for no entry
    doing, call, \* what each call does next and has read
    overrun      \* history: a lock ran out while its reader was building

cacheVars == <<db, entry, lock, l1, doing, call, overrun>>

\* lagging: history, the row was written after the factory had read it.
Entry == [data : Nat, stale : BOOLEAN, lagging : BOOLEAN]
CallSteps == {"idle", "get", "lock", "wait", "build", "refresh", "fallback",
              "store", "unlock", "scan", "delete", "failed", "answered", "dead"}
\* path: how the answer was found.
CallState == [at : Instances, path : CallSteps, value : Nat, found : BOOLEAN]

CacheInit ==
    /\ db = 0
    /\ entry = None
    /\ lock = None
    /\ l1 = [i \in Instances |-> None]
    /\ doing = [c \in Calls |-> "idle"]
    /\ call \in [Calls -> {[at |-> i, path |-> "idle", value |-> 0, found |-> FALSE] :
                             i \in Instances}]
    /\ overrun = FALSE

Move(c, step) == doing' = [doing EXCEPT ![c] = step]
Answer(r, path, value) ==
    /\ Move(r, "answered")
    /\ call' = [call EXCEPT ![r] = [@ EXCEPT !.path = path, !.value = value]]
L1Set(r, value) == l1' = [l1 EXCEPT ![call[r].at] = value]

-----------------------------------------------------------------------------
(* getOrSet.                                                               *)

\* Within the millisecond in which it was set an entry of l1Cache still counts.
Call(r) ==
    /\ doing[r] = "idle"
    /\ IF l1[call[r].at] # None
       THEN Answer(r, "get", l1[call[r].at])
       ELSE Move(r, "get") /\ UNCHANGED call
    /\ UNCHANGED <<db, entry, lock, l1, overrun>>

Get(r) ==
    /\ doing[r] = "get"
    /\ \/ /\ entry = None
          /\ Move(r, "lock")
          /\ UNCHANGED <<l1, call>>
       \/ /\ entry # None /\ entry.stale
          /\ Move(r, "refresh")
          /\ UNCHANGED <<l1, call>>
       \/ /\ entry # None /\ ~entry.stale
          /\ L1Set(r, entry.data)
          /\ Answer(r, "get", entry.data)
    /\ UNCHANGED <<db, entry, lock, overrun>>

TryLock(r) ==
    /\ doing[r] = "lock"
    /\ IF lock = None THEN lock' = r /\ Move(r, "build")
                      ELSE lock' = lock /\ Move(r, "wait")
    /\ UNCHANGED <<db, entry, l1, call, overrun>>

Fetched(r) == db

\* The factory: the value is read, or it throws and the lock is still deleted.
Factory(r) ==
    /\ doing[r] \in {"build", "refresh", "fallback"}
    /\ \/ /\ call' = [call EXCEPT ![r] = [@ EXCEPT !.path = doing[r], !.value = Fetched(r)]]
          /\ Move(r, "store")
       \/ /\ call' = [call EXCEPT ![r].path = "failed"]
          /\ Move(r, IF doing[r] = "build" THEN "unlock" ELSE "failed")
    /\ UNCHANGED <<db, entry, lock, l1, overrun>>

Store(r) ==
    /\ doing[r] = "store"
    /\ entry' = [data |-> call[r].value, stale |-> FALSE, lagging |-> call[r].value # db]
    /\ IF call[r].path = "refresh" THEN UNCHANGED l1 ELSE L1Set(r, call[r].value)
    /\ Move(r, IF call[r].path = "build" THEN "unlock" ELSE "answered")
    /\ UNCHANGED <<db, lock, call, overrun>>

\* The lock is deleted whoever holds it by now.
Unlock(r) ==
    /\ doing[r] = "unlock"
    /\ lock' = None
    /\ Move(r, IF call[r].path = "failed" THEN "failed" ELSE "answered")
    /\ UNCHANGED <<db, entry, l1, call, overrun>>

Poll(r) ==
    /\ doing[r] = "wait"
    /\ entry # None
    /\ L1Set(r, entry.data)
    /\ Answer(r, "wait", entry.data)
    /\ UNCHANGED <<db, entry, lock, overrun>>

Mutant_PollsOn(r) ==
    /\ doing[r] = "wait"
    /\ UNCHANGED cacheVars
\* Five seconds without an entry: the database is asked directly.
Deadline(r) ==
    /\ doing[r] = "wait"
    /\ Move(r, "fallback")
    /\ UNCHANGED <<db, entry, lock, l1, call, overrun>>

\* A command to Redis fails: the call throws, a builder tries to delete its lock first.
RedisFails(r) ==
    /\ doing[r] \in {"get", "lock", "wait", "store", "unlock"}
    /\ call' = [call EXCEPT ![r].path = "failed"]
    /\ Move(r, IF doing[r] = "store" /\ call[r].path = "build" THEN "unlock" ELSE "failed")
    /\ UNCHANGED <<db, entry, lock, l1, overrun>>

Reader(r) == Get(r) \/ TryLock(r) \/ Factory(r) \/ Store(r) \/ Unlock(r) \/ Poll(r) \/ Deadline(r)

-----------------------------------------------------------------------------
(* A service method that writes the row and deletes the key.               *)

Update(w) ==
    /\ doing[w] = "idle"
    /\ db' = db + 1
    /\ Move(w, "scan")
    /\ UNCHANGED <<entry, lock, l1, call, overrun>>

\* delByPattern deletes what its scan has found, del deletes the key itself.
Scan(w) ==
    /\ doing[w] = "scan"
    /\ l1' = [l1 EXCEPT ![call[w].at] = None]
    /\ \E found \in {TRUE, entry # None} : call' = [call EXCEPT ![w].found = found]
    /\ Move(w, "delete")
    /\ UNCHANGED <<db, entry, lock, overrun>>

KeyGone == entry' = None

Mutant_KeepsPrefix(w) ==
    /\ doing[w] = "delete"
    /\ Move(w, "answered")
    /\ UNCHANGED <<db, entry, lock, l1, call, overrun>>
Delete(w) ==
    /\ doing[w] = "delete"
    /\ IF call[w].found THEN KeyGone ELSE UNCHANGED entry
    /\ Move(w, "answered")
    /\ UNCHANGED <<db, lock, l1, call, overrun>>

-----------------------------------------------------------------------------
(* Time and failures.                                                      *)

MillisecondPasses ==
    /\ l1 # [i \in Instances |-> None]
    /\ l1' = [i \in Instances |-> None]
    /\ UNCHANGED <<db, entry, lock, doing, call, overrun>>

EntryAges ==
    /\ entry # None
    /\ \/ ~entry.stale /\ entry' = [entry EXCEPT !.stale = TRUE]
       \/ KeyGone
    /\ UNCHANGED <<db, lock, l1, doing, call, overrun>>

\* store is a step of the refresh and of the fallback too.
Builds(r) == doing[r] \in {"build", "unlock"} \/ (doing[r] = "store" /\ call[r].path = "build")

LockExpires ==
    /\ lock # None
    /\ lock' = None
    /\ overrun' = (overrun \/ Builds(lock))
    /\ UNCHANGED <<db, entry, l1, doing, call>>

\* An instance stops: its calls end where they are, its map is gone.
Crash(i) ==
    /\ \E c \in Calls : call[c].at = i /\ doing[c] \notin {"idle", "failed", "answered", "dead"}
    /\ doing' = [c \in Calls |->
                   IF call[c].at = i /\ doing[c] \notin {"idle", "failed", "answered"}
                   THEN "dead" ELSE doing[c]]
    /\ l1' = [l1 EXCEPT ![i] = None]
    /\ UNCHANGED <<db, entry, lock, call, overrun>>

CacheNext ==
    \/ \E r \in Readers : Call(r) \/ Reader(r) \/ RedisFails(r)
    \/ \E w \in Writers : Update(w) \/ Scan(w) \/ Delete(w)
    \/ MillisecondPasses
    \/ EntryAges
    \/ LockExpires
    \/ \E i \in Instances : Crash(i)

CacheSpec == CacheInit /\ [][CacheNext]_cacheVars

\* A call that has begun goes on: Redis and the database answer or fail, timers fire.
FairCacheSpec == CacheSpec /\ \A r \in Readers : WF_cacheVars(Reader(r))
-----------------------------------------------------------------------------
(* Properties.                                                             *)

CacheTypeOK ==
    /\ db \in 0 .. Cardinality(Writers)
    /\ entry = None \/ entry \in Entry
    /\ lock \in Readers \cup {None}
    /\ \A i \in Instances : l1[i] = None \/ l1[i] \in Nat
    /\ doing \in [Calls -> CallSteps]
    /\ call \in [Calls -> CallState]
    /\ overrun \in BOOLEAN

\* The build lock of getOrSet: as long as no builder has outlived the 30 seconds
\* of its lock, one reader builds at a time, although the lock is deleted without
\* asking who holds it.
OneBuilder == ~overrun => \A r, q \in Readers : Builds(r) /\ Builds(q) => r = q

\* What an invalidation leaves behind: an entry that differs from its row was
\* stored by a reader that had read the row before the write and stored it after
\* it, or the writer has not come to the deletion of the key.
EntryIsCurrent ==
    entry # None /\ entry.data # db =>
        entry.lagging \/ \E w \in Writers : doing[w] \in {"scan", "delete", "dead"}

\* A caller of getOrSet is answered, or gets the factory's error, also when the
\* reader that holds the build lock has died with its instance.
Answered ==
    \A r \in Readers : doing[r] = "get" ~> doing[r] \in {"failed", "answered", "dead"}
=============================================================================
