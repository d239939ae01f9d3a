---------------------------- MODULE IndexRegistry ----------------------------
(***************************************************************************)
(* How backends find the shared state of one bm25 index.                   *)
(*                                                                         *)
(* The state (counters, memtable pointer, index lock) lives in a dynamic   *)
(* shared memory area; a registry in shared memory maps the index to it,   *)
(* and every backend keeps a pointer to what it once found.  Backends      *)
(* attach, rebuild after a restart, build (CREATE INDEX, REINDEX, VACUUM   *)
(* FULL, TRUNCATE), drop, commit and abort.  What is in the memtable is    *)
(* left to BM25Index; here a state is a number, never used twice, so that  *)
(* a pointer to a freed state can be told from any other.                  *)
(***************************************************************************)
EXTENDS Integers

CONSTANTS
  Backends,
  Nobody,           \* the owner of a free index lock
  MaxStates,        \* bound: shared states allocated between two restarts
  MaxRestarts,      \* bound: restarts of the server
  DropRollsBack,    \* may a transaction that dropped the index roll back?
  BuildAfterUse     \* may a transaction that used the index rebuild or drop it?

ASSUME RegistryAssumption ==
  /\ Nobody \notin Backends
  /\ MaxStates \in Nat
  /\ MaxRestarts \in Nat
  /\ DropRollsBack \in BOOLEAN
  /\ BuildAfterUse \in BOOLEAN

States == 1..MaxStates

\* A null pointer, and a backend whose local cache has no entry at all.
Null == 0
NoEntry == -1

VARIABLES
  catalog,     \* the index in pg_class: absent, creating, present, gone
  registry,    \* the state the registry points to, or Null
  memory,      \* per state: unused, live or freed
  memtable,    \* per state: the area that memtable_dp points into, Nobody for the global one
  lock,        \* per state: who holds its lock
  private,     \* the backends that own a private area
  cache,       \* per backend: the state of its local_state, Null, or NoEntry
  building,    \* per backend: local_state->is_build_mode
  held,        \* per backend: local_state->lock_held
  rel,         \* per backend: its relation lock on the index: none, share, exclusive
  dropped,     \* per backend: has its transaction dropped the index?
  hand,        \* per backend: the state it is looking up or creating
  pc,          \* per backend: where it is
  restarts

shared == <<registry, memory, memtable, lock>>
local == <<cache, building, held>>
vars == <<catalog, registry, memory, memtable, lock, private, cache, building,
          held, rel, dropped, hand, pc, restarts>>

Init ==
  /\ catalog = "absent"
  /\ registry = Null
  /\ memory = [s \in States |-> "unused"]
  /\ memtable = [s \in States |-> Nobody]
  /\ lock = [s \in States |-> Nobody]
  /\ private = {}
  /\ cache = [b \in Backends |-> NoEntry]
  /\ building = [b \in Backends |-> FALSE]
  /\ held = [b \in Backends |-> FALSE]
  /\ rel = [b \in Backends |-> "none"]
  /\ dropped = [b \in Backends |-> FALSE]
  /\ hand = [b \in Backends |-> Null]
  /\ pc = [b \in Backends |-> "idle"]
  /\ restarts = 0

-----------------------------------------------------------------------------
(* A statement that reads or writes the index.                             *)

\* PostgreSQL locks the index before the access method is called.
Open(b) ==
  /\ pc[b] = "idle"
  /\ rel[b] = "none"
  /\ catalog = "present"
  /\ \A a \in Backends : rel[a] # "exclusive"
  /\ rel' = [rel EXCEPT ![b] = "share"]
  /\ UNCHANGED <<catalog, shared, private, local, dropped, hand, pc, restarts>>

\* tp_get_local_index_state: a cached pointer is used as it is, a registered
\* state is attached to, anything else is rebuilt from the disk.
Ask(b) ==
  /\ pc[b] = "idle"
  /\ rel[b] = "share"
  /\ hand' = [hand EXCEPT ![b] = IF cache[b] # NoEntry THEN cache[b] ELSE registry]
  /\ pc' = [pc EXCEPT ![b] = IF cache[b] # NoEntry THEN "use"
                             ELSE IF registry # Null THEN "attach"
                             ELSE "rebuild"]
  /\ UNCHANGED <<catalog, shared, private, local, rel, dropped, restarts>>

Attach(b) ==
  /\ pc[b] = "attach"
  /\ cache' = [cache EXCEPT ![b] = hand[b]]
  /\ building' = [building EXCEPT ![b] = FALSE]
  /\ held' = [held EXCEPT ![b] = FALSE]
  /\ pc' = [pc EXCEPT ![b] = "use"]
  /\ UNCHANGED <<catalog, shared, private, rel, dropped, hand, restarts>>

Fresh(s) == memory[s] = "unused" /\ \A r \in States : r < s => memory[r] # "unused"

\* tp_create_shared_index_state, when the index is rebuilt.  Looking up,
\* unregistering and registering each take the registry's lock anew.
Allocate(b) ==
  /\ pc[b] = "rebuild"
  /\ \E s \in States :
       /\ Fresh(s)
       /\ memory' = [memory EXCEPT ![s] = "live"]
       /\ hand' = [hand EXCEPT ![b] = s]
  /\ pc' = [pc EXCEPT ![b] = IF registry # Null THEN "unregister" ELSE "register"]
  /\ UNCHANGED <<catalog, registry, memtable, lock, private, local, rel, dropped, restarts>>

Unregister(b) ==
  /\ pc[b] = "unregister"
  /\ registry' = Null
  /\ pc' = [pc EXCEPT ![b] = "register"]
  /\ UNCHANGED <<catalog, memory, memtable, lock, private, local, rel, dropped, hand, restarts>>

Register(b) ==
  /\ pc[b] = "register"
  /\ registry' = hand[b]
  /\ cache' = [cache EXCEPT ![b] = hand[b]]
  /\ building' = [building EXCEPT ![b] = FALSE]
  /\ held' = [held EXCEPT ![b] = FALSE]
  /\ pc' = [pc EXCEPT ![b] = "use"]
  /\ UNCHANGED <<catalog, memory, memtable, lock, private, rel, dropped, hand, restarts>>

\* The statement takes the index lock unless its transaction has it.  Without
\* a state an insert leaves the memtable alone and a scan raises an error.
Use(b) ==
  /\ pc[b] = "use"
  /\ hand[b] # Null /\ ~held[b] => lock[hand[b]] = Nobody
  /\ IF hand[b] = Null THEN UNCHANGED <<lock, held>>
     ELSE /\ lock' = [lock EXCEPT ![hand[b]] = b]
          /\ held' = [held EXCEPT ![b] = TRUE]
  /\ pc' = [pc EXCEPT ![b] = "idle"]
  /\ UNCHANGED <<catalog, registry, memory, memtable, private, cache, building,
                 rel, dropped, hand, restarts>>

-----------------------------------------------------------------------------
(* CREATE INDEX, the statements that rebuild the index, and DROP INDEX.    *)

\* PostgreSQL gives the statement an exclusive lock on the index.
MayLockExclusively(b) ==
  /\ pc[b] = "idle"
  /\ ~dropped[b]
  /\ rel[b] = "none" \/ BuildAfterUse
  /\ \A a \in Backends \ {b} : rel[a] = "none"

ReplacedReclaiming(s) ==
  [r \in States |-> IF r = s THEN "live" ELSE IF r = registry THEN "freed" ELSE memory[r]]
Replaced(s) == [memory EXCEPT ![s] = "live"]

\* tp_create_build_index_state.  Whatever was registered is unregistered and
\* never freed; the old local state is freed with what it said of the lock.
Build(b) ==
  /\ MayLockExclusively(b)
  /\ catalog # "gone"
  /\ catalog = "creating" => rel[b] = "exclusive"
  /\ catalog' = IF catalog = "absent" THEN "creating" ELSE catalog
  /\ rel' = [rel EXCEPT ![b] = "exclusive"]
  /\ \E s \in States :
       /\ Fresh(s)
       /\ memory' = Replaced(s)
       /\ memtable' = [memtable EXCEPT ![s] = b]
       /\ registry' = s
       /\ cache' = [cache EXCEPT ![b] = s]
  /\ private' = private \union {b}
  /\ building' = [building EXCEPT ![b] = TRUE]
  /\ held' = [held EXCEPT ![b] = FALSE]
  /\ pc' = [pc EXCEPT ![b] = "build"]
  /\ UNCHANGED <<lock, dropped, hand, restarts>>

\* tp_build_parallel: the workers write the index file, and neither the registry
\* nor a local cache hears of it.
BuildInParallel(b) ==
  /\ MayLockExclusively(b)
  /\ catalog # "gone"
  /\ catalog = "creating" => rel[b] = "exclusive"
  /\ catalog' = IF catalog = "absent" THEN "creating" ELSE catalog
  /\ rel' = [rel EXCEPT ![b] = "exclusive"]
  /\ UNCHANGED <<shared, private, local, dropped, hand, pc, restarts>>

\* The memtable of a finished build is a new one, in the global area.
PublishedInPlace(b) == memtable
Published(b) == [memtable EXCEPT ![cache[b]] = Nobody]

\* The end of tp_build: tp_release_index_lock and tp_finalize_build_mode.
FinishBuild(b) ==
  /\ pc[b] = "build"
  /\ private' = private \ {b}
  /\ memtable' = Published(b)
  /\ building' = [building EXCEPT ![b] = FALSE]
  /\ pc' = [pc EXCEPT ![b] = "idle"]
  /\ UNCHANGED <<catalog, registry, memory, lock, cache, held, rel, dropped, hand, restarts>>

\* tp_object_access and tp_cleanup_index_shared_memory, while the statement
\* runs and not when its transaction commits.
Drop(b) ==
  /\ MayLockExclusively(b)
  /\ catalog = "present"
  /\ rel' = [rel EXCEPT ![b] = "exclusive"]
  /\ dropped' = [dropped EXCEPT ![b] = TRUE]
  /\ IF registry = Null THEN UNCHANGED <<registry, memory, cache, held>>
     ELSE /\ memory' = [memory EXCEPT ![registry] = "freed"]
          /\ cache' = [cache EXCEPT ![b] = IF @ = Null THEN Null ELSE NoEntry]
          /\ held' = [held EXCEPT ![b] = FALSE]
          /\ registry' = Null
  /\ UNCHANGED <<catalog, memtable, lock, private, building, hand, pc, restarts>>

-----------------------------------------------------------------------------
(* The ends of transactions, sessions and of the server.                   *)

\* tp_release_all_index_locks sees only what the local cache points to.
FindsHeldInRegistry(b, s) == held[b] /\ s = registry /\ lock[s] = b
FindsHeld(b, s) == held[b] /\ s = cache[b] /\ lock[s] = b

Commit(b) ==
  /\ pc[b] = "idle"
  /\ rel[b] # "none"
  /\ lock' = [s \in States |-> IF FindsHeld(b, s) THEN Nobody ELSE lock[s]]
  /\ held' = [held EXCEPT ![b] = FALSE]
  /\ rel' = [rel EXCEPT ![b] = "none"]
  /\ dropped' = [dropped EXCEPT ![b] = FALSE]
  /\ catalog' = IF dropped[b] THEN "gone"
                ELSE IF rel[b] = "exclusive" THEN "present" ELSE catalog
  /\ UNCHANGED <<registry, memory, memtable, private, cache, building, hand, pc, restarts>>

\* What tp_cleanup_build_mode_on_abort takes apart.
RegistryAfterAbortUnset(b) == IF building[b] THEN NoEntry ELSE registry
RegistryAfterAbortKept(b) == registry
RegistryAfterAbort(b) == IF building[b] THEN Null ELSE registry
PrivateAfterAbortKept(b) == private
PrivateAfterAbort(b) == IF building[b] THEN private \ {b} ELSE private

\* PostgreSQL releases the LWLocks, then tp_cleanup_build_mode_on_abort frees
\* the state that is registered, and leaves a null pointer in the cache.
Abort(b) ==
  /\ rel[b] # "none"
  /\ dropped[b] => DropRollsBack
  /\ lock' = [s \in States |-> IF lock[s] = b THEN Nobody ELSE lock[s]]
  /\ private' = PrivateAfterAbort(b)
  /\ registry' = RegistryAfterAbort(b)
  /\ memory' = [s \in States |-> IF building[b] /\ s = registry THEN "freed" ELSE memory[s]]
  /\ cache' = [cache EXCEPT ![b] = IF building[b] THEN Null ELSE @]
  /\ building' = [building EXCEPT ![b] = FALSE]
  /\ held' = [held EXCEPT ![b] = FALSE]
  /\ rel' = [rel EXCEPT ![b] = "none"]
  /\ dropped' = [dropped EXCEPT ![b] = FALSE]
  /\ catalog' = IF catalog = "creating" THEN "gone" ELSE catalog
  /\ hand' = [hand EXCEPT ![b] = Null]
  /\ pc' = [pc EXCEPT ![b] = "idle"]
  /\ UNCHANGED <<memtable, restarts>>

\* A session ends and another takes its place.
Reconnect(b) ==
  /\ rel[b] = "none"
  /\ cache' = [cache EXCEPT ![b] = NoEntry]
  /\ held' = [held EXCEPT ![b] = FALSE]
  /\ lock' = [s \in States |-> IF lock[s] = b THEN Nobody ELSE lock[s]]
  /\ UNCHANGED <<catalog, registry, memory, memtable, private, building, rel,
                 dropped, hand, pc, restarts>>

\* Shared memory and every session are lost; open transactions roll back.
Restart ==
  /\ restarts < MaxRestarts
  /\ restarts' = restarts + 1
  /\ catalog' = IF catalog = "creating" THEN "gone" ELSE catalog
  /\ registry' = Null
  /\ memory' = [s \in States |-> "unused"]
  /\ memtable' = [s \in States |-> Nobody]
  /\ lock' = [s \in States |-> Nobody]
  /\ private' = {}
  /\ cache' = [b \in Backends |-> NoEntry]
  /\ building' = [b \in Backends |-> FALSE]
  /\ held' = [b \in Backends |-> FALSE]
  /\ rel' = [b \in Backends |-> "none"]
  /\ dropped' = [b \in Backends |-> FALSE]
  /\ hand' = [b \in Backends |-> Null]
  /\ pc' = [b \in Backends |-> "idle"]

Next ==
  \/ \E b \in Backends :
       \/ Open(b) \/ Ask(b) \/ Attach(b) \/ Allocate(b) \/ Unregister(b)
       \/ Register(b) \/ Use(b) \/ Build(b) \/ BuildInParallel(b)
       \/ FinishBuild(b) \/ Drop(b) \/ Commit(b) \/ Abort(b) \/ Reconnect(b)
  \/ Restart

Spec == Init /\ [][Next]_vars

-----------------------------------------------------------------------------
(* Properties.                                                             *)

\* Types of the variables.
TypeOK ==
  /\ catalog \in {"absent", "creating", "present", "gone"}
  /\ registry \in States \union {Null}
  /\ memory \in [States -> {"unused", "live", "freed"}]
  /\ memtable \in [States -> Backends \union {Nobody}]
  /\ lock \in [States -> Backends \union {Nobody}]
  /\ private \subseteq Backends
  /\ cache \in [Backends -> States \union {Null, NoEntry}]
  /\ building \in [Backends -> BOOLEAN]
  /\ held \in [Backends -> BOOLEAN]
  /\ rel \in [Backends -> {"none", "share", "exclusive"}]
  /\ dropped \in [Backends -> BOOLEAN]
  /\ hand \in [Backends -> States \union {Null}]
  /\ pc \in [Backends -> {"idle", "attach", "rebuild", "unregister", "register", "use", "build"}]
  /\ restarts \in Nat

\* A backend works with the index, or could begin to as soon as it likes.
MayUse(b) ==
  \/ rel[b] = "share"
  \/ catalog = "present" /\ \A a \in Backends : rel[a] # "exclusive"

\* Locks are held in live memory only.
HeldIsLive == \A s \in States : lock[s] # Nobody => memory[s] = "live"

\* No backend that may use the index has, in its local cache or in its hands,
\* a pointer to a shared state that was freed; nor is a lock held in freed
\* memory.  Local pointers are never revalidated: all rests on who may free a
\* state and when (state.c, tp_cleanup_index_shared_memory and
\* tp_cleanup_build_mode_on_abort).
NoUseAfterFree ==
  /\ \A b \in Backends : MayUse(b) =>
       /\ cache[b] \in States => memory[cache[b]] = "live"
       /\ hand[b] \in States /\ pc[b] # "idle" => memory[hand[b]] = "live"
  /\ HeldIsLive

\* memtable_dp means something only in the area it was allocated in.  A state
\* under construction is registered with a pointer into the builder's private
\* area: nobody else ever follows it, not even after the build fails.
AreaAgrees ==
  \A b \in Backends :
    /\ MayUse(b) /\ cache[b] \in States => memtable[cache[b]] = Nobody
    /\ MayUse(b) /\ registry # Null => memtable[registry] = Nobody
    /\ building[b] => memtable[cache[b]] = b /\ b \in private

\* The registry never leads a backend to freed memory.
RegisteredIsLive == registry # Null => memory[registry] = "live"

\* The private area of a build is gone when its transaction is over, and a
\* build has one until it ends.
PrivateAreaEnds ==
  \A b \in Backends : b \in private <=> building[b] /\ rel[b] = "exclusive"

\* Index locks end with the transaction: a held lock has an owner that is in a
\* transaction and whose local state will find it at the end.
LocksEndWithTransaction ==
  \A s \in States : lock[s] # Nobody =>
    /\ rel[lock[s]] # "none"
    /\ held[lock[s]]
    /\ cache[lock[s]] = s

-----------------------------------------------------------------------------
(* Why the properties hold when a transaction that rebuilds or drops the    *)
(* index does nothing else with it and a drop is not rolled back: the parts *)
(* of the inductive invariant.                                              *)

\* PostgreSQL's relation locks: one backend at most changes the index, and a
\* backend without a lock is not in the middle of anything.
LocksAgree ==
  /\ \A a, b \in Backends : a # b /\ rel[a] = "exclusive" => rel[b] = "none"
  /\ \A b \in Backends :
       /\ rel[b] = "none" => pc[b] = "idle"
       /\ rel[b] # "share" => ~held[b]
       /\ rel[b] = "share" => catalog = "present"
       /\ rel[b] = "exclusive" => catalog # "gone"
       /\ pc[b] = "build" => rel[b] = "exclusive"
       /\ rel[b] = "exclusive" => pc[b] \in {"idle", "build"}
       /\ building[b] <=> pc[b] = "build"
       /\ dropped[b] => rel[b] = "exclusive" /\ catalog = "present" /\ ~building[b]

\* Whether freed states may still be pointed to: nobody can use the index.
Unusable == catalog = "gone" \/ \E b \in Backends : dropped[b]

\* Pointers are to allocated states, and to live ones unless nobody can use
\* the index; a lookup has in hand what it found.
PointersSound ==
  /\ RegisteredIsLive
  /\ \A b \in Backends :
       /\ cache[b] \in States => memory[cache[b]] # "unused"
       /\ cache[b] \in States /\ memory[cache[b]] = "freed" => Unusable
       /\ pc[b] \in {"attach", "rebuild", "unregister", "register"} => ~held[b]
       /\ pc[b] \in {"attach", "unregister", "register"} =>
            hand[b] \in States /\ memory[hand[b]] = "live"
       /\ pc[b] = "use" => hand[b] = cache[b]
       /\ pc[b] = "rebuild" => hand[b] = Null
       /\ held[b] => cache[b] \in States /\ lock[cache[b]] = b

\* A state under construction is registered, and nobody else has it.
BuildsSound ==
  \A b \in Backends : building[b] =>
    /\ cache[b] \in States
    /\ registry = cache[b]
    /\ memtable[cache[b]] = b
    /\ \A a \in Backends \ {b} : cache[a] # cache[b]

\* A state whose memtable is in a private area is being built or was freed.
AreasSound ==
  \A s \in States :
    /\ memory[s] = "unused" => memtable[s] = Nobody /\ lock[s] = Nobody
    /\ memory[s] = "live" /\ memtable[s] # Nobody =>
         building[memtable[s]] /\ cache[memtable[s]] = s

IInv ==
  /\ TypeOK
  /\ LocksAgree
  /\ PointersSound
  /\ BuildsSound
  /\ AreasSound
  /\ PrivateAreaEnds
  /\ LocksEndWithTransaction
  /\ HeldIsLive

=============================================================================
