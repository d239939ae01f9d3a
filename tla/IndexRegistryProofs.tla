------------------------- MODULE IndexRegistryProofs -------------------------
(***************************************************************************)
(* Safety of IndexRegistry for any number of backends, states and          *)
(* restarts, as long as a transaction that rebuilds or drops the index     *)
(* does nothing else with it and a drop is not rolled back.                *)
(***************************************************************************)
EXTENDS IndexRegistry, TLAPS

\* The two habits of clients that the theorems rest on.
Calm == ~DropRollsBack /\ ~BuildAfterUse

\* No state exists at first.
LEMMA InitIInv == Init => IInv
<1> SUFFICES ASSUME Init PROVE IInv
  OBVIOUS
<1> USE RegistryAssumption DEF Init, States, Null, NoEntry
<1>1. TypeOK
  BY DEF TypeOK
<1>2. LocksAgree /\ PrivateAreaEnds
  BY DEF LocksAgree, PrivateAreaEnds
<1>3. PointersSound /\ BuildsSound
  BY DEF PointersSound, RegisteredIsLive, BuildsSound
<1>4. AreasSound /\ LocksEndWithTransaction /\ HeldIsLive
  BY DEF AreasSound, LocksEndWithTransaction, HeldIsLive
<1> QED
  BY <1>1, <1>2, <1>3, <1>4 DEF IInv

\* A statement locks the index.
LEMMA OpenStep == ASSUME Calm, IInv, NEW b \in Backends, Open(b) PROVE IInv'
<1> USE RegistryAssumption DEF Calm, IInv, shared, local, Open
<1>1. TypeOK'
  BY DEF TypeOK, States, Null, NoEntry
<1>2. LocksAgree'
  BY DEF LocksAgree, TypeOK
<1>3. PointersSound'
  BY DEF PointersSound, RegisteredIsLive, Unusable, LocksAgree, BuildsSound, LocksEndWithTransaction, TypeOK, States, Null, NoEntry
<1>4. BuildsSound'
  BY DEF BuildsSound, PointersSound, LocksAgree, TypeOK, States, Null, NoEntry
<1>5. AreasSound'
  BY DEF AreasSound, BuildsSound, PointersSound, RegisteredIsLive, LocksAgree, LocksEndWithTransaction, TypeOK, States, Null, NoEntry
<1>6. PrivateAreaEnds'
  BY DEF PrivateAreaEnds, LocksAgree, TypeOK
<1>7. LocksEndWithTransaction'
  BY DEF LocksEndWithTransaction, LocksAgree, PointersSound, TypeOK, States, Null, NoEntry
<1>8. HeldIsLive'
  BY DEF HeldIsLive, LocksEndWithTransaction, PointersSound, BuildsSound, LocksAgree, TypeOK, States, Null, NoEntry
<1> QED
  BY <1>1, <1>2, <1>3, <1>4, <1>5, <1>6, <1>7, <1>8

\* A lookup starts.
LEMMA AskStep == ASSUME Calm, IInv, NEW b \in Backends, Ask(b) PROVE IInv'
<1> USE RegistryAssumption DEF Calm, IInv, shared, local, Ask
<1>1. TypeOK'
  BY DEF TypeOK, States, Null, NoEntry
<1>2. LocksAgree'
  BY DEF LocksAgree, TypeOK
<1>3. PointersSound'
  BY DEF PointersSound, RegisteredIsLive, Unusable, LocksAgree, BuildsSound, LocksEndWithTransaction, TypeOK, States, Null, NoEntry
<1>4. BuildsSound'
  BY DEF BuildsSound, PointersSound, LocksAgree, TypeOK, States, Null, NoEntry
<1>5. AreasSound'
  BY DEF AreasSound, BuildsSound, PointersSound, RegisteredIsLive, LocksAgree, LocksEndWithTransaction, TypeOK, States, Null, NoEntry
<1>6. PrivateAreaEnds'
  BY DEF PrivateAreaEnds, LocksAgree, TypeOK
<1>7. LocksEndWithTransaction'
  BY DEF LocksEndWithTransaction, LocksAgree, PointersSound, TypeOK, States, Null, NoEntry
<1>8. HeldIsLive'
  BY DEF HeldIsLive, LocksEndWithTransaction, PointersSound, BuildsSound, LocksAgree, TypeOK, States, Null, NoEntry
<1> QED
  BY <1>1, <1>2, <1>3, <1>4, <1>5, <1>6, <1>7, <1>8

\* A backend attaches to a registered state.
LEMMA AttachStep == ASSUME Calm, IInv, NEW b \in Backends, Attach(b) PROVE IInv'
<1> USE RegistryAssumption DEF Calm, IInv, shared, local, Attach
<1>1. TypeOK'
  BY DEF TypeOK, States, Null, NoEntry
<1>2. LocksAgree'
  BY DEF LocksAgree, TypeOK
<1>3. PointersSound'
  BY DEF PointersSound, RegisteredIsLive, Unusable, LocksAgree, BuildsSound, LocksEndWithTransaction, TypeOK, States, Null, NoEntry
<1>4. BuildsSound'
  BY DEF BuildsSound, PointersSound, LocksAgree, TypeOK, States, Null, NoEntry
<1>5. AreasSound'
  BY DEF AreasSound, BuildsSound, PointersSound, RegisteredIsLive, LocksAgree, LocksEndWithTransaction, TypeOK, States, Null, NoEntry
<1>6. PrivateAreaEnds'
  BY DEF PrivateAreaEnds, LocksAgree, TypeOK
<1>7. LocksEndWithTransaction'
  BY DEF LocksEndWithTransaction, LocksAgree, PointersSound, TypeOK, States, Null, NoEntry
<1>8. HeldIsLive'
  BY DEF HeldIsLive, LocksEndWithTransaction, PointersSound, BuildsSound, LocksAgree, TypeOK, States, Null, NoEntry
<1> QED
  BY <1>1, <1>2, <1>3, <1>4, <1>5, <1>6, <1>7, <1>8

\* A rebuilding backend allocates a state.
LEMMA AllocateStep == ASSUME Calm, IInv, NEW b \in Backends, Allocate(b) PROVE IInv'
<1> USE RegistryAssumption DEF Calm, IInv, shared, local, Allocate, Fresh
<1>1. TypeOK'
  BY DEF TypeOK, States, Null, NoEntry
<1>2. LocksAgree'
  BY DEF LocksAgree, TypeOK
<1>3. PointersSound'
  BY DEF PointersSound, RegisteredIsLive, Unusable, LocksAgree, BuildsSound, LocksEndWithTransaction, TypeOK, States, Null, NoEntry
<1>4. BuildsSound'
  BY DEF BuildsSound, PointersSound, LocksAgree, TypeOK, States, Null, NoEntry
<1>5. AreasSound'
  BY DEF AreasSound, BuildsSound, PointersSound, RegisteredIsLive, LocksAgree, LocksEndWithTransaction, TypeOK, States, Null, NoEntry
<1>6. PrivateAreaEnds'
  BY DEF PrivateAreaEnds, LocksAgree, TypeOK
<1>7. LocksEndWithTransaction'
  BY DEF LocksEndWithTransaction, LocksAgree, PointersSound, TypeOK, States, Null, NoEntry
<1>8. HeldIsLive'
  BY DEF HeldIsLive, LocksEndWithTransaction, PointersSound, BuildsSound, LocksAgree, TypeOK, States, Null, NoEntry
<1> QED
  BY <1>1, <1>2, <1>3, <1>4, <1>5, <1>6, <1>7, <1>8

\* It unregisters what another has registered meanwhile.
LEMMA UnregisterStep == ASSUME Calm, IInv, NEW b \in Backends, Unregister(b) PROVE IInv'
<1> USE RegistryAssumption DEF Calm, IInv, shared, local, Unregister
<1>1. TypeOK'
  BY DEF TypeOK, States, Null, NoEntry
<1>2. LocksAgree'
  BY DEF LocksAgree, TypeOK
<1>3. PointersSound'
  BY DEF PointersSound, RegisteredIsLive, Unusable, LocksAgree, BuildsSound, LocksEndWithTransaction, TypeOK, States, Null, NoEntry
<1>4. BuildsSound'
  BY DEF BuildsSound, PointersSound, LocksAgree, TypeOK, States, Null, NoEntry
<1>5. AreasSound'
  BY DEF AreasSound, BuildsSound, PointersSound, RegisteredIsLive, LocksAgree, LocksEndWithTransaction, TypeOK, States, Null, NoEntry
<1>6. PrivateAreaEnds'
  BY DEF PrivateAreaEnds, LocksAgree, TypeOK
<1>7. LocksEndWithTransaction'
  BY DEF LocksEndWithTransaction, LocksAgree, PointersSound, TypeOK, States, Null, NoEntry
<1>8. HeldIsLive'
  BY DEF HeldIsLive, LocksEndWithTransaction, PointersSound, BuildsSound, LocksAgree, TypeOK, States, Null, NoEntry
<1> QED
  BY <1>1, <1>2, <1>3, <1>4, <1>5, <1>6, <1>7, <1>8

\* It registers its own.
LEMMA RegisterStep == ASSUME Calm, IInv, NEW b \in Backends, Register(b) PROVE IInv'
<1> USE RegistryAssumption DEF Calm, IInv, shared, local, Register
<1>1. TypeOK'
  BY DEF TypeOK, States, Null, NoEntry
<1>2. LocksAgree'
  BY DEF LocksAgree, TypeOK
<1>3. PointersSound'
  BY DEF PointersSound, RegisteredIsLive, Unusable, LocksAgree, BuildsSound, LocksEndWithTransaction, TypeOK, States, Null, NoEntry
<1>4. BuildsSound'
  BY DEF BuildsSound, PointersSound, LocksAgree, TypeOK, States, Null, NoEntry
<1>5. AreasSound'
  BY DEF AreasSound, BuildsSound, PointersSound, RegisteredIsLive, LocksAgree, LocksEndWithTransaction, TypeOK, States, Null, NoEntry
<1>6. PrivateAreaEnds'
  BY DEF PrivateAreaEnds, LocksAgree, TypeOK
<1>7. LocksEndWithTransaction'
  BY DEF LocksEndWithTransaction, LocksAgree, PointersSound, TypeOK, States, Null, NoEntry
<1>8. HeldIsLive'
  BY DEF HeldIsLive, LocksEndWithTransaction, PointersSound, BuildsSound, LocksAgree, TypeOK, States, Null, NoEntry
<1> QED
  BY <1>1, <1>2, <1>3, <1>4, <1>5, <1>6, <1>7, <1>8

\* A statement takes the index lock.
LEMMA UseStep == ASSUME Calm, IInv, NEW b \in Backends, Use(b) PROVE IInv'
<1> USE RegistryAssumption DEF Calm, IInv, shared, local, Use
<1>1. TypeOK'
  BY DEF TypeOK, States, Null, NoEntry
<1>2. LocksAgree'
  BY DEF LocksAgree, TypeOK
<1>3. PointersSound'
  <2>1. hand[b] = cache[b] /\ rel[b] = "share"
    BY DEF PointersSound, LocksAgree, TypeOK
  <2>2. CASE hand[b] = Null
    BY <2>1, <2>2 DEF PointersSound, RegisteredIsLive, Unusable, TypeOK, States, Null
  <2>3. CASE hand[b] # Null
    <3>1. hand[b] \in States /\ lock' = [lock EXCEPT ![hand[b]] = b] /\ held' = [held EXCEPT ![b] = TRUE]
      BY <2>3 DEF TypeOK
    <3>2. \A a \in Backends \ {b} : held[a] => cache[a] # hand[b]
      BY <2>1, <3>1 DEF PointersSound, TypeOK
    <3> QED
      BY <2>1, <3>1, <3>2 DEF PointersSound, RegisteredIsLive, Unusable, TypeOK, States, Null
  <2> QED
    BY <2>2, <2>3
<1>4. BuildsSound'
  BY DEF BuildsSound, PointersSound, LocksAgree, TypeOK, States, Null, NoEntry
<1>5. AreasSound'
  BY DEF AreasSound, BuildsSound, PointersSound, RegisteredIsLive, LocksAgree, LocksEndWithTransaction, TypeOK, States, Null, NoEntry
<1>6. PrivateAreaEnds'
  BY DEF PrivateAreaEnds, LocksAgree, TypeOK
<1>7. LocksEndWithTransaction'
  <2>1. hand[b] = cache[b] /\ rel[b] = "share"
    BY DEF PointersSound, LocksAgree, TypeOK
  <2>2. CASE hand[b] = Null
    BY <2>1, <2>2 DEF LocksEndWithTransaction, TypeOK
  <2>3. CASE hand[b] # Null
    BY <2>1, <2>3 DEF LocksEndWithTransaction, TypeOK
  <2> QED
    BY <2>2, <2>3
<1>8. HeldIsLive'
  <2>1. hand[b] = cache[b] /\ rel[b] = "share"
    BY DEF PointersSound, LocksAgree, TypeOK
  <2>2. catalog = "present" /\ \A a \in Backends : ~dropped[a]
    BY <2>1 DEF LocksAgree, TypeOK
  <2>3. CASE hand[b] = Null
    BY <2>3 DEF HeldIsLive, TypeOK
  <2>4. CASE hand[b] # Null
    <3>1. hand[b] \in States /\ lock' = [lock EXCEPT ![hand[b]] = b] /\ memory' = memory
      BY <2>4 DEF TypeOK
    <3>2. memory[hand[b]] = "live"
      BY <2>1, <2>2, <3>1 DEF PointersSound, Unusable, TypeOK
    <3> QED
      BY <3>1, <3>2 DEF HeldIsLive, TypeOK
  <2> QED
    BY <2>3, <2>4
<1> QED
  BY <1>1, <1>2, <1>3, <1>4, <1>5, <1>6, <1>7, <1>8

\* A build replaces the registered state.
LEMMA BuildStep == ASSUME Calm, IInv, NEW b \in Backends, Build(b) PROVE IInv'
<1> USE RegistryAssumption DEF Calm, IInv, shared, local, Build, MayLockExclusively, Fresh, Replaced
<1>1. TypeOK'
  BY DEF TypeOK, States, Null, NoEntry
<1>2. LocksAgree'
  BY DEF LocksAgree, TypeOK
<1>3. PointersSound'
  <2>1. PICK s \in States : memory[s] = "unused" /\ memory' = [memory EXCEPT ![s] = "live"]
                              /\ registry' = s /\ cache' = [cache EXCEPT ![b] = s]
    OBVIOUS
  <2>2. \A a \in Backends \ {b} : rel[a] = "none" /\ pc[a] = "idle" /\ ~held[a]
    BY DEF LocksAgree, TypeOK
  <2>3. catalog # "gone" /\ ~dropped[b]
    OBVIOUS
  <2>4. \A a \in Backends : ~dropped[a]
    BY <2>2, <2>3 DEF LocksAgree, TypeOK
  <2>5. \A a \in Backends : cache[a] \in States => memory[cache[a]] = "live"
    BY <2>3, <2>4 DEF PointersSound, Unusable, TypeOK
  <2> QED
    BY <2>1, <2>2, <2>5 DEF PointersSound, RegisteredIsLive, LocksAgree, TypeOK, Null, NoEntry
<1>4. BuildsSound'
  BY DEF BuildsSound, PointersSound, LocksAgree, TypeOK, States, Null, NoEntry
<1>5. AreasSound'
  BY DEF AreasSound, BuildsSound, PointersSound, RegisteredIsLive, LocksAgree, LocksEndWithTransaction, TypeOK, States, Null, NoEntry
<1>6. PrivateAreaEnds'
  BY DEF PrivateAreaEnds, LocksAgree, TypeOK
<1>7. LocksEndWithTransaction'
  BY DEF LocksEndWithTransaction, LocksAgree, PointersSound, TypeOK, States, Null, NoEntry
<1>8. HeldIsLive'
  BY DEF HeldIsLive, LocksEndWithTransaction, PointersSound, BuildsSound, LocksAgree, TypeOK, States, Null, NoEntry
<1> QED
  BY <1>1, <1>2, <1>3, <1>4, <1>5, <1>6, <1>7, <1>8

\* A parallel build leaves the shared state alone.
LEMMA BuildInParallelStep == ASSUME Calm, IInv, NEW b \in Backends, BuildInParallel(b) PROVE IInv'
<1> USE RegistryAssumption DEF Calm, IInv, shared, local, BuildInParallel, MayLockExclusively
<1>1. TypeOK'
  BY DEF TypeOK, States, Null, NoEntry
<1>2. LocksAgree'
  BY DEF LocksAgree, TypeOK
<1>3. PointersSound'
  BY DEF PointersSound, RegisteredIsLive, Unusable, LocksAgree, BuildsSound, LocksEndWithTransaction, TypeOK, States, Null, NoEntry
<1>4. BuildsSound'
  BY DEF BuildsSound, PointersSound, LocksAgree, TypeOK, States, Null, NoEntry
<1>5. AreasSound'
  BY DEF AreasSound, BuildsSound, PointersSound, RegisteredIsLive, LocksAgree, LocksEndWithTransaction, TypeOK, States, Null, NoEntry
<1>6. PrivateAreaEnds'
  BY DEF PrivateAreaEnds, LocksAgree, TypeOK
<1>7. LocksEndWithTransaction'
  BY DEF LocksEndWithTransaction, LocksAgree, PointersSound, TypeOK, States, Null, NoEntry
<1>8. HeldIsLive'
  BY DEF HeldIsLive, LocksEndWithTransaction, PointersSound, BuildsSound, LocksAgree, TypeOK, States, Null, NoEntry
<1> QED
  BY <1>1, <1>2, <1>3, <1>4, <1>5, <1>6, <1>7, <1>8

\* A finished build moves its memtable to the global area.
LEMMA FinishBuildStep == ASSUME Calm, IInv, NEW b \in Backends, FinishBuild(b) PROVE IInv'
<1> USE RegistryAssumption DEF Calm, IInv, shared, local, FinishBuild, Published
<1>1. TypeOK'
  BY DEF TypeOK, States, Null, NoEntry
<1>2. LocksAgree'
  BY DEF LocksAgree, TypeOK
<1>3. PointersSound'
  BY DEF PointersSound, RegisteredIsLive, Unusable, LocksAgree, BuildsSound, LocksEndWithTransaction, TypeOK, States, Null, NoEntry
<1>4. BuildsSound'
  BY DEF BuildsSound, PointersSound, LocksAgree, TypeOK, States, Null, NoEntry
<1>5. AreasSound'
  BY DEF AreasSound, BuildsSound, PointersSound, RegisteredIsLive, LocksAgree, LocksEndWithTransaction, TypeOK, States, Null, NoEntry
<1>6. PrivateAreaEnds'
  BY DEF PrivateAreaEnds, LocksAgree, TypeOK
<1>7. LocksEndWithTransaction'
  BY DEF LocksEndWithTransaction, LocksAgree, PointersSound, TypeOK, States, Null, NoEntry
<1>8. HeldIsLive'
  BY DEF HeldIsLive, LocksEndWithTransaction, PointersSound, BuildsSound, LocksAgree, TypeOK, States, Null, NoEntry
<1> QED
  BY <1>1, <1>2, <1>3, <1>4, <1>5, <1>6, <1>7, <1>8

\* A drop frees the registered state while all others are locked out.
LEMMA DropStep == ASSUME Calm, IInv, NEW b \in Backends, Drop(b) PROVE IInv'
<1> USE RegistryAssumption DEF Calm, IInv, shared, local, Drop, MayLockExclusively
<1>1. TypeOK'
  BY DEF TypeOK, States, Null, NoEntry
<1>2. LocksAgree'
  BY DEF LocksAgree, TypeOK
<1>3. PointersSound'
  BY DEF PointersSound, RegisteredIsLive, Unusable, LocksAgree, BuildsSound, LocksEndWithTransaction, TypeOK, States, Null, NoEntry
<1>4. BuildsSound'
  BY DEF BuildsSound, PointersSound, LocksAgree, TypeOK, States, Null, NoEntry
<1>5. AreasSound'
  BY DEF AreasSound, BuildsSound, PointersSound, RegisteredIsLive, LocksAgree, LocksEndWithTransaction, TypeOK, States, Null, NoEntry
<1>6. PrivateAreaEnds'
  BY DEF PrivateAreaEnds, LocksAgree, TypeOK
<1>7. LocksEndWithTransaction'
  BY DEF LocksEndWithTransaction, LocksAgree, PointersSound, TypeOK, States, Null, NoEntry
<1>8. HeldIsLive'
  BY DEF HeldIsLive, LocksEndWithTransaction, PointersSound, BuildsSound, LocksAgree, TypeOK, States, Null, NoEntry
<1> QED
  BY <1>1, <1>2, <1>3, <1>4, <1>5, <1>6, <1>7, <1>8

\* A commit releases what the local cache knows to be held.
LEMMA CommitStep == ASSUME Calm, IInv, NEW b \in Backends, Commit(b) PROVE IInv'
<1> USE RegistryAssumption DEF Calm, IInv, shared, local, Commit, FindsHeld
<1>1. TypeOK'
  BY DEF TypeOK, States, Null, NoEntry
<1>2. LocksAgree'
  BY DEF LocksAgree, TypeOK
<1>3. PointersSound'
  <2>1. Unusable => Unusable'
    BY DEF Unusable, LocksAgree, TypeOK
  <2>2. ASSUME NEW a \in Backends, held'[a]
        PROVE  cache[a] \in States /\ lock'[cache[a]] = a
    <3>1. a # b /\ held[a]
      BY <2>2 DEF TypeOK
    <3>2. cache[a] \in States /\ lock[cache[a]] = a
      BY <3>1 DEF PointersSound
    <3>3. ~FindsHeld(b, cache[a])
      BY <3>1, <3>2 DEF FindsHeld
    <3> QED
      BY <3>2, <3>3
  <2> QED
    BY <2>1, <2>2 DEF PointersSound, RegisteredIsLive, TypeOK
<1>4. BuildsSound'
  BY DEF BuildsSound, PointersSound, LocksAgree, TypeOK, States, Null, NoEntry
<1>5. AreasSound'
  BY DEF AreasSound, BuildsSound, PointersSound, RegisteredIsLive, LocksAgree, LocksEndWithTransaction, TypeOK, States, Null, NoEntry
<1>6. PrivateAreaEnds'
  BY DEF PrivateAreaEnds, LocksAgree, TypeOK
<1>7. LocksEndWithTransaction'
  BY DEF LocksEndWithTransaction, LocksAgree, PointersSound, TypeOK, States, Null, NoEntry
<1>8. HeldIsLive'
  BY DEF HeldIsLive, LocksEndWithTransaction, PointersSound, BuildsSound, LocksAgree, TypeOK, States, Null, NoEntry
<1> QED
  BY <1>1, <1>2, <1>3, <1>4, <1>5, <1>6, <1>7, <1>8

\* An abort takes a build apart.
LEMMA AbortStep == ASSUME Calm, IInv, NEW b \in Backends, Abort(b) PROVE IInv'
<1> USE RegistryAssumption DEF Calm, IInv, shared, local, Abort, RegistryAfterAbort, PrivateAfterAbort
<1>1. TypeOK'
  BY DEF TypeOK, States, Null, NoEntry
<1>2. LocksAgree'
  BY DEF LocksAgree, TypeOK
<1>3. PointersSound'
  BY DEF PointersSound, RegisteredIsLive, Unusable, LocksAgree, BuildsSound, LocksEndWithTransaction, TypeOK, States, Null, NoEntry
<1>4. BuildsSound'
  BY DEF BuildsSound, PointersSound, LocksAgree, TypeOK, States, Null, NoEntry
<1>5. AreasSound'
  BY DEF AreasSound, BuildsSound, PointersSound, RegisteredIsLive, LocksAgree, LocksEndWithTransaction, TypeOK, States, Null, NoEntry
<1>6. PrivateAreaEnds'
  BY DEF PrivateAreaEnds, LocksAgree, TypeOK
<1>7. LocksEndWithTransaction'
  BY DEF LocksEndWithTransaction, LocksAgree, PointersSound, TypeOK, States, Null, NoEntry
<1>8. HeldIsLive'
  BY DEF HeldIsLive, LocksEndWithTransaction, PointersSound, BuildsSound, LocksAgree, TypeOK, States, Null, NoEntry
<1> QED
  BY <1>1, <1>2, <1>3, <1>4, <1>5, <1>6, <1>7, <1>8

\* A new session has nothing cached.
LEMMA ReconnectStep == ASSUME Calm, IInv, NEW b \in Backends, Reconnect(b) PROVE IInv'
<1> USE RegistryAssumption DEF Calm, IInv, shared, local, Reconnect
<1>1. TypeOK'
  BY DEF TypeOK, States, Null, NoEntry
<1>2. LocksAgree'
  BY DEF LocksAgree, TypeOK
<1>3. PointersSound'
  BY DEF PointersSound, RegisteredIsLive, Unusable, LocksAgree, BuildsSound, LocksEndWithTransaction, TypeOK, States, Null, NoEntry
<1>4. BuildsSound'
  BY DEF BuildsSound, PointersSound, LocksAgree, TypeOK, States, Null, NoEntry
<1>5. AreasSound'
  BY DEF AreasSound, BuildsSound, PointersSound, RegisteredIsLive, LocksAgree, LocksEndWithTransaction, TypeOK, States, Null, NoEntry
<1>6. PrivateAreaEnds'
  BY DEF PrivateAreaEnds, LocksAgree, TypeOK
<1>7. LocksEndWithTransaction'
  BY DEF LocksEndWithTransaction, LocksAgree, PointersSound, TypeOK, States, Null, NoEntry
<1>8. HeldIsLive'
  BY DEF HeldIsLive, LocksEndWithTransaction, PointersSound, BuildsSound, LocksAgree, TypeOK, States, Null, NoEntry
<1> QED
  BY <1>1, <1>2, <1>3, <1>4, <1>5, <1>6, <1>7, <1>8

\* A restart is a new beginning, except that the index may exist.
LEMMA RestartStep == ASSUME IInv, Restart PROVE IInv'
<1> USE RegistryAssumption DEF IInv, Restart, States, Null, NoEntry
<1>1. TypeOK'
  BY DEF TypeOK
<1>2. LocksAgree' /\ PrivateAreaEnds'
  BY DEF LocksAgree, PrivateAreaEnds
<1>3. PointersSound' /\ BuildsSound'
  BY DEF PointersSound, RegisteredIsLive, BuildsSound
<1>4. AreasSound' /\ LocksEndWithTransaction' /\ HeldIsLive'
  BY DEF AreasSound, LocksEndWithTransaction, HeldIsLive
<1> QED
  BY <1>1, <1>2, <1>3, <1>4

\* Steps that change nothing.
LEMMA StutterStep == ASSUME IInv, UNCHANGED vars PROVE IInv'
BY DEF vars, IInv, TypeOK, LocksAgree, PointersSound, RegisteredIsLive, Unusable, BuildsSound, AreasSound,
       PrivateAreaEnds, LocksEndWithTransaction, HeldIsLive

\* Every step keeps the inductive invariant.
LEMMA NextStep == ASSUME Calm, IInv, [Next]_vars PROVE IInv'
<1>1. ASSUME NEW b \in Backends,
             Open(b) \/ Ask(b) \/ Attach(b) \/ Allocate(b) \/ Unregister(b) \/ Register(b) \/ Use(b)
      PROVE  IInv'
  BY <1>1, OpenStep, AskStep, AttachStep, AllocateStep, UnregisterStep, RegisterStep, UseStep
<1>2. ASSUME NEW b \in Backends,
             Build(b) \/ BuildInParallel(b) \/ FinishBuild(b) \/ Drop(b) \/ Commit(b) \/ Abort(b)
               \/ Reconnect(b)
      PROVE  IInv'
  BY <1>2, BuildStep, BuildInParallelStep, FinishBuildStep, DropStep, CommitStep, AbortStep, ReconnectStep
<1> QED
  BY <1>1, <1>2, RestartStep, StutterStep DEF Next

\* Whoever may use the index is alone with others who only use it.
LEMMA MayUseAlone == ASSUME IInv, NEW b \in Backends, MayUse(b)
                     PROVE  ~Unusable /\ \A a \in Backends : rel[a] # "exclusive" /\ ~building[a]
BY DEF IInv, MayUse, Unusable, LocksAgree, TypeOK

\* What the inductive invariant says of those who may use the index.
LEMMA IInvSafe == ASSUME IInv PROVE NoUseAfterFree /\ AreaAgrees
<1> USE RegistryAssumption DEF IInv, States, Null, NoEntry
<1>1. ASSUME NEW b \in Backends, MayUse(b)
      PROVE  /\ cache[b] \in States => memory[cache[b]] = "live"
             /\ hand[b] \in States /\ pc[b] # "idle" => memory[hand[b]] = "live"
  <2>1. ~Unusable /\ \A a \in Backends : rel[a] # "exclusive" /\ ~building[a]
    BY <1>1, MayUseAlone
  <2>2. cache[b] \in States => memory[cache[b]] = "live"
    BY <2>1 DEF TypeOK, PointersSound
  <2>3. pc[b] # "build"
    BY <2>1 DEF LocksAgree
  <2> QED
    BY <2>2, <2>3 DEF TypeOK, PointersSound
<1>2. NoUseAfterFree
  BY <1>1 DEF NoUseAfterFree
<1>3. ASSUME NEW b \in Backends, MayUse(b), NEW s \in States, memory[s] = "live"
      PROVE  memtable[s] = Nobody
  BY <1>3, MayUseAlone DEF AreasSound, TypeOK
<1>4. ASSUME NEW b \in Backends, building[b] PROVE memtable[cache[b]] = b /\ b \in private
  BY <1>4 DEF BuildsSound, PrivateAreaEnds, LocksAgree
<1>5. AreaAgrees
  BY <1>1, <1>3, <1>4 DEF AreaAgrees, PointersSound, RegisteredIsLive, TypeOK
<1> QED
  BY <1>2, <1>5

\* The variables keep their types.
THEOREM RegistryTyped == ASSUME Calm PROVE Spec => []TypeOK
<1>1. Init => IInv
  BY InitIInv
<1>2. IInv /\ [Next]_vars => IInv'
  BY NextStep
<1>3. IInv => TypeOK
  BY DEF IInv
<1> QED
  BY <1>1, <1>2, <1>3, PTL DEF Spec

\* No backend that may use the index points to a freed state.
THEOREM NothingFreedIsUsed == ASSUME Calm PROVE Spec => []NoUseAfterFree
<1>1. Init => IInv
  BY InitIInv
<1>2. IInv /\ [Next]_vars => IInv'
  BY NextStep
<1>3. IInv => NoUseAfterFree
  BY IInvSafe
<1> QED
  BY <1>1, <1>2, <1>3, PTL DEF Spec

\* Nobody follows a memtable pointer in an area it does not belong to.
THEOREM AreasNeverMixed == ASSUME Calm PROVE Spec => []AreaAgrees
<1>1. Init => IInv
  BY InitIInv
<1>2. IInv /\ [Next]_vars => IInv'
  BY NextStep
<1>3. IInv => AreaAgrees
  BY IInvSafe
<1> QED
  BY <1>1, <1>2, <1>3, PTL DEF Spec

\* The registry never leads to freed memory.
THEOREM RegistryLeadsToLive == ASSUME Calm PROVE Spec => []RegisteredIsLive
<1>1. Init => IInv
  BY InitIInv
<1>2. IInv /\ [Next]_vars => IInv'
  BY NextStep
<1>3. IInv => RegisteredIsLive
  BY DEF IInv, PointersSound
<1> QED
  BY <1>1, <1>2, <1>3, PTL DEF Spec

\* Every held index lock will be released by its transaction.
THEOREM LocksEnd == ASSUME Calm PROVE Spec => []LocksEndWithTransaction
<1>1. Init => IInv
  BY InitIInv
<1>2. IInv /\ [Next]_vars => IInv'
  BY NextStep
<1>3. IInv => LocksEndWithTransaction
  BY DEF IInv
<1> QED
  BY <1>1, <1>2, <1>3, PTL DEF Spec

\* An area that no other session can reach ends with its creator's build, so
\* none is left behind.
THEOREM PrivateAreasEnd == ASSUME Calm PROVE Spec => []PrivateAreaEnds
<1>1. Init => IInv
  BY InitIInv
<1>2. IInv /\ [Next]_vars => IInv'
  BY NextStep
<1>3. IInv => PrivateAreaEnds
  BY DEF IInv
<1> QED
  BY <1>1, <1>2, <1>3, PTL DEF Spec

=============================================================================
