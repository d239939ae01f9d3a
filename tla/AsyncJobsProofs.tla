--------------------------- MODULE AsyncJobsProofs ---------------------------
(***************************************************************************)
(* Safety of AsyncJobs for any number of requests and workers, with every  *)
(* fault: the invariants, the action property and the refinement of        *)
(* JobPromise, all from the inductive invariant IInv.                      *)
(***************************************************************************)
EXTENDS AsyncJobs, TLAPS

\* The initial states satisfy the inductive invariant: nothing is submitted.
LEMMA InitIInv == Init => IInv
<1> SUFFICES ASSUME Init PROVE IInv
  OBVIOUS
<1>1. TypeOK
  BY DEF Init, TypeOK, Statuses, RowStates, TaskStates
<1>2. LockedByClaim
  BY WorkersAssumption DEF Init, LockedByClaim
<1>3. HandlesTaken
  BY DEF Init, HandlesTaken
<1>4. PendingUntilHandled
  BY DEF Init, PendingUntilHandled
<1>5. NotifiedOnce
  BY DEF Init, NotifiedOnce
<1>6. IngestAtomic
  BY DEF Init, IngestAtomic
<1> QED
  BY <1>1, <1>2, <1>3, <1>4, <1>5, <1>6 DEF IInv

\* Every step of a client, a worker or a fault keeps the types.
LEMMA TypeStep == TypeOK /\ [Next]_vars => TypeOK'
<1> SUFFICES ASSUME TypeOK, [Next]_vars PROVE TypeOK'
  OBVIOUS
<1> USE DEF TypeOK, Ops, EventTypes, Statuses, RowStates, TaskStates
<1>1. ASSUME NEW r \in Requests, NEW e \in EventTypes, Submit(r, e) PROVE TypeOK'
  BY <1>1 DEF Submit
<1>2. ASSUME NEW r \in Requests, EmbedAsync(r) PROVE TypeOK'
  BY <1>2 DEF EmbedAsync
<1>3. ASSUME NEW r \in Requests, Expire(r) PROVE TypeOK'
  BY <1>3 DEF Expire
<1>4. ASSUME NEW w \in Workers, Connect(w) \/ Disconnect(w) PROVE TypeOK'
  BY <1>4 DEF Connect, Disconnect
<1>5. ASSUME NEW w \in Workers, Crash(w) PROVE TypeOK'
  BY <1>5 DEF Crash
<1>6. ASSUME NEW w \in Workers, NEW r \in Requests, Receive(w, r) PROVE TypeOK'
  BY <1>6 DEF Receive
<1>7. ASSUME NEW w \in Workers, NEW r \in Requests,
             ClaimLock(w, r) \/ ClaimNothing(w, r) \/ ClaimCommit(w, r) \/ ClaimFails(w, r)
      PROVE  TypeOK'
  <2>1. CASE ClaimLock(w, r)
    BY <2>1 DEF ClaimLock
  <2>2. CASE ClaimNothing(w, r)
    BY <2>2 DEF ClaimNothing
  <2>3. CASE ClaimCommit(w, r)
    BY <2>3 DEF ClaimCommit
  <2>4. CASE ClaimFails(w, r)
    BY <2>4 DEF ClaimFails
  <2> QED
    BY <1>7, <2>1, <2>2, <2>3, <2>4
<1>8. ASSUME NEW w \in Workers, NEW r \in Requests, Store(w, r) \/ StoreAckLost(w, r)
      PROVE  TypeOK'
  <2>1. Outcome(r) /\ UNCHANGED <<op, overdue, outbox, rowLock, listening, inbox>>
    BY <1>8 DEF Store, StoreAckLost
  <2>2. PICK s \in {"ended", "fail"} : task' = [task EXCEPT ![w][r] = s]
    BY <1>8 DEF Store, StoreAckLost
  <2>3. status' \in [Requests -> Statuses] /\ stored' \in [Requests -> Nat]
    <3>1. status' = [status EXCEPT ![r] = "done"]
      BY <2>1 DEF Outcome
    <3>2. stored' = [stored EXCEPT ![r] = @ + 1] \/ stored' = stored
      BY <2>1 DEF Outcome
    <3> QED
      BY <3>1, <3>2
  <2>4. task' \in [Workers -> [Requests -> TaskStates]]
    BY <2>2
  <2> QED
    BY <2>1, <2>3, <2>4
<1>9. ASSUME NEW w \in Workers, NEW r \in Requests,
             HandlerFails(w, r) \/ MarkError(w, r) \/ MarkErrorFails(w, r)
      PROVE  TypeOK'
  <2>1. CASE HandlerFails(w, r)
    BY <2>1 DEF HandlerFails
  <2>2. CASE MarkError(w, r)
    BY <2>2 DEF MarkError
  <2>3. CASE MarkErrorFails(w, r)
    BY <2>3 DEF MarkErrorFails
  <2> QED
    BY <1>9, <2>1, <2>2, <2>3
<1>10. CASE UNCHANGED vars
  BY <1>10 DEF vars
<1> QED
  BY <1>1, <1>2, <1>3, <1>4, <1>5, <1>6, <1>7, <1>8, <1>9, <1>10
  DEF Next, TaskStep, TaskFault

-----------------------------------------------------------------------------

\* What an update of one task leaves and changes, entry by entry.
LEMMA TaskUpdate ==
    ASSUME TypeOK, NEW w \in Workers, NEW r \in Requests, NEW s,
           task' = [task EXCEPT ![w][r] = s]
    PROVE  \A v \in Workers, q \in Requests :
               task'[v][q] = IF v = w /\ q = r THEN s ELSE task[v][q]
BY DEF TypeOK

\* The rest of the inductive invariant; TypeStep takes care of TypeOK.
Relations ==
    LockedByClaim /\ HandlesTaken /\ PendingUntilHandled /\ NotifiedOnce /\ IngestAtomic

\* Steps of the clients: a fresh request has neither a lock nor a task past
\* the claim, because its outbox row did not exist.
LEMMA ClientStep ==
    ASSUME IInv, NEW r \in Requests,
           (\E e \in EventTypes : Submit(r, e)) \/ EmbedAsync(r) \/ Expire(r)
    PROVE  Relations'
<1> USE DEF IInv, TypeOK
<1>1. ASSUME NEW e \in EventTypes, Submit(r, e) PROVE Relations'
  <2>1. LockedByClaim'
    BY <1>1, WorkersAssumption DEF Submit, LockedByClaim, PendingUntilHandled
  <2>2. HandlesTaken'
    BY <1>1 DEF Submit, HandlesTaken, PendingUntilHandled
  <2>3. PendingUntilHandled'
    BY <1>1 DEF Submit, PendingUntilHandled
  <2>4. NotifiedOnce'
    BY <1>1 DEF Submit, NotifiedOnce
  <2>5. IngestAtomic'
    BY <1>1 DEF Submit, IngestAtomic
  <2> QED
    BY <2>1, <2>2, <2>3, <2>4, <2>5 DEF Relations
<1>2. CASE EmbedAsync(r)
  <2>1. LockedByClaim' /\ HandlesTaken' /\ NotifiedOnce'
    BY <1>2 DEF EmbedAsync, LockedByClaim, HandlesTaken, NotifiedOnce
  <2>2. PendingUntilHandled'
    BY <1>2 DEF EmbedAsync, PendingUntilHandled, HandlesTaken
  <2>3. IngestAtomic'
    BY <1>2 DEF EmbedAsync, IngestAtomic
  <2> QED
    BY <2>1, <2>2, <2>3 DEF Relations
<1>3. CASE Expire(r)
  BY <1>3 DEF Expire, Relations, LockedByClaim, HandlesTaken, PendingUntilHandled,
              NotifiedOnce, IngestAtomic
<1> QED
  BY <1>1, <1>2, <1>3

\* Steps of the LISTEN loop and of a crash: tasks disappear, locks with them.
LEMMA LoopStep ==
    ASSUME IInv, NEW w \in Workers, Connect(w) \/ Disconnect(w) \/ Crash(w)
    PROVE  Relations'
<1> USE DEF IInv, TypeOK
<1>1. CASE Connect(w) \/ Disconnect(w)
  BY <1>1 DEF Connect, Disconnect, Relations, LockedByClaim, HandlesTaken,
              PendingUntilHandled, NotifiedOnce, IngestAtomic
<1>2. CASE Crash(w)
  <2>1. LockedByClaim'
    BY <1>2, WorkersAssumption DEF Crash, LockedByClaim
  <2>2. HandlesTaken'
    BY <1>2 DEF Crash, HandlesTaken
  <2>3. PendingUntilHandled' /\ NotifiedOnce'
    BY <1>2 DEF Crash, PendingUntilHandled, NotifiedOnce
  <2>4. IngestAtomic'
    BY <1>2 DEF Crash, IngestAtomic
  <2> QED
    BY <2>1, <2>2, <2>3, <2>4 DEF Relations
<1> QED
  BY <1>1, <1>2

\* Steps that change one task and nothing in the tables: a notification is
\* read, a claim finds nothing, a handler raises, an error is not reported.
LEMMA TaskOnlyStep ==
    ASSUME IInv, NEW w \in Workers, NEW r \in Requests,
           \/ Receive(w, r) \/ ClaimNothing(w, r)
           \/ HandlerFails(w, r) \/ MarkErrorFails(w, r)
    PROVE  Relations'
<1> USE DEF IInv, TypeOK
<1>1. PICK s \in {"claim", "fail", "ended"} :
        /\ task' = [task EXCEPT ![w][r] = s]
        /\ s = "fail" => task[w][r] = "handle"
  BY DEF Receive, ClaimNothing, HandlerFails, MarkErrorFails
<1>2. UNCHANGED <<op, status, outbox, rowLock, stored>>
  BY DEF Receive, ClaimNothing, HandlerFails, MarkErrorFails
<1>3. /\ task[w][r] # "locked"
      /\ task[w][r] = "none" => r \in inbox[w]
      /\ r \notin inbox'[w]
      /\ \A v \in Workers, q \in Requests : q \in inbox'[v] => q \in inbox[v]
  BY DEF Receive, ClaimNothing, HandlerFails, MarkErrorFails, NotifiedOnce
<1>4. \A v \in Workers, q \in Requests :
          task'[v][q] = IF v = w /\ q = r THEN s ELSE task[v][q]
  BY <1>1, TaskUpdate
<1>5. LockedByClaim'
  BY <1>2, <1>3, <1>4, WorkersAssumption DEF LockedByClaim
<1>6. HandlesTaken'
  BY <1>1, <1>2, <1>4 DEF HandlesTaken
<1>7. PendingUntilHandled'
  BY <1>2, <1>4 DEF PendingUntilHandled
<1>8. NotifiedOnce'
  BY <1>2, <1>3, <1>4 DEF NotifiedOnce
<1>9. IngestAtomic'
  BY <1>2 DEF IngestAtomic
<1> QED
  BY <1>5, <1>6, <1>7, <1>8, <1>9 DEF Relations

\* The claim takes the row's lock: SKIP LOCKED kept every other claim out.
LEMMA ClaimLockStep ==
    ASSUME IInv, NEW w \in Workers, NEW r \in Requests, ClaimLock(w, r)
    PROVE  Relations'
<1> USE DEF IInv, TypeOK
<1>1. \A v \in Workers, q \in Requests :
          task'[v][q] = IF v = w /\ q = r THEN "locked" ELSE task[v][q]
  BY TaskUpdate DEF ClaimLock
<1>2. LockedByClaim'
  BY <1>1, WorkersAssumption DEF ClaimLock, Claimable, LockedByClaim
<1>3. HandlesTaken'
  BY <1>1 DEF ClaimLock, HandlesTaken
<1>4. PendingUntilHandled'
  BY <1>1 DEF ClaimLock, PendingUntilHandled
<1>5. NotifiedOnce'
  BY <1>1 DEF ClaimLock, NotifiedOnce
<1>6. IngestAtomic'
  BY DEF ClaimLock, IngestAtomic
<1> QED
  BY <1>2, <1>3, <1>4, <1>5, <1>6 DEF Relations

\* The claim commits.  Nobody else is past the claim, because the row was
\* still queued while it was locked.
LEMMA ClaimCommitStep ==
    ASSUME IInv, NEW w \in Workers, NEW r \in Requests, ClaimCommit(w, r)
    PROVE  Relations'
<1> USE DEF IInv, TypeOK
<1>1. \A v \in Workers, q \in Requests :
          task'[v][q] = IF v = w /\ q = r THEN "handle" ELSE task[v][q]
  BY TaskUpdate DEF ClaimCommit
<1>2. task[w][r] = "locked" /\ rowLock[r] = w /\ outbox[r] = "queued" /\ status[r] = "pending"
  BY WorkersAssumption DEF ClaimCommit, LockedByClaim, PendingUntilHandled
<1>3. LockedByClaim'
  BY <1>1, <1>2, WorkersAssumption DEF ClaimCommit, LockedByClaim
<1>4. HandlesTaken'
  BY <1>1, <1>2 DEF ClaimCommit, HandlesTaken
<1>5. PendingUntilHandled'
  BY <1>1, <1>2 DEF ClaimCommit, PendingUntilHandled
<1>6. NotifiedOnce'
  BY <1>1, <1>2 DEF ClaimCommit, NotifiedOnce
<1>7. IngestAtomic'
  BY DEF ClaimCommit, IngestAtomic
<1> QED
  BY <1>3, <1>4, <1>5, <1>6, <1>7 DEF Relations

\* A claim fails: its task ends, its lock goes, the row may be taken for good.
LEMMA ClaimFailsStep ==
    ASSUME IInv, NEW w \in Workers, NEW r \in Requests, ClaimFails(w, r)
    PROVE  Relations'
<1> USE DEF IInv, TypeOK
<1>1. \A v \in Workers, q \in Requests :
          task'[v][q] = IF v = w /\ q = r THEN "ended" ELSE task[v][q]
  BY TaskUpdate DEF ClaimFails
<1>2. UNCHANGED <<op, status, inbox, stored>> /\ task[w][r] \in {"claim", "locked"}
  BY DEF ClaimFails
<1>3. CASE task[w][r] = "claim"
  <2>1. UNCHANGED <<outbox, rowLock>>
    BY <1>3 DEF ClaimFails
  <2>2. LockedByClaim'
    BY <1>1, <1>3, <2>1, WorkersAssumption DEF LockedByClaim
  <2>3. HandlesTaken'
    BY <1>1, <2>1 DEF HandlesTaken
  <2>4. PendingUntilHandled'
    BY <1>1, <1>2, <2>1 DEF PendingUntilHandled
  <2>5. NotifiedOnce' /\ IngestAtomic'
    BY <1>1, <1>2, <1>3 DEF NotifiedOnce, IngestAtomic
  <2> QED
    BY <2>2, <2>3, <2>4, <2>5 DEF Relations
<1>4. CASE task[w][r] = "locked"
  <2>1. /\ outbox' = outbox \/ outbox' = [outbox EXCEPT ![r] = "taken"]
        /\ rowLock' = [rowLock EXCEPT ![r] = NoWorker]
    BY <1>4 DEF ClaimFails
  <2>2. rowLock[r] = w /\ outbox[r] = "queued" /\ status[r] = "pending"
    BY <1>4, WorkersAssumption DEF LockedByClaim, PendingUntilHandled
  <2>3. LockedByClaim'
    BY <1>1, <2>1, <2>2, WorkersAssumption DEF LockedByClaim
  <2>4. HandlesTaken'
    BY <1>1, <2>1, <2>2 DEF HandlesTaken
  <2>5. PendingUntilHandled'
    BY <1>1, <1>2, <2>1, <2>2 DEF PendingUntilHandled
  <2>6. NotifiedOnce' /\ IngestAtomic'
    BY <1>1, <1>2, <2>2 DEF NotifiedOnce, IngestAtomic
  <2> QED
    BY <2>3, <2>4, <2>5, <2>6 DEF Relations
<1> QED
  BY <1>2, <1>3, <1>4

\* Nothing is stored for a request that has no outcome yet.
LEMMA ZeroWhilePending ==
    ASSUME TypeOK, IngestAtomic, NEW r \in Requests, status[r] = "pending"
    PROVE  stored[r] = 0
<1>1. stored[r] \in Nat
  BY DEF TypeOK
<1>2. stored[r] <= 1 /\ stored[r] # 1
  BY DEF IngestAtomic
<1>3. \A n \in Nat : n <= 1 /\ n # 1 => n = 0
  OBVIOUS
<1> QED
  BY <1>1, <1>2, <1>3

\* The outcome is written, acknowledged or not, by the only task that is past
\* the claim, to a request that is still pending.
LEMMA OutcomeStep ==
    ASSUME IInv, NEW w \in Workers, NEW r \in Requests, Store(w, r) \/ StoreAckLost(w, r)
    PROVE  Relations'
<1> USE DEF IInv, TypeOK
<1>1. PICK s \in {"ended", "fail"} : task' = [task EXCEPT ![w][r] = s]
  BY DEF Store, StoreAckLost
<1>2. \A v \in Workers, q \in Requests :
          task'[v][q] = IF v = w /\ q = r THEN s ELSE task[v][q]
  BY <1>1, TaskUpdate
<1>3. /\ task[w][r] = "handle"
      /\ UNCHANGED <<op, outbox, rowLock, inbox>>
      /\ status' = [status EXCEPT ![r] = "done"]
      /\ stored' = IF op[r] = "ingest" THEN [stored EXCEPT ![r] = @ + 1] ELSE stored
  BY DEF Store, StoreAckLost, Outcome
<1>4. outbox[r] = "taken" /\ status[r] = "pending" /\ stored[r] = 0
  BY <1>3, ZeroWhilePending DEF HandlesTaken, PendingUntilHandled
<1>5. LockedByClaim'
  BY <1>2, <1>3, WorkersAssumption DEF LockedByClaim
<1>6. HandlesTaken'
  BY <1>2, <1>3 DEF HandlesTaken
<1>7. PendingUntilHandled'
  BY <1>2, <1>3, <1>4 DEF PendingUntilHandled, HandlesTaken
<1>8. NotifiedOnce'
  BY <1>2, <1>3, <1>4 DEF NotifiedOnce
<1>9. IngestAtomic'
  BY <1>3, <1>4 DEF IngestAtomic
<1> QED
  BY <1>5, <1>6, <1>7, <1>8, <1>9 DEF Relations

\* _mark_error overwrites whatever status its own handler left.
LEMMA MarkErrorStep ==
    ASSUME IInv, NEW w \in Workers, NEW r \in Requests, MarkError(w, r)
    PROVE  Relations'
<1> USE DEF IInv, TypeOK
<1>1. \A v \in Workers, q \in Requests :
          task'[v][q] = IF v = w /\ q = r THEN "ended" ELSE task[v][q]
  BY TaskUpdate DEF MarkError
<1>2. outbox[r] = "taken" /\ status[r] # "absent"
  BY DEF MarkError, HandlesTaken, PendingUntilHandled
<1>3. LockedByClaim'
  BY <1>1, WorkersAssumption DEF MarkError, LockedByClaim
<1>4. HandlesTaken'
  BY <1>1 DEF MarkError, HandlesTaken
<1>5. PendingUntilHandled'
  BY <1>1, <1>2 DEF MarkError, PendingUntilHandled, HandlesTaken
<1>6. NotifiedOnce'
  BY <1>1, <1>2 DEF MarkError, NotifiedOnce
<1>7. IngestAtomic'
  BY <1>2 DEF MarkError, IngestAtomic
<1> QED
  BY <1>3, <1>4, <1>5, <1>6, <1>7 DEF Relations

-----------------------------------------------------------------------------

\* IInv is inductive.
LEMMA StepIInv == IInv /\ [Next]_vars => IInv'
<1> SUFFICES ASSUME IInv, [Next]_vars PROVE IInv'
  OBVIOUS
<1>1. TypeOK'
  BY TypeStep DEF IInv
<1>2. Relations'
  <2>1. CASE UNCHANGED vars
    BY <2>1 DEF vars, IInv, Relations, LockedByClaim, HandlesTaken, PendingUntilHandled,
                NotifiedOnce, IngestAtomic
  <2>2. CASE Next
    BY <2>2, ClientStep, LoopStep, TaskOnlyStep, ClaimLockStep, ClaimCommitStep,
       ClaimFailsStep, OutcomeStep, MarkErrorStep
    DEF Next, TaskStep, TaskFault
  <2> QED
    BY <2>1, <2>2
<1> QED
  BY <1>1, <1>2 DEF IInv, Relations

\* Every reachable state satisfies IInv.
THEOREM Inductive == Spec => []IInv
<1>1. Init => IInv
  BY InitIInv
<1>2. IInv /\ [Next]_vars => IInv'
  BY StepIInv
<1> QED
  BY <1>1, <1>2, PTL DEF Spec

\* The variables keep their types.
THEOREM TypeCorrect == Spec => []TypeOK
<1>1. IInv => TypeOK
  BY DEF IInv
<1> QED
  BY <1>1, Inductive, PTL

\* At most one task is past the claim of a request, whatever fails.
THEOREM OneHandlerAlways == Spec => []OneHandler
<1>1. IInv => OneHandler
  BY WorkersAssumption DEF IInv, TypeOK, OneHandler, Handlers, HandlesTaken, LockedByClaim
<1> QED
  BY <1>1, Inductive, PTL

\* A document is stored with the status done, and at most once.
THEOREM IngestAtomicAlways == Spec => []IngestAtomic
<1>1. IInv => IngestAtomic
  BY DEF IInv
<1> QED
  BY <1>1, Inductive, PTL

-----------------------------------------------------------------------------

\* The statuses and stored documents a step may change: those of one request,
\* as the promise allows.
Promised(r) == Promise!Submit(r) \/ Promise!Succeed(r) \/ Promise!Fail(r) \/ Promise!Revise(r)

\* Each step of the workers, the clients or a fault submits, answers or
\* revises one request, or changes nothing a polling client can see.
LEMMA PromiseStep ==
    ASSUME IInv, [Next]_vars
    PROVE  (\E r \in Requests : Promised(r)) \/ UNCHANGED <<status, stored>>
<1> USE DEF IInv, TypeOK
<1>1. ASSUME NEW r \in Requests, NEW e \in EventTypes, Submit(r, e) PROVE Promised(r)
  BY <1>1 DEF Submit, Promised, Promise!Submit
<1>2. ASSUME NEW r \in Requests, EmbedAsync(r) PROVE Promised(r)
  BY <1>2 DEF EmbedAsync, Promised, Promise!Submit
<1>3. ASSUME NEW w \in Workers, NEW r \in Requests, Store(w, r) \/ StoreAckLost(w, r)
      PROVE  Promised(r)
  <2>1. /\ task[w][r] = "handle"
        /\ status' = [status EXCEPT ![r] = "done"]
        /\ stored' = IF op[r] = "ingest" THEN [stored EXCEPT ![r] = @ + 1] ELSE stored
    BY <1>3 DEF Store, StoreAckLost, Outcome
  <2>2. status[r] = "pending"
    BY <2>1 DEF PendingUntilHandled
  <2>3. stored[r] = 0
    BY <2>2, ZeroWhilePending
  <2>4. stored' = [stored EXCEPT ![r] = 1] \/ stored' = [stored EXCEPT ![r] = 0]
    <3>1. CASE op[r] = "ingest"
      <4>1. stored' = [stored EXCEPT ![r] = stored[r] + 1]
        BY <2>1, <3>1
      <4> QED
        BY <2>3, <4>1
    <3>2. CASE op[r] # "ingest"
      BY <2>1, <2>3, <3>2
    <3> QED
      BY <3>1, <3>2
  <2> QED
    BY <2>1, <2>2, <2>4 DEF Promised, Promise!Succeed
<1>4. ASSUME NEW w \in Workers, NEW r \in Requests, MarkError(w, r)
      PROVE  Promised(r) \/ UNCHANGED <<status, stored>>
  <2>1. status[r] \in {"pending", "done", "error"}
    BY <1>4 DEF MarkError, HandlesTaken, PendingUntilHandled, Statuses
  <2>2. status' = [status EXCEPT ![r] = "error"] /\ stored' = stored
    BY <1>4 DEF MarkError
  <2>3. CASE status[r] = "error"
    BY <2>2, <2>3
  <2>4. CASE status[r] # "error"
    BY <2>1, <2>2, <2>4 DEF Promised, Promise!Fail, Promise!Revise
  <2> QED
    BY <2>3, <2>4
<1>5. CASE UNCHANGED vars
  BY <1>5 DEF vars
<1>6. CASE Next
  <2>1. ASSUME NEW r \in Requests, Expire(r) PROVE UNCHANGED <<status, stored>>
    BY <2>1 DEF Expire
  <2>2. ASSUME NEW w \in Workers, Connect(w) \/ Disconnect(w) \/ Crash(w)
        PROVE  UNCHANGED <<status, stored>>
    BY <2>2 DEF Connect, Disconnect, Crash
  <2>3. ASSUME NEW w \in Workers, NEW r \in Requests,
               \/ Receive(w, r) \/ ClaimLock(w, r) \/ ClaimNothing(w, r)
               \/ ClaimCommit(w, r) \/ ClaimFails(w, r)
               \/ HandlerFails(w, r) \/ MarkErrorFails(w, r)
        PROVE  UNCHANGED <<status, stored>>
    BY <2>3 DEF Receive, ClaimLock, ClaimNothing, ClaimCommit, ClaimFails,
                HandlerFails, MarkErrorFails
  <2> QED
    BY <1>1, <1>2, <1>3, <1>4, <1>6, <2>1, <2>2, <2>3 DEF Next, TaskStep, TaskFault
<1> QED
  BY <1>5, <1>6

\* An error stays an error; a success becomes at most an error.
THEOREM OutcomeIsFinalAlways == Spec => OutcomeIsFinal
<1> DEFINE Final == \A r \in Requests :
                        /\ status[r] = "error" => status'[r] = "error"
                        /\ status[r] = "done"  => status'[r] \in {"done", "error"}
<1>1. IInv /\ [Next]_vars => [Final]_vars
  <2> SUFFICES ASSUME IInv, [Next]_vars PROVE Final
    OBVIOUS
  <2>1. CASE UNCHANGED <<status, stored>>
    BY <2>1
  <2>2. CASE \E r \in Requests : Promised(r)
    BY <2>2 DEF IInv, TypeOK, Promised, Promise!Submit, Promise!Succeed, Promise!Fail,
                Promise!Revise
  <2> QED
    BY <2>1, <2>2, PromiseStep
<1>2. Spec => [][Final]_vars
  BY <1>1, Inductive, PTL DEF Spec
<1> QED
  BY <1>2 DEF OutcomeIsFinal

\* The jobs implement what ai.results promises to its clients.
THEOREM Refinement == Spec => PromiseKept
<1>1. Init => Promise!Init
  BY DEF Init, Promise!Init
<1>2. IInv /\ [Next]_vars => [Promise!Next]_(Promise!vars)
  BY PromiseStep DEF Promised, Promise!Next, Promise!vars
<1> QED
  BY <1>1, <1>2, Inductive, PTL DEF Spec, PromiseKept, Promise!Spec

-----------------------------------------------------------------------------
(* Without faults. *)

\* A task that is about to report an error has stored nothing: only a lost
\* acknowledgement leaves an outcome and an exception.
FailedUnanswered ==
    \A r \in Requests, w \in Workers : task[w][r] = "fail" => status[r] = "pending"

Answered == NothingAbandoned /\ ErrorStoresNothing /\ FailedUnanswered

\* A claimed request that is still pending keeps its handler, and what is
\* reported in error was never stored.
LEMMA AnsweredStep ==
    ASSUME ~Faults, IInv, Answered, [Next]_vars
    PROVE  Answered'
<1> USE DEF IInv, TypeOK, Handlers, NothingAbandoned, ErrorStoresNothing, FailedUnanswered
<1>1. ASSUME NEW r \in Requests, NEW e \in EventTypes, Submit(r, e) PROVE Answered'
  <2>1. \A w \in Workers : task[w][r] = "none"
    BY <1>1 DEF Submit, NotifiedOnce
  <2> QED
    BY <1>1, <2>1 DEF Submit, Answered
<1>2. ASSUME NEW r \in Requests, EmbedAsync(r) PROVE Answered'
  BY <1>2 DEF EmbedAsync, Answered, PendingUntilHandled
<1>3. ASSUME NEW w \in Workers, NEW r \in Requests, ClaimCommit(w, r) PROVE Answered'
  <2>1. \A v \in Workers, q \in Requests :
            task'[v][q] = IF v = w /\ q = r THEN "handle" ELSE task[v][q]
    BY <1>3, TaskUpdate DEF ClaimCommit
  <2> QED
    BY <1>3, <2>1 DEF ClaimCommit, Answered
<1>4. ASSUME NEW w \in Workers, NEW r \in Requests, Store(w, r) PROVE Answered'
  <2>1. \A v \in Workers, q \in Requests :
            task'[v][q] = IF v = w /\ q = r THEN "ended" ELSE task[v][q]
    BY <1>4, TaskUpdate DEF Store
  <2>2. /\ UNCHANGED outbox /\ status' = [status EXCEPT ![r] = "done"]
        /\ \A q \in Requests : q # r => stored'[q] = stored[q]
    BY <1>4 DEF Store, Outcome
  <2>3. NothingAbandoned'
    BY <2>1, <2>2 DEF Answered
  <2>4. ErrorStoresNothing'
    BY <2>2 DEF Answered
  <2>5. \A v \in Workers : task[v][r] # "fail"
    BY <1>4 DEF Store, HandlesTaken
  <2>6. FailedUnanswered'
    BY <2>1, <2>2, <2>5 DEF Answered
  <2> QED
    BY <2>3, <2>4, <2>6 DEF Answered
<1>5. ASSUME NEW w \in Workers, NEW r \in Requests, HandlerFails(w, r) PROVE Answered'
  <2>1. \A v \in Workers, q \in Requests :
            task'[v][q] = IF v = w /\ q = r THEN "fail" ELSE task[v][q]
    BY <1>5, TaskUpdate DEF HandlerFails
  <2>2. status[r] = "pending"
    BY <1>5 DEF HandlerFails, PendingUntilHandled
  <2> QED
    BY <1>5, <2>1, <2>2 DEF HandlerFails, Answered
<1>6. ASSUME NEW w \in Workers, NEW r \in Requests, MarkError(w, r) PROVE Answered'
  <2>1. \A v \in Workers, q \in Requests :
            task'[v][q] = IF v = w /\ q = r THEN "ended" ELSE task[v][q]
    BY <1>6, TaskUpdate DEF MarkError
  <2>2. stored[r] = 0
    BY <1>6, ZeroWhilePending DEF MarkError, Answered
  <2>3. \A v \in Workers : task[v][r] = "fail" => v = w
    BY <1>6 DEF MarkError, HandlesTaken
  <2> QED
    BY <1>6, <2>1, <2>2, <2>3 DEF MarkError, Answered
<1>7. ASSUME NEW w \in Workers, NEW r \in Requests,
             Receive(w, r) \/ ClaimLock(w, r) \/ ClaimNothing(w, r)
      PROVE  Answered'
  <2>1. PICK s \in {"claim", "locked", "ended"} : task' = [task EXCEPT ![w][r] = s]
    BY <1>7 DEF Receive, ClaimLock, ClaimNothing
  <2>2. \A v \in Workers, q \in Requests :
            task'[v][q] = IF v = w /\ q = r THEN s ELSE task[v][q]
    BY <2>1, TaskUpdate
  <2>3. task[w][r] \notin {"handle", "fail"} /\ UNCHANGED <<outbox, status, stored>>
    BY <1>7 DEF Receive, ClaimLock, ClaimNothing, NotifiedOnce
  <2>4. \A v \in Workers, q \in Requests :
            /\ task[v][q] \in {"handle", "fail"} => task'[v][q] = task[v][q]
            /\ task'[v][q] = "fail" => task[v][q] = "fail"
    BY <2>2, <2>3
  <2>5. NothingAbandoned'
    BY <2>3, <2>4 DEF Answered, NothingAbandoned, Handlers
  <2>6. ErrorStoresNothing'
    BY <2>3 DEF Answered, ErrorStoresNothing
  <2>7. FailedUnanswered'
    BY <2>3, <2>4 DEF Answered, FailedUnanswered
  <2> QED
    BY <2>5, <2>6, <2>7 DEF Answered
<1>8. CASE UNCHANGED <<outbox, status, stored, task>>
  BY <1>8 DEF Answered
<1>9. ASSUME NEW r \in Requests, Expire(r) PROVE Answered'
  BY <1>8, <1>9 DEF Expire
<1>10. ASSUME NEW w \in Workers, Connect(w) PROVE Answered'
  BY <1>8, <1>10 DEF Connect
<1>11. CASE UNCHANGED vars
  BY <1>8, <1>11 DEF vars
<1> QED
  BY <1>1, <1>2, <1>3, <1>4, <1>5, <1>6, <1>7, <1>9, <1>10, <1>11
  DEF Next, TaskStep, TaskFault, Disconnect, Crash, ClaimFails, StoreAckLost, MarkErrorFails

\* So without faults IInv and Answered hold together.
LEMMA CalmInductive == ASSUME ~Faults PROVE Spec => [](IInv /\ Answered)
<1>1. Init => Answered
  BY DEF Init, Answered, NothingAbandoned, ErrorStoresNothing, FailedUnanswered, Handlers
<1> QED
  BY <1>1, InitIInv, StepIInv, AnsweredStep, PTL DEF Spec

\* As long as nothing fails, whoever claims a request answers it: a taken row
\* of a pending request has a task that works on it (process_event).
THEOREM NothingAbandonedCalm == ASSUME ~Faults PROVE Spec => []NothingAbandoned
<1>1. IInv /\ Answered => NothingAbandoned
  BY DEF Answered
<1> QED
  BY <1>1, CalmInductive, PTL

\* As long as nothing fails, an ingest reported in error has left no document
\* (store_chunks, _mark_error).
THEOREM ErrorStoresNothingCalm == ASSUME ~Faults PROVE Spec => []ErrorStoresNothing
<1>1. IInv /\ Answered => ErrorStoresNothing
  BY DEF Answered
<1> QED
  BY <1>1, CalmInductive, PTL

=============================================================================
