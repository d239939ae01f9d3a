------------------------------ MODULE AsyncJobs -----------------------------
(***************************************************************************)
(* The asynchronous jobs of pg_aidb: the extension's *_async and ingest    *)
(* functions, the ai.results and ai._outbox tables, LISTEN/NOTIFY, and the *)
(* pipeline workers.                                                       *)
(*                                                                         *)
(* A client transaction inserts a pending row in ai.results and a row in   *)
(* ai._outbox and sends NOTIFY; all three appear at its commit.  Every     *)
(* worker that is listening at that moment gets the notification and       *)
(* starts a task for it.  A task claims the outbox row (UPDATE ... FOR     *)
(* UPDATE SKIP LOCKED, its own transaction), runs the handler of the event *)
(* type, whose last transaction stores the outcome and marks the request   *)
(* done, and on an exception marks it in error in one more transaction.    *)
(*                                                                         *)
(* Faults that the surrounding system produces, when Faults is TRUE: a     *)
(* worker crashes, its LISTEN connection drops, a connection fails while   *)
(* claiming, storing or marking, before or after the server committed.     *)
(***************************************************************************)
EXTENDS Naturals, FiniteSets

CONSTANTS
    Requests,   \* request ids (uuids), each submitted at most once
    Workers,    \* pipeline-worker processes
    NoWorker,   \* not a worker: an outbox row nobody has locked
    Faults      \* whether connections and workers may fail

ASSUME WorkersAssumption == NoWorker \notin Workers
ASSUME FaultsAssumption  == Faults \in BOOLEAN

VARIABLES
    op,         \* the function the request was submitted with
    status,     \* ai.results.status
    overdue,    \* requests whose pending_timeout_at has passed
    outbox,     \* the request's ai._outbox row: no row, taken_at null, taken_at set
    rowLock,    \* the worker whose open transaction has the row locked
    listening,  \* workers whose LISTEN connection is up
    inbox,      \* notifications delivered to a worker and not yet read
    task,       \* the process_event task of each worker for each request
    stored      \* documents committed to ai.documents for the request

vars == <<op, status, overdue, outbox, rowLock, listening, inbox, task, stored>>

\* The keys of the handler table; the extension queues no other event type.
EventTypes == {"ingest", "search", "ask"}
Ops        == EventTypes \cup {"embed"}
Statuses   == {"absent", "pending", "done", "error"}
RowStates  == {"none", "queued", "taken"}
\* A task: not started, about to claim, claim not yet committed, in its
\* handler, with an exception to report, returned (or died of an exception).
TaskStates == {"none", "claim", "locked", "handle", "fail", "ended"}

TypeOK ==
    /\ op \in [Requests -> Ops \cup {"none"}]
    /\ status \in [Requests -> Statuses]
    /\ overdue \in SUBSET Requests
    /\ outbox \in [Requests -> RowStates]
    /\ rowLock \in [Requests -> Workers \cup {NoWorker}]
    /\ listening \in SUBSET Workers
    /\ inbox \in [Workers -> SUBSET Requests]
    /\ task \in [Workers -> [Requests -> TaskStates]]
    /\ stored \in [Requests -> Nat]

Init ==
    /\ op = [r \in Requests |-> "none"]
    /\ status = [r \in Requests |-> "absent"]
    /\ overdue = {}
    /\ outbox = [r \in Requests |-> "none"]
    /\ rowLock = [r \in Requests |-> NoWorker]
    /\ listening = {}
    /\ inbox = [w \in Workers |-> {}]
    /\ task = [w \in Workers |-> [r \in Requests |-> "none"]]
    /\ stored = [r \in Requests |-> 0]

-----------------------------------------------------------------------------
(* The clients: the commit of a transaction that called an async function. *)

\* ai.ingest, ai.search_async, ai.ask_async.  NOTIFY reaches the sessions
\* that listen when the transaction commits, and no other.
Submit(r, e) ==
    /\ status[r] = "absent"
    /\ op' = [op EXCEPT ![r] = e]
    /\ status' = [status EXCEPT ![r] = "pending"]
    /\ outbox' = [outbox EXCEPT ![r] = "queued"]
    /\ inbox' = [w \in Workers |-> IF w \in listening THEN inbox[w] \cup {r}
                                                       ELSE inbox[w]]
    /\ UNCHANGED <<overdue, rowLock, listening, task, stored>>

\* ai.embed_async: a pending row, no outbox row, and a NOTIFY on a channel of
\* its own, which no worker listens on.
EmbedAsync(r) ==
    /\ status[r] = "absent"
    /\ op' = [op EXCEPT ![r] = "embed"]
    /\ status' = [status EXCEPT ![r] = "pending"]
    /\ UNCHANGED <<overdue, outbox, rowLock, listening, inbox, task, stored>>

\* Five minutes pass: now() > pending_timeout_at.
Expire(r) ==
    /\ status[r] = "pending"
    /\ r \notin overdue
    /\ overdue' = overdue \cup {r}
    /\ UNCHANGED <<op, status, outbox, rowLock, listening, inbox, task, stored>>

-----------------------------------------------------------------------------
(* The LISTEN loop of a worker. *)

\* Start-up, and each turn of the loop after a failure: connect and LISTEN.
Connect(w) ==
    /\ w \notin listening
    /\ listening' = listening \cup {w}
    /\ UNCHANGED <<op, status, overdue, outbox, rowLock, inbox, task, stored>>

\* async for notify in conn.notifies(): create_task(process_event(...)).
Receive(w, r) ==
    /\ r \in inbox[w]
    /\ inbox' = [inbox EXCEPT ![w] = @ \ {r}]
    /\ task' = [task EXCEPT ![w][r] = "claim"]
    /\ UNCHANGED <<op, status, overdue, outbox, rowLock, listening, stored>>

\* The LISTEN connection drops: its notifications are gone, the tasks the
\* loop started go on over connections of their own.
Disconnect(w) ==
    /\ Faults
    /\ w \in listening
    /\ listening' = listening \ {w}
    /\ inbox' = [inbox EXCEPT ![w] = {}]
    /\ UNCHANGED <<op, status, overdue, outbox, rowLock, task, stored>>

-----------------------------------------------------------------------------
(* process_event, part 1: _claim_outbox. *)

\* What the claim's subselect finds: taken_at IS NULL, and the row is not
\* locked by another claim (SKIP LOCKED passes over it).
ClaimableEvenTaken(r) == outbox[r] # "none" /\ rowLock[r] = NoWorker
Claimable(r) == outbox[r] = "queued" /\ rowLock[r] = NoWorker

\* The UPDATE found the row and holds its lock until the commit.
ClaimLock(w, r) ==
    /\ task[w][r] = "claim"
    /\ Claimable(r)
    /\ rowLock' = [rowLock EXCEPT ![r] = w]
    /\ task' = [task EXCEPT ![w][r] = "locked"]
    /\ UNCHANGED <<op, status, overdue, outbox, listening, inbox, stored>>

\* The UPDATE found nothing: "No unclaimed outbox row", and return.
ClaimNothing(w, r) ==
    /\ task[w][r] = "claim"
    /\ ~Claimable(r)
    /\ task' = [task EXCEPT ![w][r] = "ended"]
    /\ UNCHANGED <<op, status, overdue, outbox, rowLock, listening, inbox, stored>>

ClaimCommitRunning(w, r) ==
    /\ task[w][r] = "locked"
    /\ outbox' = [outbox EXCEPT ![r] = "taken"]
    /\ status' = [status EXCEPT ![r] = "running"]
    /\ rowLock' = [rowLock EXCEPT ![r] = NoWorker]
    /\ task' = [task EXCEPT ![w][r] = "handle"]
    /\ UNCHANGED <<op, overdue, listening, inbox, stored>>

ClaimCommit(w, r) ==
    /\ task[w][r] = "locked"
    /\ outbox' = [outbox EXCEPT ![r] = "taken"]
    /\ rowLock' = [rowLock EXCEPT ![r] = NoWorker]
    /\ task' = [task EXCEPT ![w][r] = "handle"]
    /\ UNCHANGED <<op, status, overdue, listening, inbox, stored>>

\* The connection fails while claiming: the server has rolled back, or has
\* committed without the worker learning it.  The claim is outside the try of
\* process_event, so the exception ends the task and nothing is reported.
ClaimFails(w, r) ==
    /\ Faults
    /\ \/ /\ task[w][r] = "claim"
          /\ UNCHANGED <<outbox, rowLock>>
       \/ /\ task[w][r] = "locked"
          /\ \/ UNCHANGED outbox
             \/ outbox' = [outbox EXCEPT ![r] = "taken"]
          /\ rowLock' = [rowLock EXCEPT ![r] = NoWorker]
    /\ task' = [task EXCEPT ![w][r] = "ended"]
    /\ UNCHANGED <<op, status, overdue, listening, inbox, stored>>

-----------------------------------------------------------------------------
(* process_event, part 2: the handler, and _mark_error. *)

\* The transaction that ends a handler.  store_chunks inserts the document,
\* its parent and child chunks and marks the request done; _process_search
\* and _process_ask write data and status in one UPDATE.
OutcomeUnstored(r) ==
    /\ status' = [status EXCEPT ![r] = "done"]
    /\ UNCHANGED stored
Outcome(r) ==
    /\ status' = [status EXCEPT ![r] = "done"]
    /\ stored' = IF op[r] = "ingest" THEN [stored EXCEPT ![r] = @ + 1] ELSE stored

Store(w, r) ==
    /\ task[w][r] = "handle"
    /\ Outcome(r)
    /\ task' = [task EXCEPT ![w][r] = "ended"]
    /\ UNCHANGED <<op, overdue, outbox, rowLock, listening, inbox>>

\* The commit took effect, but the connection failed before its
\* acknowledgement: the handler raises.
StoreAckLost(w, r) ==
    /\ Faults
    /\ task[w][r] = "handle"
    /\ Outcome(r)
    /\ task' = [task EXCEPT ![w][r] = "fail"]
    /\ UNCHANGED <<op, overdue, outbox, rowLock, listening, inbox>>

HandlerFailsSilently(w, r) ==
    /\ task[w][r] = "handle"
    /\ task' = [task EXCEPT ![w][r] = "ended"]
    /\ UNCHANGED <<op, status, overdue, outbox, rowLock, listening, inbox, stored>>

HandlerFailsHalfway(w, r) ==
    /\ task[w][r] = "handle"
    /\ task' = [task EXCEPT ![w][r] = "fail"]
    /\ stored' = [stored EXCEPT ![r] = @ + 1]
    /\ UNCHANGED <<op, status, overdue, outbox, rowLock, listening, inbox>>

\* Parsing, chunking, embedding, or the call to rag raises; a transaction
\* that was open rolls back.
HandlerFails(w, r) ==
    /\ task[w][r] = "handle"
    /\ task' = [task EXCEPT ![w][r] = "fail"]
    /\ UNCHANGED <<op, status, overdue, outbox, rowLock, listening, inbox, stored>>

\* _mark_error writes the status whatever it was.
MarkError(w, r) ==
    /\ task[w][r] = "fail"
    /\ status' = [status EXCEPT ![r] = "error"]
    /\ task' = [task EXCEPT ![w][r] = "ended"]
    /\ UNCHANGED <<op, overdue, outbox, rowLock, listening, inbox, stored>>

\* _mark_error raises itself, and the exception ends the task.
MarkErrorFails(w, r) ==
    /\ Faults
    /\ task[w][r] = "fail"
    /\ task' = [task EXCEPT ![w][r] = "ended"]
    /\ UNCHANGED <<op, status, overdue, outbox, rowLock, listening, inbox, stored>>

\* The process dies (or is stopped): its connections close, the server rolls
\* back what they had open, and no task survives.
Crash(w) ==
    /\ Faults
    /\ listening' = listening \ {w}
    /\ inbox' = [inbox EXCEPT ![w] = {}]
    /\ rowLock' = [r \in Requests |-> IF rowLock[r] = w THEN NoWorker ELSE rowLock[r]]
    /\ task' = [task EXCEPT ![w] = [r \in Requests |-> "none"]]
    /\ UNCHANGED <<op, status, overdue, outbox, stored>>

-----------------------------------------------------------------------------

\* A step the event loop of worker w owes to its task for r.
TaskStep(w, r) ==
    \/ Receive(w, r)
    \/ ClaimLock(w, r) \/ ClaimNothing(w, r) \/ ClaimCommit(w, r)
    \/ Store(w, r) \/ HandlerFails(w, r) \/ MarkError(w, r)

TaskFault(w, r) ==
    ClaimFails(w, r) \/ StoreAckLost(w, r) \/ MarkErrorFails(w, r)

Next ==
    \/ \E r \in Requests :
          \/ \E e \in EventTypes : Submit(r, e)
          \/ EmbedAsync(r)
          \/ Expire(r)
    \/ \E w \in Workers :
          \/ Connect(w) \/ Disconnect(w) \/ Crash(w)
          \/ \E r \in Requests : TaskStep(w, r) \/ TaskFault(w, r)

Spec == Init /\ [][Next]_vars

\* The loop reconnects after five seconds, the event loop runs every task
\* that is ready, and time passes.  Nothing is assumed of the clients, and no
\* fault has to happen.
Fairness ==
    /\ \A w \in Workers : WF_vars(Connect(w))
    /\ \A w \in Workers, r \in Requests : WF_vars(TaskStep(w, r))
    /\ \A r \in Requests : WF_vars(Expire(r))

FairSpec == Spec /\ Fairness

-----------------------------------------------------------------------------
(* Safety, with every fault. *)

\* The tasks that have claimed a request and may still write its outcome.
Handlers(r) == {w \in Workers : task[w][r] \in {"handle", "fail"}}

\* However many workers were notified of a request, and whatever connection
\* failed while claiming, at most one task is past the claim; the row it
\* claimed is taken for good, so no later task joins it.
OneHandler ==
    \A r \in Requests :
        /\ \A w, v \in Handlers(r) : w = v
        /\ Handlers(r) # {} => outbox[r] = "taken" /\ rowLock[r] = NoWorker

\* The document and chunks of an ingest are committed with the status done,
\* once: a request never shows done without its document, or pending with
\* one, and no second copy is ever stored.
IngestAtomic ==
    \A r \in Requests :
        /\ stored[r] <= 1
        /\ op[r] = "ingest" /\ status[r] = "done" => stored[r] = 1
        /\ stored[r] = 1 => op[r] = "ingest" /\ status[r] \in {"done", "error"}

\* A client that has seen an error never sees the request succeed later, and
\* one that has seen an outcome never sees it pending again, although
\* _mark_error and the handlers write the status without looking at it.
OutcomeIsFinal ==
    [][\A r \in Requests :
          /\ status[r] = "error" => status'[r] = "error"
          /\ status[r] = "done"  => status'[r] \in {"done", "error"}]_vars

\* Workers, outbox and notifications together keep the promise that
\* ai.results makes to the client that polls it.
Promise == INSTANCE JobPromise

PromiseKept == Promise!Spec

-----------------------------------------------------------------------------
(* Why the safety properties hold: with TypeOK and IngestAtomic, an inductive
   invariant. *)

\* The lock on an outbox row is that of the one task whose claim is open,
\* and only an unclaimed row is locked.
LockedByClaim ==
    \A r \in Requests :
        /\ \A w \in Workers : task[w][r] = "locked" <=> rowLock[r] = w
        /\ rowLock[r] # NoWorker => outbox[r] = "queued"

\* A task is past the claim only if the row is taken, and it is alone.
HandlesTaken ==
    \A r \in Requests, w \in Workers :
        task[w][r] \in {"handle", "fail"} =>
            /\ outbox[r] = "taken"
            /\ \A v \in Workers : task[v][r] \in {"handle", "fail"} => v = w

\* Until a handler has written the outcome the request is pending.
PendingUntilHandled ==
    \A r \in Requests :
        /\ status[r] = "absent" => outbox[r] = "none"
        /\ outbox[r] = "queued" => status[r] = "pending"
        /\ \A w \in Workers : task[w][r] = "handle" => status[r] = "pending"

\* A worker starts at most one task for a request, and only once the request
\* is committed: the notification is read once and sent once.
NotifiedOnce ==
    \A r \in Requests, w \in Workers :
        /\ status[r] = "absent" => task[w][r] = "none" /\ r \notin inbox[w]
        /\ r \in inbox[w] => task[w][r] = "none"

IInv ==
    TypeOK /\ LockedByClaim /\ HandlesTaken /\ PendingUntilHandled /\ NotifiedOnce /\ IngestAtomic


-----------------------------------------------------------------------------
(* What holds as long as no connection and no worker fails. *)

\* Whoever claims a request answers it: a row that is taken belongs to a
\* request that has its outcome, or to a task that is still working on it.
\* Nothing else would ever look at that row again.
NothingAbandoned ==
    \A r \in Requests :
        outbox[r] = "taken" /\ status[r] = "pending" => Handlers(r) # {}

\* An ingest reported in error has left no document behind, so submitting it
\* again cannot duplicate one.
ErrorStoresNothing ==
    \A r \in Requests : status[r] = "error" => stored[r] = 0

\* A request of which a worker was notified gets its outcome.
NotifiedIsAnswered ==
    \A r \in Requests :
        (\E w \in Workers : r \in inbox[w]) ~> status[r] \in {"done", "error"}

=============================================================================
