----------------------------- MODULE PgRequest -----------------------------
(***************************************************************************)
(* One request's statements on the database (grafast_py/pg/executor.py):   *)
(* the plain executor, which runs every statement on a connection of its   *)
(* own; the shared transaction, opened by the first statement under        *)
(* _open_lock, committed by writes and rolled back by aclose; and the raw  *)
(* executor, which hands the statement to the host.                        *)
(*                                                                         *)
(* A task is one pg step of the operation: a read is one statement, a      *)
(* write is one committing statement per bucket entry (pg/mutations.py).   *)
(* Tasks whose predecessors have ended run concurrently and interleave at  *)
(* their awaits; every pc but "idle" is an await.  The pool, its           *)
(* connections and the database are external: a transaction's snapshot is  *)
(* taken by its first statement, a failed statement aborts its             *)
(* transaction, and closing a connection rolls back.                       *)
(***************************************************************************)
EXTENDS Integers, Sequences, FiniteSets

CONSTANTS
    Operations,     \* each a sequence of tasks, see TaskRecord
    MaxTasks,       \* bound: tasks of one operation
    Modes,          \* executors in use: "plain", "shared", "raw"
    Conns,          \* the pool (pool_size + max_overflow)
    Faults,         \* what may go wrong
    MaxFaults,      \* bound: faults of one behaviour
    MaxCommits,     \* bound: commits of other sessions
    None

ASSUME PgRequestAssumption ==
    /\ Modes \subseteq {"plain", "shared", "raw"}
    /\ Faults \subseteq {"connect", "begin", "isolate", "configure", "execute", "commit",
                         "rollback", "timeout"}
    /\ MaxTasks \in Nat /\ MaxFaults \in Nat /\ MaxCommits \in Nat
    /\ None \notin Conns /\ None \notin Nat

\* A task runs count statements once every task of after has ended and every
\* task of needs is done; both list all of them, not only the nearest.
TaskRecord == [write : BOOLEAN, count : Nat \ {0}, after : SUBSET Nat, needs : SUBSET Nat]

Before(o, t) == o[t].after \cup o[t].needs

ASSUME OperationsAssumption ==
    \A o \in Operations :
        /\ o \in Seq(TaskRecord)
        /\ Len(o) <= MaxTasks
        /\ \A t \in DOMAIN o : Before(o, t) \subseteq DOMAIN o

\* The root fields of a mutation run one after another, each with the layers of
\* its payload after its write: nothing runs beside a write.
ASSUME WritesAreSerial ==
    \A o \in Operations : \A w, t \in DOMAIN o :
        o[w].write /\ t # w => w \in Before(o, t) \/ t \in Before(o, w)

VARIABLES
    op,             \* the operation
    mode,           \* its executor
    settings,       \* whether the request has pgSettings
    pc,             \* per task, the await it is at
    ran,            \* per task, its statements that have returned rows
    on,             \* per task, the connection in its hands
    held, txn,      \* PgRequestContext._txn_conn, and whether _txn is set
    lock,           \* the holder of _open_lock
    ctx,            \* the async with block: "open", "rollback", "close", "closed"
    conns,          \* per connection [out, begun, guc, snap, dirty, aborted]
    db,             \* the number of commits so far
    persisted,      \* the committed <<task, entry>> writes
    seen,           \* per task, the version its last read saw
    unscoped,       \* tasks that ran a statement without the request's settings
    stale,          \* tasks that used a connection closed under them
    lost,           \* connections a failed open or rollback dropped
    doubt,          \* writes whose commit failed or was cancelled
    faults, commits

taskVars == <<pc, ran, on>>
requestVars == <<held, txn, lock, ctx>>
dbVars == <<conns, db, persisted, commits>>
history == <<seen, unscoped, stale, lost, doubt>>
vars == <<op, mode, settings, taskVars, requestVars, dbVars, history, faults>>

Tasks == DOMAIN op
Cancelling == \E u \in Tasks : pc[u] = "cancelled"
Ended == {"done", "failed", "cancelled"}
Free == [out |-> FALSE, begun |-> FALSE, guc |-> FALSE, snap |-> None, dirty |-> {}, aborted |-> FALSE]
Out == {c \in Conns : conns[c].out}

Init ==
    /\ op \in Operations
    /\ mode \in Modes
    /\ settings \in BOOLEAN
    /\ pc = [t \in Tasks |-> "idle"]
    /\ ran = [t \in Tasks |-> 0]
    /\ on = [t \in Tasks |-> None]
    /\ held = None /\ txn = FALSE /\ lock = None
    /\ ctx = "open"
    /\ conns = [c \in Conns |-> Free]
    /\ db = 0 /\ persisted = {} /\ commits = 0
    /\ seen = [t \in Tasks |-> None]
    /\ unscoped = {} /\ stale = {} /\ lost = {} /\ doubt = {}
    /\ faults = 0

-----------------------------------------------------------------------------
Fault(kind) ==
    /\ kind \in Faults
    /\ faults < MaxFaults
    /\ faults' = faults + 1

Goto(t, label) == pc' = [pc EXCEPT ![t] = label]

Entry(t) == <<t, ran[t] + 1>>

\* Ending a transaction clears its snapshot, its local GUCs and its abort.
EndTxn(c) == [conns EXCEPT ![c].begun = FALSE, ![c].guc = FALSE, ![c].snap = None,
                           ![c].dirty = {}, ![c].aborted = FALSE]

\* close() rolls back what is open and gives the connection back to the pool.
GiveBack(c) == [conns EXCEPT ![c] = Free]

-----------------------------------------------------------------------------
(* shared_txn_connection.                                                  *)

(***************************************************************************)
(* The synchronous prefix of a statement: the held connection if there is  *)
(* one, else the lock if it is free (acquiring it does not yield, and the  *)
(* re-check then sees what the fast path saw), else a place in its queue.  *)
(***************************************************************************)
EnterShared(t) ==
    IF held # None
    THEN /\ Goto(t, "execute")
         /\ on' = [on EXCEPT ![t] = held]
         /\ UNCHANGED lock
    ELSE IF lock = None
    THEN /\ Goto(t, "connect")
         /\ lock' = t
         /\ UNCHANGED on
    ELSE /\ Goto(t, "queued")
         /\ UNCHANGED <<lock, on>>

BeginStatement(t) ==
    /\ pc[t] = "idle"
    /\ ctx = "open"
    /\ ~Cancelling
    /\ \A u \in op[t].after : pc[u] \in Ended
    /\ \A u \in op[t].needs : pc[u] = "done"
    /\ \/ mode = "shared" /\ EnterShared(t)
       \/ mode = "plain" /\ Goto(t, "connect") /\ UNCHANGED <<on, lock>>
       \/ mode = "raw" /\ Goto(t, "host") /\ UNCHANGED <<on, lock>>
    /\ UNCHANGED <<op, mode, settings, ran, held, txn, ctx, dbVars, history, faults>>

\* The child layer of a step that failed has no entry left to run for.
SkipLayer(t) ==
    /\ pc[t] = "idle"
    /\ \E u \in op[t].needs : pc[u] = "failed"
    /\ Goto(t, "failed")
    /\ UNCHANGED <<op, mode, settings, ran, on, requestVars, dbVars, history, faults>>

NoRecheck(t) == FALSE

\* A racer that opened the connection while this task waited wins.
Recheck(t) == held # None

EnterLock(t) ==
    /\ pc[t] = "queued"
    /\ lock = None
    /\ IF Recheck(t)
       THEN Goto(t, "execute") /\ on' = [on EXCEPT ![t] = held] /\ UNCHANGED lock
       ELSE Goto(t, "connect") /\ lock' = t /\ UNCHANGED on
    /\ UNCHANGED <<op, mode, settings, ran, held, txn, ctx, dbVars, history, faults>>

NeedsTxnForWrites(t) == mode = "shared" \/ op[t].write

NeedsTxn(t) == mode = "shared" \/ settings \/ op[t].write

\* engine.connect() hands out a pooled connection.
Connect(t) ==
    /\ pc[t] = "connect"
    /\ \E c \in Conns \ Out :
          /\ conns' = [conns EXCEPT ![c].out = TRUE]
          /\ on' = [on EXCEPT ![t] = c]
    /\ Goto(t, IF NeedsTxn(t) THEN "begin" ELSE "execute")
    /\ UNCHANGED <<op, mode, settings, ran, requestVars, db, persisted, commits, history, faults>>

Begin(t) ==
    /\ pc[t] = "begin"
    /\ conns' = [conns EXCEPT ![on[t]].begun = TRUE]
    /\ Goto(t, IF mode = "shared" THEN "isolate" ELSE IF settings THEN "configure" ELSE "execute")
    /\ UNCHANGED <<op, mode, settings, ran, on, requestVars, db, persisted, commits, history, faults>>

(***************************************************************************)
(* The rest of the open: the isolation level, the settings, and then,      *)
(* without an await in between, the held connection and transaction are    *)
(* recorded and the lock is released.                                      *)
(***************************************************************************)
Publish(t) ==
    /\ held' = on[t]
    /\ txn' = TRUE
    /\ lock' = None
    /\ Goto(t, "execute")
    /\ UNCHANGED ctx

Isolate(t) ==
    /\ pc[t] = "isolate"
    /\ IF settings THEN Goto(t, "configure") /\ UNCHANGED requestVars ELSE Publish(t)
    /\ UNCHANGED <<op, mode, settings, ran, on, dbVars, history, faults>>

Configure(t) ==
    /\ pc[t] = "configure"
    /\ conns' = [conns EXCEPT ![on[t]].guc = TRUE]
    /\ IF mode = "shared" THEN Publish(t) ELSE Goto(t, "execute") /\ UNCHANGED requestVars
    /\ UNCHANGED <<op, mode, settings, ran, on, db, persisted, commits, history, faults>>

-----------------------------------------------------------------------------
(* Running a statement.                                                    *)

AfterStatementLate(t) == IF ran[t] = op[t].count THEN "done" ELSE "idle"

\* The next entry's statement of a write, or the end of the task.
AfterStatement(t) == IF ran[t] + 1 = op[t].count THEN "done" ELSE "idle"

Scoped(t) == unscoped' = IF settings /\ ~conns[on[t]].guc THEN unscoped \cup {t} ELSE unscoped

\* SET TRANSACTION ISOLATION LEVEL REPEATABLE READ is part of the shared open only.
ReadCommitted(t) == FALSE

Repeatable(t) == mode = "shared"

\* A statement's snapshot: REPEATABLE READ keeps the first, else the latest.
Version(t) == IF Repeatable(t) /\ conns[on[t]].snap # None THEN conns[on[t]].snap ELSE db

CommitsWithSettings(t) == mode = "plain" /\ settings

\* A write commits; so does the transaction that scopes a plain read's settings.
Commits(t) == op[t].write \/ (mode = "plain" /\ settings)

Execute(t) ==
    LET c == on[t]
    IN  /\ pc[t] = "execute"
        /\ conns[c].out /\ ~conns[c].aborted
        /\ conns' = [conns EXCEPT ![c].snap = IF mode = "shared" THEN Version(t) ELSE None,
                                  ![c].dirty = IF op[t].write THEN @ \cup {Entry(t)} ELSE @]
        /\ Scoped(t)
        /\ seen' = IF op[t].write THEN seen ELSE [seen EXCEPT ![t] = Version(t)]
        /\ IF Commits(t)
           THEN Goto(t, "commit") /\ UNCHANGED <<ran, on>>
           ELSE /\ Goto(t, IF mode = "plain" THEN "close" ELSE AfterStatement(t))
                /\ ran' = [ran EXCEPT ![t] = @ + 1]
                /\ on' = IF mode = "plain" THEN on ELSE [on EXCEPT ![t] = None]
        /\ UNCHANGED <<op, mode, settings, requestVars, db, persisted, commits, stale, lost, doubt, faults>>

\* The statement reaches a connection that was closed, or whose transaction is aborted.
ExecuteRefused(t) ==
    LET c == on[t]
    IN  /\ pc[t] = "execute"
        /\ ~conns[c].out \/ conns[c].aborted
        /\ stale' = IF conns[c].out THEN stale ELSE stale \cup {t}
        /\ Goto(t, "failed")
        /\ on' = [on EXCEPT ![t] = None]
        /\ UNCHANGED <<op, mode, settings, ran, requestVars, dbVars, seen, unscoped, lost, doubt, faults>>

\* What the database holds once c's transaction has committed.
Committed(c) ==
    [persisted |-> persisted \cup conns[c].dirty,
     db |-> IF conns[c].dirty = {} THEN db ELSE db + 1]

Commit(t) ==
    LET c == on[t]
    IN  /\ pc[t] = "commit"
        /\ persisted' = Committed(c).persisted
        /\ db' = Committed(c).db
        /\ conns' = EndTxn(c)
        /\ txn' = IF mode = "shared" THEN FALSE ELSE txn
        /\ ran' = [ran EXCEPT ![t] = @ + 1]
        /\ Goto(t, "close")
        /\ UNCHANGED <<op, mode, settings, on, held, lock, ctx, commits, history, faults>>

CloseKeepingHeld(t) ==
    /\ pc[t] = "close"
    /\ conns' = GiveBack(on[t])
    /\ on' = [on EXCEPT ![t] = None]
    /\ Goto(t, IF ran[t] = op[t].count THEN "done" ELSE "idle")
    /\ UNCHANGED <<op, mode, settings, ran, requestVars, db, persisted, commits, history, faults>>

\* The last await of a statement; a shared write clears the held connection.
Close(t) ==
    /\ pc[t] = "close"
    /\ conns' = GiveBack(on[t])
    /\ held' = IF mode = "shared" THEN None ELSE held
    /\ on' = [on EXCEPT ![t] = None]
    /\ Goto(t, IF ran[t] = op[t].count THEN "done" ELSE "idle")
    /\ UNCHANGED <<op, mode, settings, ran, txn, lock, ctx, db, persisted, commits, history, faults>>

\* RawExecutor.run: the host runs it, with the settings and commit it is given.
RunRaw(t) ==
    /\ pc[t] = "host"
    /\ persisted' = IF op[t].write THEN persisted \cup {Entry(t)} ELSE persisted
    /\ db' = IF op[t].write THEN db + 1 ELSE db
    /\ seen' = IF op[t].write THEN seen ELSE [seen EXCEPT ![t] = db]
    /\ ran' = [ran EXCEPT ![t] = @ + 1]
    /\ Goto(t, AfterStatement(t))
    /\ UNCHANGED <<op, mode, settings, on, requestVars, conns, commits, unscoped, stale, lost, doubt, faults>>

-----------------------------------------------------------------------------
(* Failures.                                                               *)

(***************************************************************************)
(* An exception, or a cancellation, at an await of a statement.  Plain     *)
(* statements leave their async with block, which closes the connection.   *)
(* A shared open that fails leaves the lock's block but nothing closes the *)
(* connection it took out; a shared statement leaves the held state as it  *)
(* is, and its transaction aborted.  A commit that is interrupted may have *)
(* landed.                                                                 *)
(***************************************************************************)
Opening == {"begin", "isolate", "configure"}

Unwind(t, how) ==
    LET c == on[t]
    IN  /\ Goto(t, how)
        /\ on' = [on EXCEPT ![t] = None]
        /\ lock' = IF lock = t THEN None ELSE lock
        /\ lost' = IF mode = "shared" /\ pc[t] \in Opening THEN lost \cup {c} ELSE lost
        /\ doubt' = IF pc[t] \in {"commit", "host"} /\ op[t].write THEN doubt \cup {Entry(t)} ELSE doubt
        /\ conns' = IF c = None THEN conns
                    ELSE IF mode = "plain" THEN GiveBack(c)
                    ELSE IF pc[t] = "execute" /\ conns[c].out THEN [conns EXCEPT ![c].aborted = TRUE]
                    ELSE IF pc[t] = "commit" THEN [EndTxn(c) EXCEPT ![c].aborted = TRUE]
                    ELSE conns
        /\ \E landed \in BOOLEAN :
              IF landed /\ pc[t] \in {"commit", "host"} /\ op[t].write
              THEN persisted' = persisted \cup {Entry(t)} /\ db' = db + 1
              ELSE UNCHANGED <<persisted, db>>
        /\ UNCHANGED <<held, txn, ctx, seen, unscoped, stale>>

StatementFails(t) ==
    /\ pc[t] \in {"connect", "begin", "isolate", "configure", "execute", "commit"}
    /\ Fault(pc[t])
    /\ Unwind(t, "failed")
    /\ UNCHANGED <<op, mode, settings, ran, commits>>

\* The pool gives up on an exhausted checkout (pool_timeout).
PoolTimeout(t) ==
    /\ pc[t] = "connect"
    /\ Out = Conns
    /\ Unwind(t, "failed")
    /\ UNCHANGED <<op, mode, settings, ran, commits, faults>>

\* execution_timeout: the deadline cancels every await of the operation, one by one.
Cancel(t) ==
    /\ pc[t] \notin Ended
    /\ IF Cancelling THEN UNCHANGED faults ELSE Fault("timeout")
    /\ Unwind(t, "cancelled")
    /\ UNCHANGED <<op, mode, settings, ran, commits>>

-----------------------------------------------------------------------------
(* The end of the request: pg_request_context_async, then aclose.          *)

OperationEnded == \A t \in Tasks : pc[t] \in Ended

ExitWithoutTxn ==
    /\ ctx = "open"
    /\ OperationEnded
    /\ ctx' = IF txn THEN "rollback" ELSE "closed"
    /\ UNCHANGED <<op, mode, settings, taskVars, held, txn, lock, dbVars, history, faults>>

Exit ==
    /\ ctx = "open"
    /\ OperationEnded
    /\ ctx' = IF held = None THEN "closed" ELSE IF txn THEN "rollback" ELSE "close"
    /\ UNCHANGED <<op, mode, settings, taskVars, held, txn, lock, dbVars, history, faults>>

Rollback ==
    /\ ctx = "rollback"
    /\ conns' = EndTxn(held)
    /\ txn' = FALSE
    /\ ctx' = "close"
    /\ UNCHANGED <<op, mode, settings, taskVars, held, lock, db, persisted, commits, history, faults>>

\* The exception leaves aclose before the connection is closed.
RollbackFails ==
    /\ ctx = "rollback"
    /\ Fault("rollback")
    /\ lost' = lost \cup {held}
    /\ ctx' = "closed"
    /\ UNCHANGED <<op, mode, settings, taskVars, held, txn, lock, dbVars, seen, unscoped, stale, doubt>>

CloseHeld ==
    /\ ctx = "close"
    /\ conns' = GiveBack(held)
    /\ held' = None
    /\ ctx' = "closed"
    /\ UNCHANGED <<op, mode, settings, taskVars, txn, lock, db, persisted, commits, history, faults>>

\* Another session commits.
OtherCommit ==
    /\ commits < MaxCommits
    /\ commits' = commits + 1
    /\ db' = db + 1
    /\ UNCHANGED <<op, mode, settings, taskVars, requestVars, conns, persisted, history, faults>>

Closed == ctx = "closed" /\ UNCHANGED vars

TaskStep(t) ==
    \/ BeginStatement(t) \/ SkipLayer(t) \/ EnterLock(t) \/ Connect(t) \/ Begin(t) \/ Isolate(t) \/ Configure(t)
    \/ Execute(t) \/ ExecuteRefused(t) \/ Commit(t) \/ Close(t) \/ RunRaw(t)

Next ==
    \/ \E t \in Tasks : TaskStep(t)
    \/ \E t \in Tasks : StatementFails(t)
    \/ \E t \in Tasks : PoolTimeout(t)
    \/ \E t \in Tasks : Cancel(t)
    \/ Exit \/ Rollback \/ RollbackFails \/ CloseHeld
    \/ OtherCommit
    \/ Closed

(***************************************************************************)
(* The event loop resumes every task whose await is over, the database     *)
(* answers or the pool gives up (pool_timeout), and the block's exit runs. *)
(***************************************************************************)
Fairness ==
    /\ \A t \in 1 .. MaxTasks : WF_vars(t \in Tasks /\ TaskStep(t))
    /\ \A t \in 1 .. MaxTasks : WF_vars(t \in Tasks /\ PoolTimeout(t))
    /\ \A t \in 1 .. MaxTasks : WF_vars(t \in Tasks /\ Cancelling /\ Cancel(t))
    /\ WF_vars(Exit \/ Rollback \/ CloseHeld)

Spec == Init /\ [][Next]_vars /\ Fairness

-----------------------------------------------------------------------------
(* Properties.                                                             *)

TypeOK ==
    /\ mode \in Modes /\ settings \in BOOLEAN /\ txn \in BOOLEAN
    /\ \A t \in Tasks : /\ pc[t] \in Ended \cup {"idle", "queued", "connect", "begin", "isolate", "configure",
                                                "execute", "commit", "close", "host"}
                        /\ ran[t] \in 0 .. op[t].count
                        /\ on[t] \in Conns \cup {None}
    /\ held \in Conns \cup {None} /\ lock \in Tasks \cup {None}
    /\ ctx \in {"open", "rollback", "close", "closed"}

(***************************************************************************)
(* However the first statements of a request race, its shared transaction  *)
(* is one: outside connections that a failed open has dropped, no second   *)
(* connection is ever out (_open_lock: "exactly ONE connection/transaction *)
(* is ever held").                                                         *)
(***************************************************************************)
OneTransaction == mode = "shared" => Cardinality(Out \ lost) <= 1

\* The same without the excuse for a failed open.
ExactlyOneHeld == mode = "shared" => Cardinality(Out) <= 1

(***************************************************************************)
(* No statement is ever sent on a connection that a commit, a close or the *)
(* end of the request has taken away between its look at the held state    *)
(* and its execution (shared_txn_connection's fast path).                  *)
(***************************************************************************)
NeverStale == stale = {}

(***************************************************************************)
(* A write whose rows came back is committed exactly, one that failed is   *)
(* not, except where the commit itself was interrupted (commit=True,       *)
(* run_in_shared_txn, conn.begin()).                                       *)
(***************************************************************************)
WritesPersist ==
    LET acknowledged == UNION {{<<t, n>> : n \in 1 .. ran[t]} : t \in {u \in Tasks : op[u].write}}
    IN  /\ acknowledged \subseteq persisted
        /\ persisted \subseteq acknowledged \cup doubt

(***************************************************************************)
(* Every statement of a request with pgSettings runs in a transaction they *)
(* were applied to, also after a commit has ended the first one, and no    *)
(* pooled connection keeps them.                                           *)
(***************************************************************************)
SettingsAreLocal ==
    /\ unscoped = {}
    /\ \A c \in Conns \ Out : ~conns[c].guc

(***************************************************************************)
(* The request's block is always left, and then the only connections still *)
(* out are the ones a failed open or a failed rollback dropped.            *)
(***************************************************************************)
ConnectionsReturn == <>[](ctx = "closed" /\ Out \subseteq lost /\ lock = None)

Snapshots == INSTANCE PgSnapshots WITH
    Tasks <- 1 .. MaxTasks,
    isolated <- mode = "shared",
    view <- IF held # None /\ mode = "shared" THEN conns[held].snap ELSE None,
    seen <- [t \in 1 .. MaxTasks |-> IF t \in Tasks THEN seen[t] ELSE None]

(***************************************************************************)
(* The reads of a shared request see one version until one of its writes   *)
(* commits ("every batched read in the operation observes a single         *)
(* consistent snapshot").                                                  *)
(***************************************************************************)
ImplementsSnapshots == Snapshots!Spec

=============================================================================
