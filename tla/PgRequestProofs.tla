-------------------------- MODULE PgRequestProofs --------------------------
(***************************************************************************)
(* Proofs about a request's statements on the database, for every          *)
(* operation, pool, executor and choice of faults.                         *)
(***************************************************************************)
EXTENDS PgRequest, FiniteSetTheorems, TLAPS

-----------------------------------------------------------------------------
(* The inductive invariant.                                                *)

Active == {"queued", "connect", "begin", "isolate", "configure", "execute", "commit", "close", "host"}
Labels == Ended \cup Active \cup {"idle"}
Holding == Opening \cup {"execute", "commit", "close"}

Connection ==
    [out : BOOLEAN, begun : BOOLEAN, guc : BOOLEAN, snap : Nat \cup {None},
     dirty : SUBSET (Nat \X Nat), aborted : BOOLEAN]

Types ==
    /\ op \in Operations /\ mode \in Modes /\ settings \in BOOLEAN /\ txn \in BOOLEAN
    /\ pc \in [Tasks -> Labels]
    /\ ran \in [Tasks -> Nat]
    /\ on \in [Tasks -> Conns \cup {None}]
    /\ held \in Conns \cup {None} /\ lock \in Tasks \cup {None}
    /\ ctx \in {"open", "rollback", "close", "closed"}
    /\ conns \in [Conns -> Connection]
    /\ db \in Nat
    /\ seen \in [Tasks -> Nat \cup {None}]
    /\ lost \subseteq Conns

\* A task that has a statement left to return has not run them all.
Counted ==
    \A t \in Tasks : /\ ran[t] <= op[t].count
                     /\ pc[t] \notin Ended \cup {"close"} => ran[t] < op[t].count

\* A task at work has everything before it behind it.
Ordered ==
    \A t, u \in Tasks : pc[t] \in Active /\ u \in Before(op, t) => pc[u] \in Ended

\* The awaits each executor has.
Modal ==
    \A t \in Tasks :
        /\ pc[t] \in {"queued", "isolate"} => mode = "shared"
        /\ pc[t] = "host" => mode = "raw"
        /\ pc[t] \in Holding \cup {"connect"} => mode # "raw"
        /\ pc[t] \in {"commit", "close"} /\ mode = "shared" => op[t].write

\* A task has a connection in its hands exactly from connect to close, and the
\* pool has given it out.
Hands ==
    \A t \in Tasks : /\ on[t] # None <=> pc[t] \in Holding
                     /\ on[t] # None => conns[on[t]].out

\* A connection in the pool is as good as new.
Pooled == \A c \in Conns : ~conns[c].out => conns[c] = Free

\* Outside the shared executor nothing is held or shared.
Separate ==
    mode # "shared" =>
        /\ held = None /\ lock = None
        /\ \A t, u \in Tasks : on[t] # None /\ on[t] = on[u] => t = u

(***************************************************************************)
(* The shared transaction: the lock is held exactly while it is opened,    *)
(* only when there is none; every statement runs on the held connection;   *)
(* any other connection out was dropped or is in the opener's hands.       *)
(***************************************************************************)
Shared ==
    mode = "shared" =>
        /\ \A t \in Tasks : lock = t <=> pc[t] \in Opening \cup {"connect"}
        /\ lock # None => held = None
        /\ held # None => conns[held].out
        /\ \A t \in Tasks : pc[t] \in {"execute", "commit", "close"} => on[t] = held
        /\ \A c \in Out : c \in lost \/ c = held \/ \E t \in Tasks : lock = t /\ on[t] = c

\* A transaction that is being opened has no snapshot.
Fresh == \A t \in Tasks : pc[t] \in Opening => conns[on[t]].snap = None

\* The block is left only when its tasks have ended.
Block ==
    /\ ctx # "open" => \A t \in Tasks : pc[t] \in Ended
    /\ ctx \in {"rollback", "close"} => held # None

(***************************************************************************)
(* The settings are applied wherever a statement may still run: a commit   *)
(* clears them, but then its task is closing the connection, or was        *)
(* cancelled on the way with nothing beside it, or the transaction is      *)
(* aborted.                                                                *)
(***************************************************************************)
InScope(c) == conns[c].guc \/ conns[c].aborted

Scoping ==
    /\ unscoped = {}
    /\ settings =>
         /\ \A t \in Tasks : pc[t] = "execute" => InScope(on[t])
         /\ /\ held # None /\ ctx = "open"
            /\ \A t \in Tasks : pc[t] # "close"
            /\ ~Cancelling \/ \E t \in Tasks : pc[t] \in Active
            => InScope(held)

\* What a transaction has written is the statement whose commit is under way.
Ledger ==
    /\ \A c \in Conns : \A e \in conns[c].dirty :
         \E t \in Tasks : pc[t] = "commit" /\ on[t] = c /\ op[t].write /\ e = Entry(t)
    /\ \A t \in Tasks : pc[t] = "commit" /\ op[t].write => Entry(t) \in conns[on[t]].dirty

IInv ==
    /\ Types /\ Counted /\ Ordered /\ Modal /\ Hands /\ Pooled /\ Separate /\ Shared
    /\ Fresh /\ Block /\ Scoping /\ Ledger
    /\ stale = {}
    /\ WritesPersist

-----------------------------------------------------------------------------
(* What the assumptions say of the operation at hand.                      *)

\* A task is a number, so never None, and its record has its fields.
LEMMA TaskFacts ==
    ASSUME op \in Operations
    PROVE  /\ Tasks \subseteq 1 .. MaxTasks /\ Tasks \subseteq Nat /\ None \notin Tasks
           /\ \A t \in Tasks : op[t].write \in BOOLEAN /\ op[t].count \in Nat /\ op[t].count > 0
  <1>1. op \in Seq(TaskRecord) /\ Len(op) <= MaxTasks
    BY OperationsAssumption
  <1>2. Tasks = 1 .. Len(op) /\ Len(op) \in Nat
    BY <1>1 DEF Tasks
  <1>3. \A t \in Tasks : op[t] \in TaskRecord
    BY <1>1, <1>2
  <1> QED
    BY <1>1, <1>2, <1>3, PgRequestAssumption DEF TaskRecord

\* Nothing is at work beside a write.
LEMMA WriteAlone ==
    ASSUME Types, Ordered, NEW w \in Tasks, NEW t \in Tasks,
           op[w].write, pc[w] \in Active, pc[t] \in Active
    PROVE  t = w
  BY WritesAreSerial DEF Types, Ordered, Tasks, Active, Ended

\* Nothing starts beside a write.
LEMMA NoneBesideWrite ==
    ASSUME Types, Ordered, NEW w \in Tasks, NEW t \in Tasks,
           op[w].write, pc[w] \in Active, pc[t] = "idle"
    PROVE  \E u \in Before(op, t) : pc[u] \notin Ended
  BY WritesAreSerial DEF Types, Ordered, Tasks, Active, Ended

\* One more of a range of naturals.
LEMMA UpTo ==
    ASSUME NEW n \in Nat
    PROVE  \A m : m \in 1 .. (n + 1) <=> m \in 1 .. n \/ m = n + 1
  OBVIOUS

\* A connection stays one when its transaction begins.
LEMMA BegunConnection ==
    ASSUME NEW x \in Connection
    PROVE  [x EXCEPT !.begun = TRUE] \in Connection
  BY DEF Connection

-----------------------------------------------------------------------------
(* The steps of a statement.                                               *)

LEMMA BeginStatementKeeps ==
    ASSUME IInv, NEW t \in Tasks, BeginStatement(t)
    PROVE  IInv'
  <1> USE TaskFacts DEF IInv, Goto, Tasks
  <1>0. /\ UNCHANGED <<op, mode, settings, ran, held, txn, ctx, conns, db, persisted, commits, seen, unscoped, stale, lost, doubt, faults>>
        /\ Tasks' = Tasks
    BY DEF BeginStatement, dbVars, history
  <1>1. \/ /\ mode = "shared" /\ held # None /\ Goto(t, "execute")
           /\ on' = [on EXCEPT ![t] = held] /\ lock' = lock
        \/ /\ mode = "shared" /\ held = None /\ lock = None /\ Goto(t, "connect")
           /\ lock' = t /\ on' = on
        \/ /\ mode = "shared" /\ held = None /\ lock # None /\ Goto(t, "queued")
           /\ lock' = lock /\ on' = on
        \/ mode = "plain" /\ Goto(t, "connect") /\ on' = on /\ lock' = lock
        \/ mode = "raw" /\ Goto(t, "host") /\ on' = on /\ lock' = lock
    BY PgRequestAssumption DEF BeginStatement, EnterShared, Types
  <1>2. pc[t] = "idle" /\ ctx = "open" /\ ~Cancelling /\ \A u \in Before(op, t) : pc[u] \in Ended
    BY DEF BeginStatement, Before, Ended
  <1>3. Types'
    BY <1>0, <1>1 DEF Types, Labels, Active
  <1>4. Counted'
    BY <1>0, <1>1, <1>2, <1>3 DEF Counted, Types, Labels, Active, Ended
  <1>5. Ordered'
    BY <1>0, <1>1, <1>2, <1>3 DEF Ordered, Types, Labels, Active, Ended, Before
  <1>6. Modal'
    BY <1>0, <1>1, <1>2, <1>3 DEF Modal, Types, Holding, Opening
  <1>7. Hands' /\ Pooled'
    BY <1>0, <1>1, <1>2, <1>3 DEF Hands, Pooled, Types, Shared, Holding, Opening
  <1>8. Separate'
    BY <1>0, <1>1, <1>2, <1>3 DEF Separate, Types
  <1>9. Shared'
    BY <1>0, <1>1, <1>2, <1>3 DEF Shared, Types, Opening, Holding, Hands, Out
  <1>10. Fresh' /\ Block'
    BY <1>0, <1>1, <1>2, <1>3 DEF Fresh, Block, Types, Opening, Ended
  <1>11. Scoping'
    BY <1>0, <1>1, <1>2, <1>3, NoneBesideWrite DEF Scoping, Types, InScope, Cancelling, Modal, Ended, Active
  <1>12. Ledger' /\ WritesPersist' /\ (stale = {})'
    BY <1>0, <1>1, <1>2, <1>3 DEF Ledger, WritesPersist, Types, Entry
  <1> QED
    BY <1>3, <1>4, <1>5, <1>6, <1>7, <1>8, <1>9, <1>10, <1>11, <1>12

\* A task skipped with the layer above it.
LEMMA SkipLayerKeeps ==
    ASSUME IInv, NEW t \in Tasks, SkipLayer(t)
    PROVE  IInv'
  <1> USE TaskFacts DEF IInv, Goto, Tasks
  <1>0. /\ UNCHANGED <<op, mode, settings, ran, on, requestVars, dbVars, history, faults>>
        /\ pc[t] = "idle" /\ pc' = [pc EXCEPT ![t] = "failed"]
    BY DEF SkipLayer
  <1> USE <1>0 DEF requestVars, dbVars, history
  <1>1. Types'
    BY DEF Types, Labels, Ended
  <1>2. Counted' /\ Ordered' /\ Modal'
    BY <1>1 DEF Counted, Ordered, Modal, Types, Labels, Active, Ended, Before, Holding, Opening
  <1>3. Hands' /\ Pooled' /\ Separate'
    BY <1>1 DEF Hands, Pooled, Separate, Types, Holding, Opening
  <1>4. Shared' /\ Fresh' /\ Block'
    BY <1>1 DEF Shared, Fresh, Block, Types, Opening, Ended, Out
  <1>5. Scoping'
    BY <1>1 DEF Scoping, Types, InScope, Cancelling, Active
  <1>6. Ledger' /\ WritesPersist' /\ (stale = {})'
    BY <1>1 DEF Ledger, WritesPersist, Types, Entry
  <1> QED
    BY <1>1, <1>2, <1>3, <1>4, <1>5, <1>6

\* A task that waited for the lock takes it, or the connection a racer opened.
LEMMA EnterLockKeeps ==
    ASSUME IInv, NEW t \in Tasks, EnterLock(t)
    PROVE  IInv'
  <1> USE TaskFacts DEF IInv, Goto, Tasks
  <1>0. /\ UNCHANGED <<op, mode, settings, ran, held, txn, ctx, dbVars, history, faults>>
        /\ pc[t] = "queued" /\ lock = None /\ mode = "shared"
        /\ \/ /\ held # None /\ pc' = [pc EXCEPT ![t] = "execute"]
              /\ on' = [on EXCEPT ![t] = held] /\ lock' = lock
           \/ /\ held = None /\ pc' = [pc EXCEPT ![t] = "connect"]
              /\ lock' = t /\ on' = on
    BY DEF EnterLock, Recheck, Modal
  <1> USE <1>0 DEF dbVars, history
  <1>1. Types'
    BY DEF Types, Labels, Active
  <1>2. Counted' /\ Ordered' /\ Modal'
    BY <1>1 DEF Counted, Ordered, Modal, Types, Labels, Active, Ended, Before, Holding, Opening
  <1>3. Hands' /\ Pooled' /\ Separate'
    BY <1>1 DEF Hands, Pooled, Separate, Shared, Types, Holding, Opening
  <1>4. Shared'
    BY <1>1 DEF Shared, Types, Opening, Holding, Hands, Out
  <1>5. Fresh' /\ Block'
    BY <1>1 DEF Fresh, Block, Types, Opening, Ended
  <1>6. \A u \in Tasks : pc[u] # "close"
    BY WriteAlone DEF Modal, Active
  <1>7. Scoping'
    BY <1>1, <1>6 DEF Scoping, Types, InScope, Cancelling, Active, Block, Ended
  <1>8. Ledger' /\ WritesPersist' /\ (stale = {})'
    BY <1>1 DEF Ledger, WritesPersist, Types, Entry
  <1> QED
    BY <1>1, <1>2, <1>3, <1>4, <1>5, <1>7, <1>8

\* engine.connect() takes a connection nobody has.
LEMMA ConnectKeeps ==
    ASSUME IInv, NEW t \in Tasks, Connect(t)
    PROVE  IInv'
  <1> USE TaskFacts DEF IInv, Goto, Tasks
  <1>0. PICK c \in Conns \ Out : /\ conns' = [conns EXCEPT ![c].out = TRUE]
                                 /\ on' = [on EXCEPT ![t] = c]
    BY DEF Connect
  <1>1. /\ UNCHANGED <<op, mode, settings, ran, requestVars, db, persisted, commits, history, faults>>
        /\ pc[t] = "connect" /\ mode # "raw"
        /\ \/ pc' = [pc EXCEPT ![t] = "begin"] /\ NeedsTxn(t)
           \/ pc' = [pc EXCEPT ![t] = "execute"] /\ ~NeedsTxn(t)
    BY DEF Connect, Modal
  <1>2. conns[c] = Free /\ c # None
    BY PgRequestAssumption DEF Out, Pooled
  <1>3. /\ conns' \in [Conns -> Connection]
        /\ conns'[c] = [Free EXCEPT !.out = TRUE]
        /\ \A d \in Conns : d # c => conns'[d] = conns[d]
    BY <1>0, <1>2 DEF Types, Connection, Free
  <1>4. /\ conns'[c].out /\ ~conns'[c].guc /\ conns'[c].snap = None
        /\ conns'[c].dirty = {} /\ ~conns'[c].aborted
    BY <1>3 DEF Free
  <1>5. \A u \in Tasks : on[u] # c
    BY <1>0, <1>2 DEF Hands, Out, Types
  <1>6. Types'
    BY <1>0, <1>1, <1>3 DEF Types, Labels, Active, requestVars, history
  <1>7. Counted' /\ Ordered' /\ Modal'
    BY <1>0, <1>1 DEF Counted, Ordered, Modal, Types, Active, Ended, Before, Holding, Opening, NeedsTxn
  <1>8. Hands'
    BY <1>0, <1>1, <1>2, <1>3, <1>4 DEF Hands, Types, Holding, Opening
  <1>9. Pooled' /\ Separate'
    BY <1>0, <1>1, <1>2, <1>3, <1>4, <1>5 DEF Pooled, Separate, Types, requestVars
  <1>10. mode = "shared" => pc' = [pc EXCEPT ![t] = "begin"] /\ lock = t /\ held = None
    BY <1>1 DEF NeedsTxn, Shared, Types
  <1>11. Shared'
    BY <1>0, <1>1, <1>2, <1>3, <1>4, <1>10 DEF Shared, Types, requestVars, history, Out, Opening, Hands, Holding
  <1>12. Fresh'
    BY <1>0, <1>1, <1>3, <1>4, <1>5 DEF Fresh, Types, Opening, Hands, Holding
  <1>13. Block'
    BY <1>0, <1>1 DEF Block, Types, Ended, requestVars
  <1>14. settings => pc' = [pc EXCEPT ![t] = "begin"]
    BY <1>1 DEF NeedsTxn
  <1>15. held # c
    BY <1>0, <1>2 DEF Separate, Shared, Out
  <1>16. Scoping'
    BY <1>0, <1>1, <1>2, <1>3, <1>5, <1>14, <1>15
    DEF Scoping, Types, InScope, Cancelling, Active, requestVars, history, Hands, Holding
  <1>17. Ledger'
    BY <1>0, <1>1, <1>3, <1>4, <1>5 DEF Ledger, Types, Entry, Hands, Holding
  <1>18. WritesPersist' /\ (stale = {})'
    BY <1>1 DEF WritesPersist, history
  <1> QED
    BY <1>6, <1>7, <1>8, <1>9, <1>11, <1>12, <1>13, <1>16, <1>17, <1>18

\* conn.begin() changes nothing but the transaction's own flag.
LEMMA BeginKeeps ==
    ASSUME IInv, NEW t \in Tasks, Begin(t)
    PROVE  IInv'
  <1> USE TaskFacts DEF IInv, Goto, Tasks
  <1> DEFINE c == on[t]
  <1>1. /\ UNCHANGED <<op, mode, settings, ran, on, requestVars, db, persisted, commits, history, faults>>
        /\ pc[t] = "begin" /\ c \in Conns /\ c # None /\ mode # "raw"
        /\ conns' = [conns EXCEPT ![c].begun = TRUE]
        /\ \/ pc' = [pc EXCEPT ![t] = "isolate"] /\ mode = "shared"
           \/ pc' = [pc EXCEPT ![t] = "configure"] /\ mode # "shared"
           \/ pc' = [pc EXCEPT ![t] = "execute"] /\ mode # "shared" /\ ~settings
    BY DEF Begin, Hands, Holding, Opening, Types, Modal
  <1>2. /\ conns' \in [Conns -> Connection]
        /\ conns'[c] = [conns[c] EXCEPT !.begun = TRUE]
        /\ \A d \in Conns : d # c => conns'[d] = conns[d]
    <2>0. conns[c] \in Connection
      BY <1>1 DEF Types
    <2>1. [conns[c] EXCEPT !.begun = TRUE] \in Connection
      BY <2>0, BegunConnection
    <2>2. conns' = [conns EXCEPT ![c] = [conns[c] EXCEPT !.begun = TRUE]]
      BY <1>1
    <2> QED
      BY <1>1, <2>1, <2>2 DEF Types
  <1>3. \A d \in Conns : /\ conns'[d].out = conns[d].out /\ conns'[d].guc = conns[d].guc
                         /\ conns'[d].snap = conns[d].snap /\ conns'[d].dirty = conns[d].dirty
                         /\ conns'[d].aborted = conns[d].aborted
    BY <1>1, <1>2 DEF Types, Connection
  <1>4. conns[c].out
    BY <1>1 DEF Hands
  <1> HIDE DEF c
  <1>5. Types'
    BY <1>1, <1>2 DEF Types, Labels, Active, requestVars, history
  <1>6. Counted' /\ Ordered' /\ Modal'
    BY <1>1 DEF Counted, Ordered, Modal, Types, Active, Ended, Before, Holding, Opening
  <1>7. Hands'
    BY <1>1, <1>3 DEF Hands, Types, Holding, Opening
  <1>8. Pooled' /\ Separate'
    BY <1>1, <1>2, <1>3, <1>4 DEF Pooled, Separate, Types, requestVars
  <1>9. Shared'
    BY <1>1, <1>3 DEF Shared, Types, requestVars, history, Out, Opening
  <1>10. Fresh' /\ Block'
    BY <1>1, <1>3 DEF Fresh, Block, Types, Ended, Opening, requestVars, Hands, Holding
  <1>11. Scoping'
    BY <1>1, <1>3 DEF Scoping, Types, InScope, Cancelling, Active, requestVars, history, Hands, Holding
  <1>12. Ledger'
    BY <1>1, <1>3 DEF Ledger, Types, Entry, Hands, Holding, Opening
  <1>13. WritesPersist' /\ (stale = {})'
    BY <1>1 DEF WritesPersist, history
  <1> QED
    BY <1>5, <1>6, <1>7, <1>8, <1>9, <1>10, <1>11, <1>12, <1>13

\* The isolation level is set; without settings this publishes the transaction.
LEMMA IsolateKeeps ==
    ASSUME IInv, NEW t \in Tasks, Isolate(t)
    PROVE  IInv'
  <1> USE TaskFacts DEF IInv, Goto, Tasks
  <1>0. /\ pc[t] = "isolate" /\ on[t] \in Conns /\ on[t] # None /\ conns[on[t]].out
        /\ mode = "shared" /\ lock = t /\ held = None
    BY DEF Isolate, Hands, Holding, Opening, Types, Modal, Shared
  <1>1. /\ UNCHANGED <<op, mode, settings, ran, on, ctx, dbVars, history, faults>>
        /\ txn' \in BOOLEAN
        /\ \/ pc' = [pc EXCEPT ![t] = "configure"] /\ settings /\ held' = held /\ lock' = lock
           \/ pc' = [pc EXCEPT ![t] = "execute"] /\ ~settings /\ held' = on[t] /\ lock' = None
    BY DEF Isolate, Publish, requestVars, Types
  <1> USE <1>0, <1>1 DEF dbVars, history
  <1>2. Types'
    BY DEF Types, Labels, Active
  <1>3. Counted' /\ Ordered' /\ Modal'
    BY <1>2 DEF Counted, Ordered, Modal, Types, Active, Ended, Before, Holding, Opening
  <1>4. Hands' /\ Pooled' /\ Separate'
    BY <1>2 DEF Hands, Pooled, Separate, Types, Holding, Opening
  <1>5. Shared'
    <2>1. \A u \in Tasks : pc[u] \notin {"execute", "commit", "close"}
      BY DEF Shared, Hands, Holding
    <2>2. \A u \in Tasks : pc[u] \in Opening \cup {"connect"} <=> u = t
      BY DEF Shared
    <2>3. \A d \in Out : d \in lost \/ d = on[t]
      BY PgRequestAssumption DEF Shared, Out
    <2> QED
      BY <1>2, <2>1, <2>2, <2>3 DEF Shared, Types, Out, Opening
  <1>6. Fresh' /\ Block'
    BY <1>2 DEF Fresh, Block, Types, Ended, Opening
  <1>7. Scoping'
    BY <1>2 DEF Scoping, Types, InScope, Cancelling, Active
  <1>8. Ledger' /\ WritesPersist' /\ (stale = {})'
    BY <1>2 DEF Ledger, WritesPersist, Types, Entry
  <1> QED
    BY <1>2, <1>3, <1>4, <1>5, <1>6, <1>7, <1>8

\* The settings are applied; a shared open then publishes the transaction.
LEMMA ConfigureKeeps ==
    ASSUME IInv, NEW t \in Tasks, Configure(t)
    PROVE  IInv'
  <1> USE TaskFacts DEF IInv, Goto, Tasks
  <1> DEFINE c == on[t]
  <1>0. /\ pc[t] = "configure" /\ c \in Conns /\ c # None /\ mode # "raw"
        /\ mode = "shared" => lock = t /\ held = None
    BY DEF Configure, Hands, Holding, Opening, Types, Modal, Shared
  <1>1. /\ UNCHANGED <<op, mode, settings, ran, on, ctx, db, persisted, commits, history, faults>>
        /\ txn' \in BOOLEAN
        /\ pc[t] = "configure" /\ c \in Conns /\ c # None /\ mode # "raw"
        /\ conns' = [conns EXCEPT ![c].guc = TRUE]
        /\ pc' = [pc EXCEPT ![t] = "execute"]
        /\ \/ mode = "shared" /\ held' = c /\ lock' = None /\ lock = t /\ held = None
           \/ mode # "shared" /\ held' = held /\ lock' = lock
    BY <1>0 DEF Configure, Publish, requestVars, Types
  <1>2. /\ conns' \in [Conns -> Connection]
        /\ conns'[c] = [conns[c] EXCEPT !.guc = TRUE]
        /\ \A d \in Conns : d # c => conns'[d] = conns[d]
    <2> DEFINE new == [conns[c] EXCEPT !.guc = TRUE]
    <2>1. conns \in [Conns -> Connection] /\ c \in Conns /\ conns' = [conns EXCEPT ![c] = new]
      BY <1>1 DEF Types
    <2>2. new \in Connection
      <3>1. \A r \in Connection : [r EXCEPT !.guc = TRUE] \in Connection
        BY ONLY DEF Connection
      <3> QED
        BY ONLY <2>1, <3>1
    <2>3. conns' \in [Conns -> Connection] /\ conns'[c] = new /\ \A d \in Conns : d # c => conns'[d] = conns[d]
      <3> HIDE DEF new
      <3> QED
        BY ONLY <2>1, <2>2
    <2> QED
      BY ONLY <2>3
  <1>3. \A d \in Conns : /\ conns'[d].out = conns[d].out /\ (conns[d].guc => conns'[d].guc)
                         /\ conns'[d].snap = conns[d].snap /\ conns'[d].dirty = conns[d].dirty
                         /\ conns'[d].aborted = conns[d].aborted
    BY <1>1, <1>2 DEF Types, Connection
  <1>4. conns[c].out /\ conns'[c].guc
    BY <1>1, <1>2 DEF Hands, Types, Connection
  <1> HIDE DEF c
  <1>5. Types'
    BY <1>1, <1>2 DEF Types, Labels, Active, history
  <1>6. Counted' /\ Ordered' /\ Modal'
    BY <1>1 DEF Counted, Ordered, Modal, Types, Active, Ended, Before, Holding, Opening
  <1>7. Hands'
    BY <1>1, <1>3 DEF Hands, Types, Holding, Opening
  <1>8. Pooled' /\ Separate'
    BY <1>1, <1>2, <1>3, <1>4 DEF Pooled, Separate, Types
  <1>9. Shared'
    <2> SUFFICES ASSUME mode = "shared" PROVE Shared'
      BY <1>1 DEF Shared
    <2>1. \A u \in Tasks : pc[u] \notin {"execute", "commit", "close"}
      BY <1>0 DEF Shared, Hands, Holding
    <2>2. \A u \in Tasks : pc[u] \in Opening \cup {"connect"} <=> u = t
      BY <1>0 DEF Shared
    <2>3. \A d \in Out : d \in lost \/ d = c
      BY <1>0, PgRequestAssumption DEF Shared, Out, c
    <2> QED
      BY <1>1, <1>3, <1>4, <2>1, <2>2, <2>3 DEF Shared, Types, Out, Opening, c, history
  <1>10. Fresh' /\ Block'
    BY <1>1, <1>3 DEF Fresh, Block, Types, Ended, Opening, Hands, Holding
  <1>11. Scoping'
    BY <1>1, <1>3, <1>4 DEF Scoping, Types, InScope, Cancelling, Active, history, Hands, Holding, c
  <1>12. Ledger'
    BY <1>1, <1>3 DEF Ledger, Types, Entry, Hands, Holding, Opening
  <1>13. WritesPersist' /\ (stale = {})'
    BY <1>1 DEF WritesPersist, history
  <1> QED
    BY <1>5, <1>6, <1>7, <1>8, <1>9, <1>10, <1>11, <1>12, <1>13

\* A statement that a closed or aborted connection refuses.
LEMMA ExecuteRefusedKeeps ==
    ASSUME IInv, NEW t \in Tasks, ExecuteRefused(t)
    PROVE  IInv'
  <1> USE TaskFacts DEF IInv, Goto, Tasks
  <1>1. /\ pc[t] = "execute" /\ on[t] \in Conns /\ conns[on[t]].out
        /\ pc' = [pc EXCEPT ![t] = "failed"] /\ on' = [on EXCEPT ![t] = None]
        /\ UNCHANGED <<op, mode, settings, ran, requestVars, dbVars, seen, unscoped, lost, doubt, faults>>
    BY DEF ExecuteRefused, Hands, Holding, Types
  <1>2. stale' = stale
    BY <1>1 DEF ExecuteRefused
  <1> USE <1>1, <1>2 DEF requestVars, dbVars
  <1>3. Types'
    BY DEF Types, Labels, Ended
  <1>4. Counted' /\ Ordered' /\ Modal'
    BY <1>3 DEF Counted, Ordered, Modal, Types, Active, Ended, Before, Holding, Opening
  <1>5. Hands' /\ Pooled' /\ Separate'
    BY <1>3 DEF Hands, Pooled, Separate, Types, Holding, Opening
  <1>6. Shared'
    BY <1>3 DEF Shared, Types, Out, Opening
  <1>7. Fresh' /\ Block'
    BY <1>3 DEF Fresh, Block, Types, Ended, Opening
  <1>8. Scoping'
    BY <1>3 DEF Scoping, Types, InScope, Cancelling, Active
  <1>9. Ledger' /\ WritesPersist' /\ (stale = {})'
    BY <1>3 DEF Ledger, WritesPersist, Types, Entry
  <1> QED
    BY <1>3, <1>4, <1>5, <1>6, <1>7, <1>8, <1>9

-----------------------------------------------------------------------------
(* Running a statement.                                                    *)

\* A statement runs, and its task goes on to commit, to close or to its end.
LEMMA ExecuteKeeps ==
    ASSUME IInv, NEW t \in Tasks, Execute(t)
    PROVE  IInv'
  <1> USE TaskFacts DEF IInv, Goto, Tasks
  <1> DEFINE c == on[t]
             version == IF mode = "shared" THEN Version(t) ELSE None
             written == IF op[t].write THEN conns[c].dirty \cup {Entry(t)} ELSE conns[c].dirty
  <1>1. /\ pc[t] = "execute" /\ c \in Conns /\ c # None /\ mode # "raw"
        /\ conns[c].out /\ ~conns[c].aborted
    BY DEF Execute, Hands, Holding, Types, Modal
  <1>2. /\ UNCHANGED <<op, mode, settings, requestVars, db, persisted, commits, stale, lost, doubt, faults>>
        /\ conns' = [conns EXCEPT ![c].snap = version, ![c].dirty = written]
        /\ seen' = IF op[t].write THEN seen ELSE [seen EXCEPT ![t] = Version(t)]
    BY <1>1 DEF Execute
  <1>3. \/ /\ Commits(t) /\ pc' = [pc EXCEPT ![t] = "commit"] /\ ran' = ran /\ on' = on
        \/ /\ ~op[t].write /\ mode = "plain" /\ pc' = [pc EXCEPT ![t] = "close"]
           /\ ran' = [ran EXCEPT ![t] = @ + 1] /\ on' = on
        \/ /\ ~op[t].write /\ mode = "shared"
           /\ pc' = [pc EXCEPT ![t] = IF ran[t] + 1 = op[t].count THEN "done" ELSE "idle"]
           /\ ran' = [ran EXCEPT ![t] = @ + 1] /\ on' = [on EXCEPT ![t] = None]
    BY <1>1, PgRequestAssumption DEF Execute, Commits, AfterStatement, Types
  <1>4. Version(t) \in Nat /\ Entry(t) \in Nat \X Nat
    BY <1>1 DEF Version, Types, Connection, Entry
  <1>5. /\ conns' \in [Conns -> Connection]
        /\ conns'[c] = [conns[c] EXCEPT !.snap = version, !.dirty = written]
        /\ \A d \in Conns : d # c => conns'[d] = conns[d]
    <2>1. conns[c] \in Connection /\ version \in Nat \cup {None} /\ written \in SUBSET (Nat \X Nat)
      BY <1>1, <1>4 DEF Types, Connection
    <2>2. [conns[c] EXCEPT !.snap = version, !.dirty = written] \in Connection
      BY <2>1 DEF Connection
    <2>3. conns' = [conns EXCEPT ![c] = [conns[c] EXCEPT !.snap = version, !.dirty = written]]
      BY <1>1, <1>2 DEF Types, Connection
    <2> QED
      BY <1>1, <2>2, <2>3 DEF Types
  <1> HIDE DEF c, version, written
  <1>6. /\ \A d \in Conns : /\ conns'[d].out = conns[d].out /\ conns'[d].guc = conns[d].guc
                            /\ conns'[d].aborted = conns[d].aborted
    <2>1. conns[c] \in Connection
      BY <1>1 DEF Types
    <2>2. /\ conns'[c].out = conns[c].out /\ conns'[c].guc = conns[c].guc
          /\ conns'[c].aborted = conns[c].aborted
      BY <1>5, <2>1 DEF Connection
    <2> QED
      BY <1>5, <2>2
  <1>21. conns'[c].dirty = written
    <2>1. conns[c] \in Connection
      BY <1>1 DEF Types
    <2> QED
      BY <1>5, <2>1 DEF Connection
  <1>7. Types'
    BY <1>1, <1>2, <1>3, <1>4, <1>5 DEF Types, Labels, Active, Ended, requestVars
  <1>8. Counted'
    BY <1>1, <1>2, <1>3 DEF Counted, Types, Ended
  <1>9. Ordered' /\ Modal'
    BY <1>1, <1>2, <1>3 DEF Ordered, Modal, Types, Active, Ended, Before, Holding, Opening, Commits
  <1>10. Hands'
    BY <1>1, <1>2, <1>3, <1>6 DEF Hands, Types, Holding, Opening
  <1>11. Pooled'
    BY <1>1, <1>5, <1>6 DEF Pooled, Types
  <1>12. Separate'
    BY <1>1, <1>2, <1>3 DEF Separate, Types, requestVars
  <1>13. Shared'
    BY <1>1, <1>2, <1>3, <1>6 DEF Shared, Types, requestVars, Out, Opening
  <1>14. \A u \in Tasks : pc[u] \in Opening => on[u] # c
    BY <1>1 DEF Separate, Shared, Hands, Holding, Opening, c, Types
  <1>15. Fresh' /\ Block'
    BY <1>1, <1>2, <1>3, <1>5, <1>14 DEF Fresh, Block, Types, Ended, Opening, requestVars, Hands, Holding
  <1>16. unscoped' = {}
    BY <1>1 DEF Execute, Scoped, Scoping, InScope, c
  <1>17. Scoping'
    BY <1>1, <1>2, <1>3, <1>6, <1>16
    DEF Scoping, Types, InScope, Cancelling, Active, Ended, requestVars, Hands, Holding, Shared, Separate, c
  <1>18. conns[c].dirty = {}
    <2> SUFFICES ASSUME NEW e \in conns[c].dirty PROVE FALSE
      BY <1>1 DEF Types, Connection
    <2>1. PICK u \in Tasks : pc[u] = "commit" /\ on[u] = c /\ op[u].write
      BY <1>1 DEF Ledger
    <2>2. mode = "shared"
      BY <1>1, <2>1 DEF Separate, c
    <2> QED
      BY <1>1, <2>1, WriteAlone DEF Active
  <1>19. Ledger'
    BY <1>1, <1>2, <1>3, <1>5, <1>18, <1>21 DEF Ledger, Types, Entry, Hands, Holding, c, written, Commits
  <1>20. WritesPersist' /\ (stale = {})'
    BY <1>2, <1>3 DEF WritesPersist, Types, Commits
  <1> QED
    BY <1>7, <1>8, <1>9, <1>10, <1>11, <1>12, <1>13, <1>15, <1>17, <1>19, <1>20

\* RawExecutor.run touches no connection of the request's.
LEMMA RunRawKeeps ==
    ASSUME IInv, NEW t \in Tasks, RunRaw(t)
    PROVE  IInv'
  <1> USE TaskFacts DEF IInv, Goto, Tasks
  <1>1. /\ pc[t] = "host" /\ mode = "raw" /\ on[t] = None /\ ran[t] < op[t].count
        /\ UNCHANGED <<op, mode, settings, on, requestVars, conns, commits, unscoped, stale, lost, doubt, faults>>
        /\ ran' = [ran EXCEPT ![t] = @ + 1]
    BY DEF RunRaw, AfterStatement, Modal, Hands, Holding, Opening, Counted, Ended
  <1>2. /\ db' \in Nat /\ seen' \in [Tasks -> Nat \cup {None}]
        /\ ran[t] \in Nat /\ op[t].count \in Nat
    BY <1>1 DEF RunRaw, Types
  <1>3. \/ pc' = [pc EXCEPT ![t] = "done"] /\ ran[t] + 1 = op[t].count
        \/ pc' = [pc EXCEPT ![t] = "idle"] /\ ran[t] + 1 < op[t].count
    <2>1. CASE ran[t] + 1 = op[t].count
      BY <1>1, <2>1 DEF RunRaw, AfterStatement
    <2>2. CASE ran[t] + 1 # op[t].count
      <3>1. ran[t] + 1 < op[t].count
        BY <1>1, <1>2, <2>2
      <3> QED
        BY <2>2, <3>1 DEF RunRaw, AfterStatement
    <2> QED
      BY <2>1, <2>2
  <1>11. Types'
    <2>1. ran' \in [Tasks -> Nat]
      BY <1>1, <1>2 DEF Types
    <2>2. pc' \in [Tasks -> Labels]
      BY <1>1, <1>3 DEF Types, Labels, Active, Ended
    <2> QED
      BY <1>1, <1>2, <2>1, <2>2 DEF Types, requestVars
  <1>4. Counted'
    BY <1>1, <1>2, <1>3 DEF Counted, Types, Ended
  <1>5. Ordered' /\ Modal'
    BY <1>1, <1>2, <1>3 DEF Ordered, Modal, Types, Active, Ended, Before, Holding, Opening
  <1>6. Hands' /\ Pooled' /\ Separate' /\ Shared'
    BY <1>1, <1>2, <1>3 DEF Hands, Pooled, Separate, Shared, Types, Holding, Opening, requestVars
  <1>7. Fresh' /\ Block'
    BY <1>1, <1>2, <1>3 DEF Fresh, Block, Types, Ended, Opening, requestVars
  <1>8. Scoping'
    BY <1>1, <1>2, <1>3 DEF Scoping, Types, InScope, Cancelling, Active, Ended, requestVars, Separate
  <1>9. Ledger' /\ (stale = {})'
    BY <1>1, <1>2, <1>3 DEF Ledger, Types, Entry, Modal, Holding
  <1>10. WritesPersist'
    <2>1. persisted' = IF op[t].write THEN persisted \cup {<<t, ran[t] + 1>>} ELSE persisted
      BY DEF RunRaw, Entry
    <2>2. \A n : n \in 1 .. ran'[t] <=> n \in 1 .. ran[t] \/ n = ran[t] + 1
      <3>1. ran'[t] = ran[t] + 1 /\ ran[t] \in Nat
        BY <1>1, <1>2 DEF Types
      <3> QED
        BY <3>1, UpTo
    <2>3. \A u \in Tasks : u # t => ran'[u] = ran[u]
      BY <1>1 DEF Types
    <2> QED
      BY <1>1, <2>1, <2>2, <2>3 DEF WritesPersist
  <1> QED
    BY <1>4, <1>5, <1>6, <1>7, <1>8, <1>9, <1>10, <1>11

-----------------------------------------------------------------------------
(* Ending a transaction, and closing its connection.                       *)

\* A statement that fails aborts its connection's transaction and no other.
LEMMA Aborts ==
    ASSUME NEW f \in [Conns -> Connection], NEW c \in Conns
    PROVE  LET g == [f EXCEPT ![c].aborted = TRUE]
           IN  g \in [Conns -> Connection] /\ \A d \in Conns : d # c => g[d] = f[d]
  <1> DEFINE new == [f[c] EXCEPT !.aborted = TRUE]
  <1>1. [f EXCEPT ![c].aborted = TRUE] = [f EXCEPT ![c] = new]
    OBVIOUS
  <1>2. new \in Connection
    BY DEF Connection
  <1> HIDE DEF new
  <1> QED
    BY ONLY <1>1, <1>2, f \in [Conns -> Connection], c \in Conns

\* EndTxn leaves the connection out and its transaction over.
LEMMA EndTxnProperties ==
    ASSUME conns \in [Conns -> Connection], NEW c \in Conns
    PROVE  /\ EndTxn(c) \in [Conns -> Connection]
           /\ EndTxn(c)[c] = [out |-> conns[c].out, begun |-> FALSE, guc |-> FALSE, snap |-> None,
                              dirty |-> {}, aborted |-> FALSE]
           /\ \A d \in Conns : d # c => EndTxn(c)[d] = conns[d]
  <1> DEFINE r == conns[c]
             x == [r EXCEPT !.begun = FALSE, !.guc = FALSE, !.snap = None, !.dirty = {}, !.aborted = FALSE]
  <1>1. r \in Connection
    OBVIOUS
  <1>2. EndTxn(c) = [conns EXCEPT ![c] = x]
    BY DEF EndTxn
  <1> HIDE DEF r
  <1>3. x \in Connection
    BY ONLY <1>1 DEF Connection
  <1>4. x.out = r.out /\ x.begun = FALSE /\ x.guc = FALSE /\ x.snap = None /\ x.dirty = {} /\ x.aborted = FALSE
    BY ONLY <1>1 DEF Connection
  <1> HIDE DEF x
  <1>5. x = [out |-> x.out, begun |-> x.begun, guc |-> x.guc, snap |-> x.snap, dirty |-> x.dirty,
             aborted |-> x.aborted]
    BY ONLY <1>3 DEF Connection
  <1>6. x = [out |-> r.out, begun |-> FALSE, guc |-> FALSE, snap |-> None, dirty |-> {}, aborted |-> FALSE]
    BY ONLY <1>4, <1>5
  <1> QED
    BY <1>2, <1>3, <1>6 DEF r

\* GiveBack puts a connection as good as new into the pool.
LEMMA GiveBackProperties ==
    ASSUME conns \in [Conns -> Connection], NEW c \in Conns
    PROVE  /\ GiveBack(c) \in [Conns -> Connection]
           /\ GiveBack(c)[c] = Free
           /\ \A d \in Conns : d # c => GiveBack(c)[d] = conns[d]
           /\ Free \in Connection /\ ~Free.out /\ ~Free.guc /\ Free.snap = None
           /\ Free.dirty = {} /\ ~Free.aborted
  BY DEF GiveBack, Connection, Free

\* A connection that is committed on or closed is in nobody else's hands.
LEMMA HandsApart ==
    ASSUME IInv, NEW t \in Tasks, NEW u \in Tasks, u # t, pc[t] \in {"commit", "close"}
    PROVE  on[u] # on[t]
  <1> USE DEF IInv
  <1>1. on[t] # None
    BY DEF Hands, Holding
  <1>2. CASE mode = "shared"
    <2>1. op[t].write /\ pc[t] \in Active
      BY <1>2 DEF Modal, Active
    <2>2. pc[u] \notin Active
      BY <2>1, WriteAlone
    <2> QED
      BY <1>1, <2>2 DEF Hands, Holding, Opening, Active
  <1>3. CASE mode # "shared"
    BY <1>1, <1>3 DEF Separate
  <1> QED
    BY <1>2, <1>3

\* A transaction commits what its one statement wrote.
LEMMA CommitKeeps ==
    ASSUME IInv, NEW t \in Tasks, Commit(t)
    PROVE  IInv'
  <1> USE TaskFacts DEF IInv, Goto, Tasks
  <1> DEFINE c == on[t]
  <1>1. /\ pc[t] = "commit" /\ c \in Conns /\ c # None /\ mode # "raw" /\ conns[c].out
        /\ ran[t] < op[t].count
        /\ mode = "shared" => held = c /\ op[t].write
    BY DEF Commit, Hands, Holding, Types, Modal, Shared, Counted, Ended
  <1>2. /\ UNCHANGED <<op, mode, settings, on, held, lock, ctx, commits, history, faults>>
        /\ conns' = EndTxn(c) /\ txn' \in BOOLEAN
        /\ ran' = [ran EXCEPT ![t] = @ + 1]
        /\ pc' = [pc EXCEPT ![t] = "close"]
    BY DEF Commit, Types
  <1>15. persisted' = persisted \cup conns[c].dirty /\ db' \in Nat
    <2>1. db' = IF conns[c].dirty = {} THEN db ELSE db + 1
      BY DEF Commit, Committed
    <2> QED
      BY <2>1 DEF Commit, Committed, Types
  <1>3. /\ conns' \in [Conns -> Connection]
        /\ \A d \in Conns : d # c => conns'[d] = conns[d]
        /\ conns'[c].out = conns[c].out /\ conns'[c].snap = None /\ conns'[c].dirty = {}
    <2>1. conns \in [Conns -> Connection]
      BY DEF Types
    <2>2. /\ EndTxn(c) \in [Conns -> Connection]
          /\ EndTxn(c)[c] = [out |-> conns[c].out, begun |-> FALSE, guc |-> FALSE, snap |-> None,
                             dirty |-> {}, aborted |-> FALSE]
          /\ \A d \in Conns : d # c => EndTxn(c)[d] = conns[d]
      BY <1>1, <2>1, EndTxnProperties
    <2> QED
      BY <1>2, <2>2
  <1>4. \A d \in Conns : conns'[d].out = conns[d].out
    BY <1>1, <1>3
  <1>5. \A u \in Tasks : u # t => on[u] # c
    BY <1>1, HandsApart
  <1> HIDE DEF c
  <1>6. Types'
    BY <1>1, <1>2, <1>3, <1>15 DEF Types, Labels, Active, history
  <1>7. Counted' /\ Ordered' /\ Modal'
    BY <1>1, <1>2 DEF Counted, Ordered, Modal, Types, Active, Ended, Before, Holding, Opening
  <1>8. Hands' /\ Pooled' /\ Separate'
    BY <1>1, <1>2, <1>3, <1>4 DEF Hands, Pooled, Separate, Types, Holding, Opening
  <1>9. Shared'
    BY <1>1, <1>2, <1>4 DEF Shared, Types, Out, Opening, c, history
  <1>10. Fresh' /\ Block'
    BY <1>1, <1>2, <1>3, <1>5 DEF Fresh, Block, Types, Ended, Opening, Hands, Holding
  <1>11. Scoping'
    BY <1>1, <1>2, <1>3, <1>5 DEF Scoping, Types, InScope, Cancelling, Active, history, Hands, Holding
  <1>12. Ledger'
    <2>1. \A u \in Tasks : u # t => Entry(u)' = Entry(u) /\ pc'[u] = pc[u] /\ on'[u] = on[u]
      BY <1>2 DEF Entry, Types
    <2>2. pc'[t] = "close"
      BY <1>2 DEF Types
    <2>3. ASSUME NEW d \in Conns, NEW e \in conns'[d].dirty
          PROVE  \E u \in Tasks : pc'[u] = "commit" /\ on'[u] = d /\ op[u].write /\ e = Entry(u)'
      <3>1. d # c /\ e \in conns[d].dirty
        BY <1>3, <2>3
      <3> QED
        BY <2>1, <3>1 DEF Ledger, c
    <2>4. ASSUME NEW u \in Tasks, pc'[u] = "commit", op[u].write
          PROVE  Entry(u)' \in conns'[on'[u]].dirty
      <3>1. u # t /\ on[u] # c /\ on[u] \in Conns
        BY <1>5, <2>1, <2>2, <2>4 DEF Hands, Holding, Types
      <3> QED
        BY <1>3, <2>1, <2>4, <3>1 DEF Ledger
    <2> QED
      BY <1>2, <2>3, <2>4 DEF Ledger
  <1>13. conns[c].dirty = IF op[t].write THEN {<<t, ran[t] + 1>>} ELSE {}
    <2>1. \A e \in conns[c].dirty : op[t].write /\ e = <<t, ran[t] + 1>>
      BY <1>1, <1>5 DEF Ledger, Entry, c
    <2>2. op[t].write => <<t, ran[t] + 1>> \in conns[c].dirty
      BY <1>1 DEF Ledger, Entry, c
    <2> QED
      BY <2>1, <2>2
  <1>14. WritesPersist' /\ (stale = {})'
    <2>1. \A n : n \in 1 .. ran'[t] <=> n \in 1 .. ran[t] \/ n = ran[t] + 1
      BY <1>2, UpTo DEF Types
    <2>2. \A u \in Tasks : u # t => ran'[u] = ran[u]
      BY <1>2 DEF Types
    <2> QED
      BY <1>2, <1>13, <1>15, <2>1, <2>2 DEF WritesPersist, history
  <1> QED
    BY <1>6, <1>7, <1>8, <1>9, <1>10, <1>11, <1>12, <1>14

\* The connection goes back to the pool; a write lets go of the held one.
LEMMA CloseKeeps ==
    ASSUME IInv, NEW t \in Tasks, Close(t)
    PROVE  IInv'
  <1> USE TaskFacts DEF IInv, Goto, Tasks
  <1> DEFINE c == on[t]
  <1>1. /\ pc[t] = "close" /\ c \in Conns /\ c # None /\ mode # "raw" /\ conns[c].out
        /\ ran[t] <= op[t].count
        /\ mode = "shared" => held = c /\ op[t].write
        /\ mode # "shared" => held = None
    BY DEF Close, Hands, Holding, Types, Modal, Shared, Separate, Counted
  <1>2. /\ UNCHANGED <<op, mode, settings, ran, txn, lock, ctx, db, persisted, commits, history, faults>>
        /\ conns' = GiveBack(c)
        /\ held' = None
        /\ on' = [on EXCEPT ![t] = None]
    BY <1>1 DEF Close
  <1>3. \/ pc' = [pc EXCEPT ![t] = "done"]
        \/ pc' = [pc EXCEPT ![t] = "idle"] /\ ran[t] < op[t].count
    <2>1. CASE ran[t] = op[t].count
      BY <2>1 DEF Close
    <2>2. CASE ran[t] # op[t].count
      <3>1. ran[t] < op[t].count
        BY <1>1, <2>2 DEF Types
      <3> QED
        BY <2>2, <3>1 DEF Close
    <2> QED
      BY <2>1, <2>2
  <1>4. /\ conns' \in [Conns -> Connection]
        /\ \A d \in Conns : d # c => conns'[d] = conns[d]
        /\ conns'[c] = Free /\ ~conns'[c].out /\ conns'[c].dirty = {}
    BY <1>1, <1>2, GiveBackProperties DEF Types
  <1>5. \A u \in Tasks : u # t => on[u] # c
    BY <1>1, HandsApart
  <1>6. mode = "shared" => \A u \in Tasks : u # t => pc[u] \notin Active
    BY <1>1, WriteAlone DEF Active
  <1> HIDE DEF c
  <1>7. Types'
    BY <1>1, <1>2, <1>3, <1>4 DEF Types, Labels, Ended, history
  <1>8. Counted' /\ Ordered' /\ Modal'
    BY <1>1, <1>2, <1>3 DEF Counted, Ordered, Modal, Types, Active, Ended, Before, Holding, Opening
  <1>9. Hands'
    BY <1>1, <1>2, <1>3, <1>4, <1>5 DEF Hands, Types, Holding, Opening
  <1>10. Pooled' /\ Separate'
    BY <1>1, <1>2, <1>4 DEF Pooled, Separate, Types
  <1>11. Shared'
    <2> SUFFICES ASSUME mode = "shared" PROVE Shared'
      BY <1>2 DEF Shared
    <2>1. \A u \in Tasks : lock' = u <=> pc'[u] \in Opening \cup {"connect"}
      BY <1>1, <1>2, <1>3 DEF Shared, Types, Opening
    <2>2. \A u \in Tasks : pc'[u] \notin {"execute", "commit", "close"}
      BY <1>3, <1>6 DEF Types, Active
    <2>3. \A d \in Conns : conns'[d].out => d # c /\ conns[d].out
      BY <1>4
    <2> QED
      BY <1>1, <1>2, <2>1, <2>2, <2>3 DEF Shared, Out, history, Hands, Holding, Types
  <1>12. Fresh' /\ Block'
    BY <1>1, <1>2, <1>3, <1>4, <1>5 DEF Fresh, Block, Types, Ended, Opening, Hands, Holding
  <1>13. Scoping'
    BY <1>1, <1>2, <1>3, <1>4, <1>5 DEF Scoping, Types, InScope, Cancelling, Active, history, Hands, Holding
  <1>14. Ledger'
    BY <1>1, <1>2, <1>3, <1>4, <1>5 DEF Ledger, Types, Entry, Hands, Holding
  <1>15. WritesPersist' /\ (stale = {})'
    BY <1>2 DEF WritesPersist, history
  <1> QED
    BY <1>7, <1>8, <1>9, <1>10, <1>11, <1>12, <1>13, <1>14, <1>15

-----------------------------------------------------------------------------
(* Failures and cancellation.                                              *)

(***************************************************************************)
(* Where an exception or a cancellation may meet a task, unwinding it      *)
(* keeps the invariant, whether or not an interrupted commit has landed.   *)
(***************************************************************************)
LEMMA UnwindKeeps ==
    ASSUME IInv, NEW t \in Tasks, NEW how \in {"failed", "cancelled"},
           pc[t] \notin Ended, how = "cancelled" \/ pc[t] # "close",
           Unwind(t, how), UNCHANGED <<op, mode, settings, ran, commits>>
    PROVE  IInv'
  <1> USE TaskFacts DEF IInv, Goto, Tasks
  <1> DEFINE c == on[t]
  <1>1. /\ UNCHANGED <<op, mode, settings, ran, held, txn, ctx, seen, unscoped, stale>>
        /\ pc' = [pc EXCEPT ![t] = how]
        /\ on' = [on EXCEPT ![t] = None]
        /\ lock' = IF lock = t THEN None ELSE lock
        /\ lost' = IF mode = "shared" /\ pc[t] \in Opening THEN lost \cup {c} ELSE lost
    BY DEF Unwind
  <1>2. /\ c # None <=> pc[t] \in Holding
        /\ c # None => c \in Conns /\ conns[c].out
        /\ mode = "raw" => c = None
    BY DEF Hands, Types, Modal
  <1>3. /\ conns' \in [Conns -> Connection]
        /\ \A d \in Conns : d # c => conns'[d] = conns[d]
        /\ c = None => conns' = conns
    <2>1. conns \in [Conns -> Connection]
      BY DEF Types
    <2>2. CASE conns' = conns
      BY <2>1, <2>2
    <2>3. CASE c \in Conns /\ conns' = GiveBack(c) /\ c # None
      BY <2>1, <2>3, GiveBackProperties
    <2>4. CASE c \in Conns /\ conns' = [conns EXCEPT ![c].aborted = TRUE] /\ c # None
      <3> HIDE DEF c
      <3> QED
        BY ONLY <2>1, <2>4, Aborts
    <2>5. CASE c \in Conns /\ conns' = [EndTxn(c) EXCEPT ![c].aborted = TRUE] /\ c # None
      <3>1. EndTxn(c) \in [Conns -> Connection] /\ \A d \in Conns : d # c => EndTxn(c)[d] = conns[d]
        BY <2>1, <2>5, EndTxnProperties
      <3> DEFINE ended == EndTxn(c)
      <3> HIDE DEF c, ended
      <3>2. conns' = [ended EXCEPT ![c].aborted = TRUE] /\ ended \in [Conns -> Connection] /\ c \in Conns
        BY ONLY <2>5, <3>1 DEF ended
      <3>3. conns' \in [Conns -> Connection] /\ \A d \in Conns : d # c => conns'[d] = ended[d]
        BY ONLY <3>2, Aborts
      <3> QED
        BY ONLY <2>5, <3>1, <3>3 DEF ended
    <2> QED
      BY <1>2, <2>2, <2>3, <2>4, <2>5 DEF Unwind
  <1>4. mode = "plain" /\ c # None => conns'[c] = Free
    <2>1. conns \in [Conns -> Connection]
      BY DEF Types
    <2> QED
      BY <1>2, <2>1, GiveBackProperties DEF Unwind
  <1>5. mode = "shared" /\ c # None =>
            /\ conns'[c].out = conns[c].out
            /\ conns'[c].dirty = IF pc[t] = "commit" THEN {} ELSE conns[c].dirty
            /\ conns'[c].snap = IF pc[t] = "commit" THEN None ELSE conns[c].snap
            /\ pc[t] \in {"execute", "commit"} => conns'[c].guc \/ conns'[c].aborted
            /\ pc[t] \notin {"execute", "commit"} => conns'[c] = conns[c]
    <2> HAVE mode = "shared" /\ c # None
    <2>1. conns \in [Conns -> Connection] /\ c \in Conns /\ conns[c] \in Connection /\ conns[c].out
      BY <1>2 DEF Types
    <2>2. CASE pc[t] = "execute"
      <3>1. conns' = [conns EXCEPT ![c].aborted = TRUE]
        BY <2>1, <2>2 DEF Unwind
      <3> HIDE DEF c
      <3> QED
        BY <2>1, <2>2, <3>1 DEF Connection
    <2>3. CASE pc[t] = "commit"
      <3>1. conns' = [EndTxn(c) EXCEPT ![c].aborted = TRUE]
        BY <2>1, <2>3 DEF Unwind
      <3>2. /\ EndTxn(c) \in [Conns -> Connection]
            /\ EndTxn(c)[c] = [out |-> conns[c].out, begun |-> FALSE, guc |-> FALSE, snap |-> None,
                               dirty |-> {}, aborted |-> FALSE]
        BY <2>1, EndTxnProperties
      <3> HIDE DEF c
      <3> QED
        BY <2>1, <2>3, <3>1, <3>2 DEF Connection
    <2>4. CASE pc[t] \notin {"execute", "commit"}
      BY <2>1, <2>4 DEF Unwind
    <2> QED
      BY <2>2, <2>3, <2>4
  <1>6. mode \in {"plain", "shared", "raw"}
    BY PgRequestAssumption DEF Types
  <1>7. \/ UNCHANGED <<persisted, db>>
        \/ /\ persisted' = persisted \cup {Entry(t)} /\ db' = db + 1
           /\ pc[t] \in {"commit", "host"} /\ op[t].write
    BY DEF Unwind
  <1>8. doubt' = IF pc[t] \in {"commit", "host"} /\ op[t].write THEN doubt \cup {Entry(t)} ELSE doubt
    BY DEF Unwind
  <1>9. mode = "plain" \/ pc[t] \in {"commit", "close"} =>
            \A u \in Tasks : u # t => on[u] # c \/ c = None
    BY HandsApart DEF Separate
  <1>10. mode = "shared" /\ c # None => pc[t] \in Opening \/ held = c
    BY <1>2 DEF Shared, Holding
  <1> HIDE DEF c
  <1>11. Types'
    BY <1>1, <1>2, <1>3, <1>7 DEF Types, Labels, Ended, Holding, Opening
  <1>12. Counted' /\ Ordered' /\ Modal'
    BY <1>1 DEF Counted, Ordered, Modal, Types, Active, Ended, Before, Holding, Opening
  <1>13. Hands'
    <2>1. ASSUME NEW u \in Tasks, u # t, on[u] # None PROVE conns'[on[u]].out
      <3>1. on[u] \in Conns /\ conns[on[u]].out
        BY <2>1 DEF Hands, Types
      <3>2. CASE on[u] # c
        BY <1>3, <3>1, <3>2
      <3>3. CASE on[u] = c
        BY <1>2, <1>5, <1>6, <1>9, <2>1, <3>1, <3>3
      <3> QED
        BY <3>2, <3>3
    <2> QED
      BY <1>1, <2>1 DEF Hands, Types, Holding, Opening, Ended
  <1>14. Pooled'
    BY <1>2, <1>3, <1>4, <1>5, <1>6 DEF Pooled
  <1>15. Separate'
    BY <1>1 DEF Separate, Types, Ended
  <1>16. Shared'
    <2> SUFFICES ASSUME mode = "shared" PROVE Shared'
      BY <1>1 DEF Shared
    <2>1. \A d \in Conns : conns'[d].out = conns[d].out
      BY <1>3, <1>5
    <2>2. \A u \in Tasks : lock' = u <=> pc'[u] \in Opening \cup {"connect"}
      BY <1>1 DEF Shared, Types, Opening
    <2>3. lock' # None => held' = None
      BY <1>1 DEF Shared
    <2>4. \A u \in Tasks : pc'[u] \in {"execute", "commit", "close"} => on'[u] = held'
      BY <1>1 DEF Shared, Types
    <2>5. held' # None => conns'[held'].out
      BY <1>1, <2>1 DEF Shared, Types
    <2>6. ASSUME NEW d \in Out'
          PROVE  d \in lost' \/ d = held' \/ \E u \in Tasks : lock' = u /\ on'[u] = d
      <3>1. d \in Out
        BY <2>1 DEF Out
      <3>2. CASE lock = t /\ on[t] = d
        <4>1. pc[t] \in Opening
          BY <3>1, <3>2, <1>2, PgRequestAssumption DEF Shared, Out, Holding, c
        <4> QED
          BY <1>1, <3>2, <4>1 DEF c
      <3>3. CASE ~(lock = t /\ on[t] = d)
        BY <1>1, <3>1, <3>3 DEF Shared, Types
      <3> QED
        BY <3>2, <3>3
    <2> QED
      BY <1>1, <2>2, <2>3, <2>4, <2>5, <2>6 DEF Shared
  <1>17. Fresh'
    <2> SUFFICES ASSUME NEW u \in Tasks, pc'[u] \in Opening PROVE conns'[on'[u]].snap = None
      BY <1>1 DEF Fresh
    <2>1. u # t /\ pc[u] \in Opening /\ on'[u] = on[u] /\ on[u] \in Conns /\ on[u] # None
      BY <1>1 DEF Types, Opening, Hands, Holding, Ended
    <2>2. conns[on[u]].snap = None
      BY <2>1 DEF Fresh
    <2>3. CASE on[u] = c
      BY <1>2, <1>5, <1>6, <1>9, <2>1, <2>2, <2>3
    <2> QED
      BY <1>3, <2>1, <2>2, <2>3
  <1>18. Block'
    BY <1>1 DEF Block, Types, Ended
  <1>19. Scoping'
    <2> SUFFICES ASSUME settings PROVE Scoping'
      BY <1>1 DEF Scoping
    <2>1. ASSUME NEW d \in Conns, InScope(d), d # c \/ mode = "shared"
          PROVE  conns'[d].guc \/ conns'[d].aborted
      BY <1>3, <1>5, <2>1 DEF InScope
    <2>2. ASSUME NEW u \in Tasks, pc'[u] = "execute" PROVE InScope(on[u])' /\ on'[u] = on[u]
      <3>1. u # t /\ pc[u] = "execute" /\ on'[u] = on[u] /\ on[u] \in Conns /\ on[u] # None /\ InScope(on[u])
        BY <1>1, <2>2 DEF Types, Hands, Holding, Ended, Scoping
      <3> QED
        BY <1>2, <1>6, <1>9, <2>1, <3>1 DEF InScope
    <2>3. ASSUME held # None, ctx = "open", \A u \in Tasks : pc'[u] # "close",
                 ~Cancelling' \/ \E u \in Tasks : pc'[u] \in Active
          PROVE  conns'[held].guc \/ conns'[held].aborted
      <3>1. mode = "shared" /\ held \in Conns
        BY <2>3 DEF Separate, Types
      <3>2. CASE pc[t] = "close"
        <4>1. how = "cancelled" /\ op[t].write /\ pc[t] \in Active
          BY <3>1, <3>2 DEF Modal, Active
        <4>2. \A u \in Tasks : u # t => pc[u] \notin Active
          BY <4>1, WriteAlone
        <4>3. Cancelling' /\ \A u \in Tasks : pc'[u] \notin Active
          BY <1>1, <4>1, <4>2 DEF Cancelling, Types, Active
        <4> QED
          BY <2>3, <4>3
      <3>3. CASE pc[t] # "close"
        <4>1. \A u \in Tasks : pc[u] # "close"
          BY <1>1, <2>3, <3>3 DEF Types
        <4>2. ~Cancelling \/ \E u \in Tasks : pc[u] \in Active
          BY <1>1, <2>3 DEF Cancelling, Types, Active, Ended
        <4> QED
          BY <2>1, <2>3, <3>1, <4>1, <4>2 DEF Scoping
      <3> QED
        BY <3>2, <3>3
    <2> QED
      BY <1>1, <2>2, <2>3 DEF Scoping, InScope
  <1>20. Ledger'
    <2>1. \A u \in Tasks : u # t => Entry(u)' = Entry(u) /\ pc'[u] = pc[u] /\ on'[u] = on[u]
      BY <1>1 DEF Entry, Types
    <2>2. pc'[t] # "commit"
      BY <1>1 DEF Types
    <2>3. ASSUME NEW d \in Conns, NEW e \in conns'[d].dirty
          PROVE  \E u \in Tasks : pc'[u] = "commit" /\ on'[u] = d /\ op[u].write /\ e = Entry(u)'
      <3>1. e \in conns[d].dirty /\ (d = c => mode = "shared" /\ pc[t] # "commit")
        <4>1. CASE d = c
          <5>1. c # None
            BY <4>1, PgRequestAssumption
          <5>2. mode # "plain"
            BY <1>4, <2>3, <4>1, <5>1 DEF Free
          <5>3. mode = "shared"
            BY <1>2, <1>6, <5>1, <5>2
          <5> QED
            BY <1>5, <2>3, <4>1, <5>1, <5>3
        <4>2. CASE d # c
          BY <1>3, <2>3, <4>2
        <4> QED
          BY <4>1, <4>2
      <3>2. PICK u \in Tasks : pc[u] = "commit" /\ on[u] = d /\ op[u].write /\ e = Entry(u)
        BY <3>1 DEF Ledger
      <3>3. u # t
        BY <3>1, <3>2 DEF c
      <3> QED
        BY <2>1, <3>2, <3>3
    <2>4. ASSUME NEW u \in Tasks, pc'[u] = "commit", op[u].write
          PROVE  Entry(u)' \in conns'[on'[u]].dirty
      <3>1. u # t /\ pc[u] = "commit" /\ on[u] \in Conns /\ on[u] # None
        BY <2>1, <2>2, <2>4 DEF Hands, Holding, Types
      <3>2. on[u] # c
        BY <3>1, HandsApart DEF c
      <3> QED
        BY <1>3, <2>1, <2>4, <3>1, <3>2 DEF Ledger
    <2> QED
      BY <1>1, <2>3, <2>4 DEF Ledger
  <1>21. WritesPersist' /\ (stale = {})'
    BY <1>1, <1>7, <1>8 DEF WritesPersist
  <1> QED
    BY <1>11, <1>12, <1>13, <1>14, <1>15, <1>16, <1>17, <1>18, <1>19, <1>20, <1>21

-----------------------------------------------------------------------------
(* The end of the request, and the other sessions.                         *)

\* The block is left once its tasks have ended.
LEMMA ExitKeeps ==
    ASSUME IInv, Exit
    PROVE  IInv'
  <1> USE DEF IInv, Tasks
  <1>1. /\ UNCHANGED <<op, mode, settings, taskVars, held, txn, lock, dbVars, history, faults>>
        /\ \A t \in Tasks : pc[t] \in Ended
        /\ ctx' \in {"closed", "rollback", "close"} /\ (held = None => ctx' = "closed")
    BY DEF Exit, OperationEnded
  <1> USE <1>1 DEF taskVars, dbVars, history
  <1>2. Types'
    BY DEF Types
  <1>3. Counted' /\ Ordered' /\ Modal' /\ Hands' /\ Pooled' /\ Separate' /\ Fresh' /\ Ledger'
    BY DEF Counted, Ordered, Modal, Hands, Pooled, Separate, Fresh, Ledger, Entry
  <1>4. Shared' /\ Block' /\ Scoping' /\ WritesPersist' /\ (stale = {})'
    BY DEF Shared, Out, Block, Scoping, InScope, Cancelling, WritesPersist
  <1> QED
    BY <1>2, <1>3, <1>4

\* The shared transaction is rolled back on its connection.
LEMMA RollbackKeeps ==
    ASSUME IInv, Rollback
    PROVE  IInv'
  <1> USE DEF IInv, Tasks
  <1>1. /\ UNCHANGED <<op, mode, settings, taskVars, held, lock, db, persisted, commits, history, faults>>
        /\ ctx' = "close" /\ txn' = FALSE /\ conns' = EndTxn(held)
        /\ mode = "shared" /\ held # None /\ held \in Conns /\ conns[held].out
        /\ \A t \in Tasks : pc[t] \in Ended
    BY DEF Rollback, Block, Separate, Shared, Types
  <1>2. /\ conns' \in [Conns -> Connection]
        /\ \A d \in Conns : d # held => conns'[d] = conns[d]
        /\ conns'[held].out = conns[held].out /\ conns'[held].dirty = {}
    <2>1. conns \in [Conns -> Connection]
      BY DEF Types
    <2>2. /\ EndTxn(held) \in [Conns -> Connection]
          /\ EndTxn(held)[held] = [out |-> conns[held].out, begun |-> FALSE, guc |-> FALSE, snap |-> None,
                                   dirty |-> {}, aborted |-> FALSE]
          /\ \A d \in Conns : d # held => EndTxn(held)[d] = conns[d]
      BY <1>1, <2>1, EndTxnProperties
    <2> QED
      BY <1>1, <2>2
  <1>3. \A d \in Conns : conns'[d].out = conns[d].out
    BY <1>2
  <1> USE <1>1 DEF taskVars, history
  <1>4. Types'
    BY <1>2 DEF Types
  <1>5. Counted' /\ Ordered' /\ Modal' /\ Separate'
    BY DEF Counted, Ordered, Modal, Separate
  <1>6. Hands' /\ Pooled'
    BY <1>2, <1>3 DEF Hands, Pooled, Types
  <1>7. Shared'
    BY <1>3 DEF Shared, Out
  <1>8. Fresh' /\ Block' /\ Scoping'
    BY DEF Fresh, Block, Scoping, Opening, Ended
  <1>9. Ledger'
    BY <1>2 DEF Ledger, Entry, Ended
  <1>10. WritesPersist' /\ (stale = {})'
    BY DEF WritesPersist
  <1> QED
    BY <1>4, <1>5, <1>6, <1>7, <1>8, <1>9, <1>10

\* A failed rollback leaves the connection behind.
LEMMA RollbackFailsKeeps ==
    ASSUME IInv, RollbackFails
    PROVE  IInv'
  <1> USE DEF IInv, Tasks
  <1>1. /\ UNCHANGED <<op, mode, settings, taskVars, held, txn, lock, dbVars, seen, unscoped, stale, doubt>>
        /\ ctx' = "closed" /\ lost' = lost \cup {held}
        /\ held # None /\ held \in Conns
        /\ \A t \in Tasks : pc[t] \in Ended
    BY DEF RollbackFails, Block, Types
  <1> USE <1>1 DEF taskVars, dbVars
  <1>2. Types'
    BY DEF Types
  <1>3. Counted' /\ Ordered' /\ Modal' /\ Hands' /\ Pooled' /\ Separate' /\ Fresh' /\ Ledger'
    BY DEF Counted, Ordered, Modal, Hands, Pooled, Separate, Fresh, Ledger, Entry
  <1>4. Shared' /\ Block' /\ Scoping' /\ WritesPersist' /\ (stale = {})'
    BY DEF Shared, Out, Block, Scoping, InScope, Cancelling, WritesPersist
  <1> QED
    BY <1>2, <1>3, <1>4

\* The held connection goes back to the pool.
LEMMA CloseHeldKeeps ==
    ASSUME IInv, CloseHeld
    PROVE  IInv'
  <1> USE DEF IInv, Tasks
  <1>1. /\ UNCHANGED <<op, mode, settings, taskVars, txn, lock, db, persisted, commits, history, faults>>
        /\ ctx' = "closed" /\ held' = None /\ conns' = GiveBack(held)
        /\ mode = "shared" /\ held # None /\ held \in Conns
        /\ \A t \in Tasks : pc[t] \in Ended /\ on[t] = None
    BY DEF CloseHeld, Block, Separate, Types, Hands, Holding, Opening, Ended
  <1>2. /\ conns' \in [Conns -> Connection]
        /\ \A d \in Conns : d # held => conns'[d] = conns[d]
        /\ conns'[held] = Free /\ ~conns'[held].out /\ conns'[held].dirty = {}
    <2>1. conns \in [Conns -> Connection]
      BY DEF Types
    <2> QED
      BY <1>1, <2>1, GiveBackProperties
  <1> USE <1>1 DEF taskVars, history
  <1>3. Types'
    BY <1>2 DEF Types
  <1>4. Counted' /\ Ordered' /\ Modal' /\ Hands' /\ Separate'
    BY DEF Counted, Ordered, Modal, Hands, Separate
  <1>5. Pooled'
    BY <1>2 DEF Pooled
  <1>6. Shared'
    BY <1>2 DEF Shared, Out, Ended, Opening
  <1>7. Fresh' /\ Block' /\ Scoping'
    BY DEF Fresh, Block, Scoping, Opening, Ended
  <1>8. Ledger'
    BY <1>2 DEF Ledger, Entry, Ended
  <1>9. WritesPersist' /\ (stale = {})'
    BY DEF WritesPersist
  <1> QED
    BY <1>3, <1>4, <1>5, <1>6, <1>7, <1>8, <1>9

\* Another session's commit moves the version only.
LEMMA OtherCommitKeeps ==
    ASSUME IInv, OtherCommit
    PROVE  IInv'
  <1> USE DEF IInv, Tasks
  <1>1. /\ UNCHANGED <<op, mode, settings, taskVars, requestVars, conns, persisted, history, faults>>
        /\ db' = db + 1
    BY DEF OtherCommit
  <1> USE <1>1 DEF taskVars, requestVars, history
  <1>2. Types'
    BY DEF Types
  <1>3. Counted' /\ Ordered' /\ Modal' /\ Hands' /\ Pooled' /\ Separate' /\ Fresh' /\ Ledger'
    BY DEF Counted, Ordered, Modal, Hands, Pooled, Separate, Fresh, Ledger, Entry
  <1>4. Shared' /\ Block' /\ Scoping' /\ WritesPersist' /\ (stale = {})'
    BY DEF Shared, Out, Block, Scoping, InScope, Cancelling, WritesPersist
  <1> QED
    BY <1>2, <1>3, <1>4

-----------------------------------------------------------------------------
(* The invariant.                                                          *)

\* A request starts with a fresh pool and idle tasks.
LEMMA IInvInit ==
    ASSUME Init
    PROVE  IInv
  <1> USE TaskFacts DEF Init, Tasks
  <1>1. \A t \in Tasks : op[t].count \in Nat /\ op[t].count > 0
    OBVIOUS
  <1>2. Free \in Connection
    BY DEF Free, Connection
  <1>3. Types
    BY <1>2 DEF Types, Labels
  <1>4. Counted /\ Ordered /\ Modal
    BY <1>1 DEF Counted, Ordered, Modal, Active, Ended, Holding, Opening
  <1>5. Hands /\ Pooled /\ Separate /\ Shared /\ Fresh /\ Block
    BY DEF Hands, Pooled, Separate, Shared, Fresh, Block, Out, Free, Holding, Opening
  <1>6. Scoping /\ Ledger
    BY DEF Scoping, Ledger, Free
  <1>7. WritesPersist
    BY DEF WritesPersist
  <1> QED
    BY <1>3, <1>4, <1>5, <1>6, <1>7 DEF IInv

\* Every step keeps the invariant, whatever fails or interrupts it.
LEMMA IInvNext ==
    ASSUME IInv, [Next]_vars
    PROVE  IInv'
  <1>1. ASSUME NEW t \in Tasks, TaskStep(t) PROVE IInv'
    BY <1>1, BeginStatementKeeps, SkipLayerKeeps, EnterLockKeeps, ConnectKeeps, BeginKeeps, IsolateKeeps,
       ConfigureKeeps, ExecuteKeeps, ExecuteRefusedKeeps, CommitKeeps, CloseKeeps, RunRawKeeps DEF TaskStep
  <1>2. ASSUME NEW t \in Tasks, StatementFails(t) PROVE IInv'
    <2>1. pc[t] \notin Ended /\ pc[t] # "close"
      BY <1>2 DEF StatementFails, Ended
    <2> QED
      BY <1>2, <2>1, UnwindKeeps DEF StatementFails
  <1>3. ASSUME NEW t \in Tasks, PoolTimeout(t) PROVE IInv'
    <2>1. pc[t] \notin Ended /\ pc[t] # "close"
      BY <1>3 DEF PoolTimeout, Ended
    <2> QED
      BY <1>3, <2>1, UnwindKeeps DEF PoolTimeout
  <1>4. ASSUME NEW t \in Tasks, Cancel(t) PROVE IInv'
    BY <1>4, UnwindKeeps DEF Cancel
  <1>5. ASSUME UNCHANGED vars PROVE IInv'
    <2> USE <1>5 DEF vars, taskVars, requestVars, dbVars, history, Tasks
    <2>1. Types' /\ Counted' /\ Ordered' /\ Modal' /\ Hands' /\ Pooled' /\ Separate' /\ Fresh' /\ Ledger'
      BY DEF IInv, Types, Counted, Ordered, Modal, Hands, Pooled, Separate, Fresh, Ledger, Entry
    <2>2. Shared' /\ Block' /\ Scoping' /\ WritesPersist' /\ (stale = {})'
      BY DEF IInv, Shared, Out, Block, Scoping, InScope, Cancelling, WritesPersist
    <2> QED
      BY <2>1, <2>2 DEF IInv
  <1> QED
    BY <1>1, <1>2, <1>3, <1>4, <1>5, ExitKeeps, RollbackKeeps, RollbackFailsKeeps, CloseHeldKeeps,
       OtherCommitKeeps DEF Next, Closed

\* The inductive invariant holds in every reachable state.
LEMMA IInvAlways == Spec => []IInv
  <1>1. Init => IInv
    BY IInvInit
  <1>2. IInv /\ [Next]_vars => IInv'
    BY IInvNext
  <1> QED
    BY <1>1, <1>2, PTL DEF Spec

-----------------------------------------------------------------------------
(* The theorems.                                                           *)

\* Every variable keeps its type in every reachable state.
THEOREM TypeCorrect == Spec => []TypeOK
  <1>1. IInv => TypeOK
    BY TaskFacts DEF IInv, Types, Counted, TypeOK, Labels, Active, Tasks
  <1> QED
    BY <1>1, IInvAlways, PTL

(***************************************************************************)
(* However the first statements of a request race, and whatever fails, its *)
(* shared transaction is one: beside the connections that a failed open or *)
(* rollback dropped, at most one is out (_open_lock).                      *)
(***************************************************************************)
THEOREM TransactionIsOne == Spec => []OneTransaction
  <1>1. IInv => OneTransaction
    <2> SUFFICES ASSUME IInv, mode = "shared" PROVE Cardinality(Out \ lost) <= 1
      BY DEF OneTransaction
    <2>1. PICK x : Out \ lost \subseteq {x}
      <3>1. CASE held # None
        <4>1. \A c \in Out \ lost : c = held
          BY <3>1, TaskFacts DEF IInv, Shared, Types
        <4> QED
          BY <4>1
      <3>2. CASE held = None
        <4>1. \A c \in Out \ lost : c = on[lock]
          BY <3>2, PgRequestAssumption DEF IInv, Shared, Out
        <4> QED
          BY <4>1
      <3> QED
        BY <3>1, <3>2
    <2>2. IsFiniteSet({x}) /\ Cardinality({x}) = 1
      BY FS_Singleton
    <2>3. Cardinality(Out \ lost) <= Cardinality({x})
      BY <2>1, <2>2, FS_Subset
    <2> QED
      BY <2>2, <2>3
  <1> QED
    BY <1>1, IInvAlways, PTL

\* No statement reaches a connection that a commit, a close or the end of the
\* request took away after the statement had looked it up.
THEOREM NothingIsStale == Spec => []NeverStale
  <1>1. IInv => NeverStale
    BY DEF IInv, NeverStale
  <1> QED
    BY <1>1, IInvAlways, PTL

\* A write is committed exactly when its rows came back, except where its
\* commit itself was interrupted.
THEOREM WritesAreKept == Spec => []WritesPersist
  <1>1. IInv => WritesPersist
    BY DEF IInv
  <1> QED
    BY <1>1, IInvAlways, PTL

\* Every statement of a request with settings runs under them, and no pooled
\* connection keeps them.
THEOREM SettingsStayLocal == Spec => []SettingsAreLocal
  <1>1. IInv => SettingsAreLocal
    BY DEF IInv, Scoping, Pooled, SettingsAreLocal, Out, Free
  <1> QED
    BY <1>1, IInvAlways, PTL

-----------------------------------------------------------------------------
(* The refinement of PgSnapshots.                                          *)

View == IF held # None /\ mode = "shared" THEN conns[held].snap ELSE None
SeenBy == [t \in 1 .. MaxTasks |-> IF t \in Tasks THEN seen[t] ELSE None]

\* The steps of PgSnapshots, over the mapped variables.
LEMMA AbstractSteps ==
    ASSUME op' = op, mode' = mode, mode \in Modes
    PROVE  /\ UNCHANGED <<db, View, SeenBy>> => [Snapshots!Next]_(Snapshots!snapshotVars)
           /\ db' = db + 1 /\ UNCHANGED <<View, SeenBy>> => [Snapshots!Next]_(Snapshots!snapshotVars)
           /\ UNCHANGED <<db, SeenBy>> /\ View' = None => [Snapshots!Next]_(Snapshots!snapshotVars)
           /\ db' = db + 1 /\ UNCHANGED SeenBy /\ View' = None => [Snapshots!Next]_(Snapshots!snapshotVars)
           /\ UNCHANGED <<db, SeenBy>> /\ mode = "shared" /\ View = None /\ View' = db
                => [Snapshots!Next]_(Snapshots!snapshotVars)
           /\ \A t \in 1 .. MaxTasks :
                LET version == IF mode = "shared" /\ View # None THEN View ELSE db
                IN  /\ SeenBy' = [SeenBy EXCEPT ![t] = version]
                    /\ View' = IF mode = "shared" THEN version ELSE None
                    /\ db' = db
                    => [Snapshots!Next]_(Snapshots!snapshotVars)
  BY DEF View, SeenBy, Tasks, Snapshots!Next, Snapshots!snapshotVars, Snapshots!Advance, Snapshots!Read,
         Snapshots!Prepare, Snapshots!Commit, Snapshots!End

\* A statement reads the version its executor's isolation gives it.
LEMMA ExecuteRefines ==
    ASSUME IInv, NEW t \in Tasks, Execute(t)
    PROVE  [Snapshots!Next]_(Snapshots!snapshotVars)
  <1> USE TaskFacts DEF IInv, Tasks
  <1> DEFINE version == IF mode = "shared" THEN Version(t) ELSE None
             written == IF op[t].write THEN conns[on[t]].dirty \cup {Entry(t)} ELSE conns[on[t]].dirty
  <1>1. /\ pc[t] = "execute" /\ on[t] \in Conns /\ on[t] # None
        /\ UNCHANGED <<op, mode, held, db>> /\ mode \in Modes
        /\ mode = "shared" => held = on[t]
        /\ mode # "shared" => held = None
        /\ seen' = IF op[t].write THEN seen ELSE [seen EXCEPT ![t] = Version(t)]
        /\ t \in 1 .. MaxTasks
    BY DEF Execute, requestVars, Hands, Holding, Types, Shared, Separate
  <1>2. conns' = [conns EXCEPT ![on[t]].snap = version, ![on[t]].dirty = written]
    BY DEF Execute
  <1>3. conns[on[t]] \in Connection /\ conns \in [Conns -> Connection]
    BY <1>1 DEF Types
  <1>4. conns'[on[t]].snap = version
    BY <1>1, <1>2, <1>3 DEF Connection
  <1>5. Version(t) = IF mode = "shared" /\ View # None THEN View ELSE db
    BY <1>1 DEF Version, Repeatable, View
  <1>6. View' = version
    BY <1>1, <1>4 DEF View
  <1> HIDE DEF version
  <1>7. CASE op[t].write
    <2>1. SeenBy' = SeenBy
      BY <1>1, <1>7 DEF SeenBy
    <2> QED
      BY <1>1, <1>5, <1>6, <2>1, AbstractSteps DEF version, View
  <1>8. CASE ~op[t].write
    <2>1. SeenBy' = [SeenBy EXCEPT ![t] = Version(t)]
      BY <1>1, <1>8 DEF SeenBy, Types
    <2> QED
      BY <1>1, <1>5, <1>6, <2>1, AbstractSteps DEF version
  <1> QED
    BY <1>7, <1>8

\* A commit, if it wrote, moves the version, and drops the snapshot.
LEMMA CommitRefines ==
    ASSUME IInv, NEW t \in Tasks, Commit(t)
    PROVE  [Snapshots!Next]_(Snapshots!snapshotVars)
  <1> USE TaskFacts DEF IInv, Tasks
  <1>1. /\ pc[t] = "commit" /\ on[t] \in Conns /\ on[t] # None
        /\ UNCHANGED <<op, mode, held, seen>> /\ mode \in Modes
        /\ mode = "shared" => held = on[t]
        /\ mode # "shared" => held = None
        /\ conns' = EndTxn(on[t])
    BY DEF Commit, history, Hands, Holding, Types, Shared, Separate
  <1>2. EndTxn(on[t])[on[t]].snap = None
    <2>1. conns \in [Conns -> Connection]
      BY DEF Types
    <2>2. EndTxn(on[t])[on[t]] = [out |-> conns[on[t]].out, begun |-> FALSE, guc |-> FALSE, snap |-> None,
                                  dirty |-> {}, aborted |-> FALSE]
      BY <1>1, <2>1, EndTxnProperties
    <2> QED
      BY <2>2
  <1>3. View' = None /\ SeenBy' = SeenBy
    BY <1>1, <1>2 DEF View, SeenBy
  <1>4. db' = db \/ db' = db + 1
    BY DEF Commit, Committed
  <1> QED
    BY <1>1, <1>3, <1>4, AbstractSteps

\* The host runs a raw executor's statement on the database as it is.
LEMMA RunRawRefines ==
    ASSUME IInv, NEW t \in Tasks, RunRaw(t)
    PROVE  [Snapshots!Next]_(Snapshots!snapshotVars)
  <1> USE TaskFacts DEF IInv, Tasks
  <1>1. /\ UNCHANGED <<op, mode, held>> /\ mode \in Modes /\ mode = "raw" /\ t \in 1 .. MaxTasks
        /\ db' = IF op[t].write THEN db + 1 ELSE db
        /\ seen' = IF op[t].write THEN seen ELSE [seen EXCEPT ![t] = db]
    BY DEF RunRaw, requestVars, Modal, Types
  <1>2. View = None /\ View' = None
    BY <1>1 DEF View
  <1>3. CASE op[t].write
    <2>1. SeenBy' = SeenBy
      BY <1>1, <1>3 DEF SeenBy
    <2> QED
      BY <1>1, <1>2, <1>3, <2>1, AbstractSteps
  <1>4. CASE ~op[t].write
    <2>1. SeenBy' = [SeenBy EXCEPT ![t] = db]
      BY <1>1, <1>4 DEF SeenBy, Types
    <2> QED
      BY <1>1, <1>2, <1>4, <2>1, AbstractSteps
  <1> QED
    BY <1>3, <1>4

\* Unwinding a statement ends its transaction or leaves the snapshot alone.
LEMMA UnwindRefines ==
    ASSUME IInv, NEW t \in Tasks, NEW how, Unwind(t, how), UNCHANGED <<op, mode>>
    PROVE  [Snapshots!Next]_(Snapshots!snapshotVars)
  <1> USE TaskFacts DEF IInv, Tasks
  <1> DEFINE c == on[t]
  <1>1. /\ UNCHANGED <<op, mode, held, seen>> /\ mode \in Modes
        /\ c # None <=> pc[t] \in Holding
        /\ c # None => c \in Conns
        /\ conns \in [Conns -> Connection]
        /\ mode # "shared" => held = None
    BY DEF Unwind, Hands, Types, Separate
  <1>2. SeenBy' = SeenBy
    BY <1>1 DEF SeenBy
  <1>3. db' = db \/ (db' = db + 1 /\ pc[t] \in {"commit", "host"})
    BY DEF Unwind
  <1>4. CASE mode # "shared"
    <2>1. View = None /\ View' = None
      BY <1>1, <1>4 DEF View
    <2> QED
      BY <1>1, <1>2, <1>3, <2>1, AbstractSteps
  <1>5. CASE mode = "shared" /\ pc[t] = "commit"
    <2>1. /\ EndTxn(c) \in [Conns -> Connection]
          /\ EndTxn(c)[c] = [out |-> conns[c].out, begun |-> FALSE, guc |-> FALSE, snap |-> None,
                             dirty |-> {}, aborted |-> FALSE]
      BY <1>1, <1>5, EndTxnProperties DEF Holding
    <2>2. conns' = [EndTxn(c) EXCEPT ![c].aborted = TRUE] /\ c = held /\ c \in Conns
      BY <1>1, <1>5 DEF Unwind, Shared, Holding
    <2> HIDE DEF c
    <2>3. conns'[c].snap = None
      BY <2>1, <2>2 DEF Connection
    <2>4. View' = None
      BY <1>1, <2>2, <2>3 DEF View
    <2> QED
      BY <1>1, <1>2, <1>3, <2>4, AbstractSteps
  <1>6. CASE mode = "shared" /\ pc[t] # "commit"
    <2>1. pc[t] # "host"
      BY <1>6 DEF Modal
    <2>2. conns' = conns \/ (c \in Conns /\ conns' = [conns EXCEPT ![c].aborted = TRUE])
      BY <1>1, <1>6 DEF Unwind
    <2> HIDE DEF c
    <2>3. \A d \in Conns : conns'[d].snap = conns[d].snap
      BY <1>1, <2>2 DEF Connection
    <2>4. View' = View
      BY <1>1, <2>3 DEF View, Types
    <2> QED
      BY <1>1, <1>2, <1>3, <1>6, <2>1, <2>4, AbstractSteps
  <1> QED
    BY <1>4, <1>5, <1>6

\* Opening, refusing, closing and the waits between them read nothing.
LEMMA TaskStepRefines ==
    ASSUME IInv, NEW t \in Tasks, TaskStep(t)
    PROVE  [Snapshots!Next]_(Snapshots!snapshotVars)
  <1> USE TaskFacts DEF IInv, Tasks
  <1>1. mode \in Modes /\ conns \in [Conns -> Connection] /\ (mode # "shared" => held = None)
    BY DEF Types, Separate
  <1>2. CASE BeginStatement(t) \/ SkipLayer(t) \/ EnterLock(t) \/ ExecuteRefused(t)
    <2>1. UNCHANGED <<op, mode, db, held, conns, seen>>
      BY <1>2 DEF BeginStatement, SkipLayer, EnterLock, ExecuteRefused, requestVars, dbVars, history
    <2>2. UNCHANGED <<View, SeenBy>>
      BY <2>1 DEF View, SeenBy
    <2> QED
      BY <1>1, <2>1, <2>2, AbstractSteps
  <1>3. CASE Connect(t) \/ Begin(t)
    <2>1. UNCHANGED <<op, mode, db, held, seen>>
      BY <1>3 DEF Connect, Begin, requestVars, history
    <2>2. \A d \in Conns : conns'[d].snap = conns[d].snap
      BY <1>1, <1>3 DEF Connect, Begin, Connection
    <2>3. UNCHANGED <<View, SeenBy>>
      BY <1>1, <2>1, <2>2 DEF View, SeenBy, Types
    <2> QED
      BY <1>1, <2>1, <2>3, AbstractSteps
  <1>4. CASE Isolate(t) \/ Configure(t)
    <2>1. UNCHANGED <<op, mode, db, seen>> /\ (held' = held \/ held' = on[t]) /\ (mode # "shared" => held' = None)
      BY <1>1, <1>4 DEF Isolate, Configure, Publish, requestVars, dbVars, history, Modal
    <2>2. /\ on[t] \in Conns /\ on[t] # None /\ conns[on[t]].snap = None
          /\ mode = "shared" => held = None
      BY <1>4 DEF Isolate, Configure, Fresh, Opening, Hands, Holding, Types, Shared
    <2>3. \A d \in Conns : conns'[d].snap = conns[d].snap
      BY <1>1, <1>4 DEF Isolate, Configure, dbVars, Connection
    <2>4. UNCHANGED <<View, SeenBy>>
      BY <1>1, <2>1, <2>2, <2>3 DEF View, SeenBy, Types
    <2> QED
      BY <1>1, <2>1, <2>4, AbstractSteps
  <1>5. CASE Close(t)
    <2>1. UNCHANGED <<op, mode, db, seen>> /\ held' = None
      BY <1>1, <1>5 DEF Close, history
    <2>2. View' = None /\ SeenBy' = SeenBy
      BY <2>1 DEF View, SeenBy
    <2> QED
      BY <1>1, <2>1, <2>2, AbstractSteps
  <1> QED
    BY <1>2, <1>3, <1>4, <1>5, ExecuteRefines, CommitRefines, RunRawRefines DEF TaskStep

(***************************************************************************)
(* The reads of a shared request see one version of the database until one *)
(* of its writes commits; those of the other executors see it as it is.    *)
(***************************************************************************)
THEOREM SnapshotsImplemented == Spec => ImplementsSnapshots
  <1>1. Init => Snapshots!Init
    <2> SUFFICES ASSUME Init PROVE Snapshots!Init
      OBVIOUS
    <2>1. [t \in 1 .. MaxTasks |-> IF t \in Tasks THEN seen[t] ELSE None] = [t \in 1 .. MaxTasks |-> None]
      BY DEF Init
    <2> QED
      BY <2>1 DEF Init, Snapshots!Init
  <1>2. IInv /\ [Next]_vars => [Snapshots!Next]_(Snapshots!snapshotVars)
    <2> SUFFICES ASSUME IInv, [Next]_vars PROVE [Snapshots!Next]_(Snapshots!snapshotVars)
      OBVIOUS
    <2>1. mode \in Modes /\ conns \in [Conns -> Connection]
      BY DEF IInv, Types
    <2>2. ASSUME NEW t \in Tasks, StatementFails(t) \/ PoolTimeout(t) \/ Cancel(t)
          PROVE  [Snapshots!Next]_(Snapshots!snapshotVars)
      BY <2>2, UnwindRefines DEF StatementFails, PoolTimeout, Cancel
    <2>3. CASE Exit \/ RollbackFails \/ UNCHANGED vars
      <3>1. UNCHANGED <<op, mode, db, held, conns, seen>>
        BY <2>3 DEF Exit, RollbackFails, vars, requestVars, dbVars, history
      <3>2. UNCHANGED <<View, SeenBy>>
        BY <3>1 DEF View, SeenBy, Tasks
      <3> QED
        BY <2>1, <3>1, <3>2, AbstractSteps
    <2>4. CASE Rollback
      <3>1. UNCHANGED <<op, mode, db, held, seen>> /\ held \in Conns /\ conns' = EndTxn(held)
        BY <2>4 DEF Rollback, history, IInv, Block, Types
      <3>2. conns'[held] = [out |-> conns[held].out, begun |-> FALSE, guc |-> FALSE, snap |-> None,
                            dirty |-> {}, aborted |-> FALSE]
        BY <2>1, <3>1, EndTxnProperties
      <3>3. View' = None /\ SeenBy' = SeenBy
        BY <3>1, <3>2 DEF View, SeenBy, Tasks
      <3> QED
        BY <2>1, <3>1, <3>3, AbstractSteps
    <2>5. CASE CloseHeld
      <3>1. UNCHANGED <<op, mode, db, seen>> /\ held' = None
        BY <2>5 DEF CloseHeld, history
      <3>2. View' = None /\ SeenBy' = SeenBy
        BY <3>1 DEF View, SeenBy, Tasks
      <3> QED
        BY <2>1, <3>1, <3>2, AbstractSteps
    <2>6. CASE OtherCommit
      <3>1. UNCHANGED <<op, mode, held, conns, seen>> /\ db' = db + 1
        BY <2>6 DEF OtherCommit, requestVars, history
      <3>2. UNCHANGED <<View, SeenBy>>
        BY <3>1 DEF View, SeenBy, Tasks
      <3> QED
        BY <2>1, <3>1, <3>2, AbstractSteps
    <2> QED
      BY <2>2, <2>3, <2>4, <2>5, <2>6, TaskStepRefines DEF Next, Closed
  <1> QED
    BY <1>1, <1>2, IInvAlways, PTL DEF Spec, ImplementsSnapshots, Snapshots!Spec

-----------------------------------------------------------------------------
(* Nothing is left out.                                                    *)

\* Outside the shared executor every connection out is in some task's hands and
\* not aborted; a connection held when the block is closed was dropped.
Accounted ==
    /\ mode # "shared" => \A c \in Out : ~conns[c].aborted /\ \E t \in Tasks : on[t] = c
    /\ ctx = "closed" => held = None \/ held \in lost

\* The block stays open while a task is at work.
LEMMA OpenAtWork ==
    ASSUME IInv, NEW t \in Tasks, pc[t] \notin Ended
    PROVE  ctx = "open"
  BY DEF IInv, Block

\* A step of a task takes a connection into its hands, or gives it back.
LEMMA TaskStepAccounts ==
    ASSUME IInv, Accounted, NEW t \in Tasks, TaskStep(t)
    PROVE  Accounted'
  <1> USE DEF IInv, Tasks
  <1>1. /\ conns \in [Conns -> Connection] /\ on \in [Tasks -> Conns \cup {None}]
        /\ mode # "shared" => held = None /\ lock = None
        /\ None \notin Conns
    BY PgRequestAssumption DEF Types, Separate
  <1>2. ctx = "open"
    BY OpenAtWork DEF TaskStep, BeginStatement, SkipLayer, EnterLock, Connect, Begin, Isolate, Configure,
          Execute, ExecuteRefused, Commit, Close, RunRaw, Ended
  <1>3. CASE BeginStatement(t) \/ SkipLayer(t) \/ EnterLock(t)
    <2>1. /\ UNCHANGED <<op, mode, ctx, conns>>
          /\ mode # "shared" => on' = on
      BY <1>3 DEF BeginStatement, SkipLayer, EnterLock, requestVars, dbVars, Modal
    <2> QED
      BY <1>2, <2>1 DEF Accounted, Out
  <1>4. CASE Connect(t)
    <2>1. PICK c \in Conns \ Out : conns' = [conns EXCEPT ![c].out = TRUE] /\ on' = [on EXCEPT ![t] = c]
      BY <1>4 DEF Connect
    <2>2. /\ on[t] = None /\ UNCHANGED <<op, mode, ctx>>
      BY <1>4 DEF Connect, Hands, Holding, Opening, requestVars
    <2>3. ~conns'[c].aborted /\ \A d \in Conns : d # c => conns'[d] = conns[d]
      <3>1. ~conns[c].aborted
        BY <2>1 DEF Pooled, Out, Free
      <3> QED
        BY <1>1, <2>1, <3>1 DEF Connection
    <2>4. on'[t] = c /\ \A u \in Tasks : u # t => on'[u] = on[u]
      BY <1>1, <2>1
    <2>5. mode # "shared" => \A d \in Out : ~conns[d].aborted /\ \E u \in Tasks : u # t /\ on[u] = d
      BY <1>1, <2>2 DEF Accounted, Out
    <2>6. ASSUME mode # "shared", NEW d \in Conns, conns'[d].out 
          PROVE  ~conns'[d].aborted /\ \E u \in Tasks : on'[u] = d
      BY <2>3, <2>4, <2>5, <2>6 DEF Out
    <2> QED
      BY <1>2, <2>2, <2>6 DEF Accounted, Out
  <1>5. CASE Begin(t) \/ Isolate(t) \/ Configure(t)
    <2>1. UNCHANGED <<op, mode, ctx, on>>
      BY <1>5 DEF Begin, Isolate, Configure, Publish, requestVars
    <2>2. \A d \in Conns : conns'[d].out = conns[d].out /\ conns'[d].aborted = conns[d].aborted
      BY <1>1, <1>5 DEF Begin, Isolate, Configure, dbVars, Connection
    <2> QED
      BY <1>2, <2>1, <2>2 DEF Accounted, Out
  <1>6. CASE Execute(t)
    <2>1. /\ UNCHANGED <<op, mode, ctx>>
          /\ mode # "shared" => on' = on
      BY <1>6, PgRequestAssumption DEF Execute, requestVars, Modal, Holding, Types
    <2>2. \A d \in Conns : conns'[d].out = conns[d].out /\ conns'[d].aborted = conns[d].aborted
      BY <1>1, <1>6 DEF Execute, Connection
    <2> QED
      BY <1>2, <2>1, <2>2 DEF Accounted, Out
  <1>7. CASE ExecuteRefused(t)
    <2>1. UNCHANGED <<op, mode, ctx, conns>>
      BY <1>7 DEF ExecuteRefused, requestVars, dbVars
    <2>2. on[t] \in Conns /\ conns[on[t]].out /\ conns[on[t]].aborted
      BY <1>1, <1>7 DEF ExecuteRefused, Hands, Holding
    <2>3. mode = "shared"
      BY <2>2 DEF Accounted, Out
    <2> QED
      BY <1>2, <2>1, <2>3 DEF Accounted
  <1>8. CASE Commit(t)
    <2>1. UNCHANGED <<op, mode, ctx, on>> /\ conns' = EndTxn(on[t]) /\ on[t] \in Conns
      BY <1>1, <1>8 DEF Commit, Hands, Holding
    <2>2. \A d \in Conns : conns'[d].out = conns[d].out /\ (conns'[d].aborted => conns[d].aborted)
      BY <1>1, <2>1 DEF EndTxn, Connection
    <2> QED
      BY <1>2, <2>1, <2>2 DEF Accounted, Out
  <1>9. CASE Close(t)
    <2>1. UNCHANGED <<op, mode, ctx>> /\ conns' = GiveBack(on[t]) /\ on' = [on EXCEPT ![t] = None] /\ on[t] \in Conns
      BY <1>1, <1>9 DEF Close, Hands, Holding
    <2>2. ~conns'[on[t]].out /\ \A d \in Conns : d # on[t] => conns'[d] = conns[d]
      BY <1>1, <2>1, GiveBackProperties
    <2> QED
      BY <1>1, <1>2, <2>1, <2>2 DEF Accounted, Out
  <1>10. CASE RunRaw(t)
    BY <1>2, <1>10 DEF RunRaw, requestVars, Accounted, Out
  <1> QED
    BY <1>3, <1>4, <1>5, <1>6, <1>7, <1>8, <1>9, <1>10 DEF TaskStep

\* A task that unwinds gives its own connection back.
LEMMA UnwindAccounts ==
    ASSUME IInv, Accounted, NEW t \in Tasks, pc[t] \notin Ended, NEW how, Unwind(t, how), UNCHANGED <<op, mode>>
    PROVE  Accounted'
  <1> USE DEF IInv, Tasks
  <1> DEFINE c == on[t]
  <1>1. /\ conns \in [Conns -> Connection] /\ on \in [Tasks -> Conns \cup {None}]
        /\ mode \in {"plain", "shared", "raw"} /\ None \notin Conns
        /\ c # None => c \in Conns
        /\ mode = "raw" => c = None
    BY PgRequestAssumption DEF Types, Hands, Modal
  <1>2. ctx' = "open" /\ on' = [on EXCEPT ![t] = None]
    BY OpenAtWork DEF Unwind
  <1>3. mode = "plain" /\ c # None =>
          ~conns'[c].out /\ \A d \in Conns : d # c => conns'[d] = conns[d]
    BY <1>1, GiveBackProperties DEF Unwind
  <1>4. c = None => conns' = conns
    BY DEF Unwind
  <1> HIDE DEF c
  <1>5. ASSUME mode # "shared", NEW d \in Conns, conns'[d].out
        PROVE  ~conns'[d].aborted /\ \E u \in Tasks : on'[u] = d
    <2>1. conns[d].out /\ d # c /\ conns'[d] = conns[d]
      BY <1>1, <1>3, <1>4, <1>5
    <2>2. ~conns[d].aborted /\ \E u \in Tasks : on[u] = d
      BY <1>5, <2>1 DEF Accounted, Out
    <2> QED
      BY <1>1, <1>2, <2>1, <2>2 DEF c
  <1> QED
    BY <1>2, <1>5 DEF Accounted, Out

(***************************************************************************)
(* When the request's block is closed, nothing of it is left: its lock is  *)
(* free, and the only connections still out are those that a failed open   *)
(* or a failed rollback dropped (the safety half of ConnectionsReturn).    *)
(***************************************************************************)
Returned == ctx = "closed" => Out \subseteq lost /\ lock = None

THEOREM NothingLeaks == Spec => []Returned
  <1>1. Init => Accounted
    BY DEF Init, Accounted, Out, Free
  <1>2. IInv /\ Accounted /\ [Next]_vars => Accounted'
    <2> SUFFICES ASSUME IInv, Accounted, [Next]_vars PROVE Accounted'
      OBVIOUS
    <2>1. conns \in [Conns -> Connection]
      BY DEF IInv, Types
    <2>2. ASSUME NEW t \in Tasks, StatementFails(t) \/ PoolTimeout(t) \/ Cancel(t) PROVE Accounted'
      <3>1. pc[t] \notin Ended
        BY <2>2 DEF StatementFails, PoolTimeout, Cancel, Ended
      <3> QED
        BY <2>2, <3>1, UnwindAccounts DEF StatementFails, PoolTimeout, Cancel
    <2>3. CASE Exit
      BY <2>3 DEF Exit, taskVars, dbVars, history, Accounted, Out, Tasks
    <2>4. CASE Rollback
      <3>1. \A d \in Conns : conns'[d].out = conns[d].out /\ (conns'[d].aborted => conns[d].aborted)
        BY <2>1, <2>4 DEF Rollback, EndTxn, Connection, IInv, Block, Types
      <3> QED
        BY <2>4, <3>1 DEF Rollback, taskVars, history, Accounted, Out, Tasks
    <2>5. CASE RollbackFails
      BY <2>5 DEF RollbackFails, taskVars, dbVars, Accounted, Out, Tasks
    <2>6. CASE CloseHeld
      <3>1. mode = "shared"
        BY <2>6 DEF CloseHeld, IInv, Block, Separate
      <3> QED
        BY <2>6, <3>1 DEF CloseHeld, taskVars, history, Accounted, Out, Tasks
    <2>7. CASE OtherCommit \/ UNCHANGED vars
      BY <2>7 DEF OtherCommit, vars, taskVars, requestVars, dbVars, history, Accounted, Out, Tasks
    <2> QED
      BY <2>2, <2>3, <2>4, <2>5, <2>6, <2>7, TaskStepAccounts DEF Next, Closed
  <1>3. IInv /\ Accounted => Returned
    <2> SUFFICES ASSUME IInv, Accounted, ctx = "closed" PROVE Out \subseteq lost /\ lock = None
      BY DEF Returned
    <2>1. \A t \in Tasks : pc[t] \in Ended /\ on[t] = None
      BY DEF IInv, Block, Hands, Holding, Opening, Ended
    <2>2. None \notin Conns /\ lock \in Tasks \cup {None}
      BY PgRequestAssumption DEF IInv, Types
    <2>3. CASE mode = "shared"
      BY <2>1, <2>2, <2>3 DEF IInv, Shared, Out, Accounted, Opening, Ended
    <2>4. CASE mode # "shared"
      BY <2>1, <2>2, <2>4 DEF IInv, Separate, Out, Accounted
    <2> QED
      BY <2>3, <2>4
  <1> QED
    BY <1>1, <1>2, <1>3, IInvAlways, PTL DEF Spec
=============================================================================
