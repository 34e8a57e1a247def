---------------------------- MODULE PgSnapshots ----------------------------
(***************************************************************************)
(* What a request is promised about the database versions its statements   *)
(* read (grafast_py/pg/executor.py, module docstring): an isolated request *)
(* reads one snapshot, taken by its first read, until one of its writes    *)
(* commits; the next read then takes a new one.  Without isolation every   *)
(* read sees the database as it is.                                        *)
(***************************************************************************)
EXTENDS Integers

CONSTANTS Tasks, None

VARIABLES isolated, db, view, seen

snapshotVars == <<isolated, db, view, seen>>

Init ==
    /\ isolated \in BOOLEAN
    /\ db = 0
    /\ view = None
    /\ seen = [t \in Tasks |-> None]

\* Another session commits.
Advance ==
    /\ db' = db + 1
    /\ UNCHANGED <<isolated, view, seen>>

Read(t) ==
    LET version == IF isolated /\ view # None THEN view ELSE db
    IN  /\ seen' = [seen EXCEPT ![t] = version]
        /\ view' = IF isolated THEN version ELSE None
        /\ UNCHANGED <<isolated, db>>

\* A write reads its snapshot when it runs, and ends it when it commits.
Prepare ==
    /\ isolated
    /\ view = None
    /\ view' = db
    /\ UNCHANGED <<isolated, db, seen>>

Commit ==
    /\ db' = db + 1
    /\ view' = None
    /\ UNCHANGED <<isolated, seen>>

End ==
    /\ view' = None
    /\ UNCHANGED <<isolated, db, seen>>

Next == Advance \/ (\E t \in Tasks : Read(t)) \/ Prepare \/ Commit \/ End

Spec == Init /\ [][Next]_snapshotVars

=============================================================================
