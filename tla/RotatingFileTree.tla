-------------------------- MODULE RotatingFileTree --------------------------
(***************************************************************************)
(* The size- and day-rotating file sink of packages/xf-logger-file/src/    *)
(* business/general/RotatingFileTreeBusiness.ts, run by the process()      *)
(* template of LoggerBusiness: one record at a time (OneRecordAtATime of   *)
(* module LoggerTrees).                                                    *)
(*                                                                         *)
(* A path is a pair <<day, index>>: pathFor is injective on those.  A file *)
(* is the sequence of its records, each of one unit of size.  The files    *)
(* outlive the process; day and index do not.                              *)
(***************************************************************************)
EXTENDS Naturals, Sequences, FiniteSets

CONSTANTS
    MaxBytes,      \* options.maxBytes, in records
    MaxFiles,      \* options.maxFiles
    Daily,         \* options.daily
    DeleteFails,   \* may FileRepository.delete reject?
    MaxRecords,    \* bound of the model: how many records are logged
    MaxDays,       \* bound of the model: how many days pass
    MaxRestarts    \* bound of the model: how often the process restarts

ASSUME RotationAssumption ==
    /\ {MaxBytes, MaxFiles, MaxDays} \subseteq Nat \ {0}
    /\ {MaxRecords, MaxRestarts} \subseteq Nat
    /\ {Daily, DeleteFails} \subseteq BOOLEAN

VARIABLES
    day,          \* state.day
    index,        \* state.index
    today,        \* the calendar day that today() reads
    pc,           \* where process() stands: idle, rotate, prune, write
    nextRecord,   \* the record being processed, or the next one when idle
    files,        \* [path -> sequence of records] of the files that exist
    undeletable,  \* history: the paths whose delete was rejected
    restarts      \* how often the process has restarted

vars == <<day, index, today, pc, nextRecord, files, undeletable, restarts>>

Paths == (1..MaxDays) \X (0..MaxRecords)

currentPath == <<day, index>>

Exists(p) == p \in DOMAIN files

Size(p) == Len(files[p])

\* The first start: init() seeds the day; the directory is empty.
Init ==
    /\ day = 1
    /\ index = 0
    /\ today = 1
    /\ pc = "idle"
    /\ nextRecord = 1
    /\ files = <<>>
    /\ undeletable = {}
    /\ restarts = 0

DayRolledOver == Daily /\ day # today

\* process() of the next record: shouldRotate() compares the day, else asks
\* for the size of the active file.
ShouldRotate ==
    /\ pc = "idle"
    /\ nextRecord <= MaxRecords
    /\ pc' = IF DayRolledOver \/ (Exists(currentPath) /\ Size(currentPath) >= MaxBytes)
             THEN "rotate" ELSE "write"
    /\ UNCHANGED <<day, index, today, nextRecord, files, undeletable, restarts>>

\* Mutant: a new day resets the index and forgets to store the day.
RotateKeepsDay ==
    /\ pc = "rotate"
    /\ IF DayRolledOver
       THEN index' = 0 /\ pc' = "write"
       ELSE index' = index + 1 /\ pc' = "prune"
    /\ UNCHANGED <<day, today, nextRecord, files, undeletable, restarts>>

\* rotate(): it reads the clock again, so midnight may have passed since.
Rotate ==
    /\ pc = "rotate"
    /\ IF DayRolledOver
       THEN day' = today /\ index' = 0 /\ pc' = "write"
       ELSE index' = index + 1 /\ pc' = "prune" /\ UNCHANGED day
    /\ UNCHANGED <<today, nextRecord, files, undeletable, restarts>>

\* The path prune() looks at, and whether there is anything to delete.
Outdated == <<day, index - MaxFiles>>

\* Mutant: `dropped <= 0' for `dropped < 0'.
MustDeleteLate == index > MaxFiles /\ Exists(Outdated)

MustDelete == index >= MaxFiles /\ Exists(Outdated)

Without(p) == [q \in DOMAIN files \ {p} |-> files[q]]

Prune ==
    /\ pc = "prune"
    /\ pc' = "write"
    /\ files' = IF MustDelete THEN Without(Outdated) ELSE files
    /\ UNCHANGED <<day, index, today, nextRecord, undeletable, restarts>>

\* delete() rejects: process() rejects with it and the record is not written,
\* but the index has advanced.
PruneRejects ==
    /\ pc = "prune"
    /\ DeleteFails
    /\ MustDelete
    /\ pc' = "idle"
    /\ nextRecord' = nextRecord + 1
    /\ undeletable' = undeletable \cup {Outdated}
    /\ UNCHANGED <<day, index, today, files, restarts>>

Append1(p) ==
    [q \in DOMAIN files \cup {p} |->
        IF q # p THEN files[q]
        ELSE IF Exists(p) THEN Append(files[p], nextRecord) ELSE <<nextRecord>>]

\* write(): append() creates the file when it is missing, or rejects.
Write ==
    /\ pc = "write"
    /\ pc' = "idle"
    /\ nextRecord' = nextRecord + 1
    /\ files' \in {files, Append1(currentPath)}
    /\ UNCHANGED <<day, index, today, undeletable, restarts>>

Midnight ==
    /\ today < MaxDays
    /\ today' = today + 1
    /\ UNCHANGED <<day, index, pc, nextRecord, files, undeletable, restarts>>

\* The process stops anywhere and starts again: a record in process is lost,
\* the constructor resets the index and init() seeds the day.
Restart ==
    /\ restarts < MaxRestarts
    /\ restarts' = restarts + 1
    /\ day' = today
    /\ index' = 0
    /\ pc' = "idle"
    /\ nextRecord' = IF pc = "idle" THEN nextRecord ELSE nextRecord + 1
    /\ UNCHANGED <<today, files, undeletable>>

Next ==
    \/ ShouldRotate
    \/ Rotate
    \/ Prune
    \/ PruneRejects
    \/ Write
    \/ Midnight
    \/ Restart

Spec == Init /\ [][Next]_vars

-----------------------------------------------------------------------------

\* At most maxFiles size-files of a day exist, not counting files the file
\* system refused to delete (lines 14 and 31-32), and a restart, which forgets
\* the index, leaves at most one such window behind.
RetentionWindow ==
    \A d \in 1..MaxDays :
        Cardinality({p \in DOMAIN files \ undeletable : p[1] = d})
            <= MaxFiles * (restarts + 1)

Before(p, q) == p[1] < q[1] \/ (p[1] = q[1] /\ p[2] < q[2])

\* Within one file the records are in the order they were logged, whatever was
\* pruned, refused or restarted; and reading the files by day and index gives that
\* order: "a full file is simply succeeded by the next index" (lines 41-43), as long
\* as one process runs: a restarted one begins at 0 again.
LinesInOrder ==
    \A p, q \in DOMAIN files : \A i \in DOMAIN files[p], j \in DOMAIN files[q] :
        (p = q /\ i < j) \/ (Before(p, q) /\ restarts = 0) => files[p][i] < files[q][j]

(***************************************************************************)
(* What the documentation says and the code does not do.                   *)
(***************************************************************************)
\* "retaining the last `maxFiles` size-files per day" (lines 31-32): no more
\* than that, whatever process wrote them.
RetentionAcrossRestarts ==
    \A d \in 1..MaxDays : Cardinality({p \in DOMAIN files : p[1] = d}) <= MaxFiles
=============================================================================
