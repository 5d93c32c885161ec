------------------------ MODULE CachedFileRepository ------------------------
(***************************************************************************)
(* The write-through file cache of packages/xf-fs/src/repository/general/  *)
(* CachedFileRepository.ts over the operations of FileRepository.ts; the   *)
(* React Native sibling in packages/xf-reactnative-fs runs the same code.  *)
(* What either of the two file repositories makes of an operation is a     *)
(* behaviour here.                                                         *)
(*                                                                         *)
(* Every operation is asynchronous: the file system applies it at a point  *)
(* between its call and its continuation, and operations of other callers  *)
(* run in between.  The content of a file is a version number.  Nothing    *)
(* but this repository, its streams and its temporary files writes to the  *)
(* files.                                                                  *)
(***************************************************************************)
EXTENDS Naturals, FiniteSets

CONSTANTS
    textCache, bytesCache,
    Files,         \* the file paths
    Dirs,          \* the directory paths
    Under,         \* [Dirs -> SUBSET Files]: the files below a directory
    Renamed,       \* [Files -> Files]: where a file is after its directory moved
    Callers,       \* each has at most one operation outstanding
    MaxVersion,    \* bound of the model: how many writes are started
    Silent,        \* the mutations that drop no entry, as far as callers use them
    Halfway        \* is a mutation of the disk visible half done, and may it
                   \* reject there?

VARIABLES
    disk,         \* [Files -> version], 0 when the file does not exist
    cache,        \* [Caches -> [Files -> version]], 0 when there is no entry
    op,           \* [Callers -> the outstanding operation]
    nextVersion,  \* the version the next write produces
    exposed       \* history: files whose cache entry may be left stale: they
                  \* changed while a read held their content, in a mutation that
                  \* rejected half-way, or in one that is silent

vars == <<disk, cache, op, nextVersion, exposed>>

Caches == {textCache, bytesCache}

\* The content of a file that is partly written.
Torn == MaxVersion + 1

Versions == 0..Torn

Idle == [kind |-> "idle"]

Reads == [kind : {"read"}, cache : Caches, file : Files,
          stage : {"called", "done"}, got : Versions]

Stages == {"called", "half", "copied", "done"}

\* write() and append(), delete(), copy(), move() and the recursive rmdir().  Silent are
\* writeStream(), the close() of a temporary file, moves of a directory and, under
\* React Native, deleteDir: delete() of a directory, as which copy() and move() onto one
\* begin, or a rmdir() that is not recursive, which removes what has come since it looked.
MutationsAt(stages, written) ==
    [kind : {"put", "stream"}, src : Files, dest : {"none"}, version : written, stage : stages]
    \cup [kind : {"delete", "close"}, src : Files, dest : {"none"}, version : {0},
          stage : stages]
    \cup [kind : {"copy", "move"}, src : Files, dest : Files, version : {0}, stage : stages]
    \cup [kind : {"rmdir", "moveDir", "deleteDir"}, src : Dirs, dest : {"none"},
          version : {0}, stage : stages]

Mutations == MutationsAt(Stages, 1..MaxVersion)

MaySilent == {"stream", "close", "moveDir", "deleteDir"}

Init ==
    /\ disk = [f \in Files |-> 0]
    /\ cache = [k \in Caches |-> [f \in Files |-> 0]]
    /\ op = [c \in Callers |-> Idle]
    /\ nextVersion = 1
    /\ exposed = {}

\* read() or readBytes() on a miss: super.read() is called.  A hit returns the
\* entry and changes nothing.
ReadMiss(c, k, f) ==
    /\ op[c] = Idle
    /\ cache[k][f] = 0
    /\ op' = [op EXCEPT ![c] = [kind |-> "read", cache |-> k, file |-> f,
                                stage |-> "called", got |-> 0]]
    /\ UNCHANGED <<disk, cache, nextVersion, exposed>>

\* readFile takes the content, or rejects with ENOENT.
ReadDisk(c) ==
    /\ op[c].kind = "read"
    /\ op[c].stage = "called"
    /\ op' = [op EXCEPT ![c] =
                 IF disk[@.file] = 0 THEN Idle
                 ELSE [@ EXCEPT !.stage = "done", !.got = disk[op[c].file]]]
    /\ UNCHANGED <<disk, cache, nextVersion, exposed>>

\* The continuation of read(): memoise.
ReadReturns(c) ==
    /\ op[c].kind = "read"
    /\ op[c].stage = "done"
    /\ cache' = [cache EXCEPT ![op[c].cache][op[c].file] = op[c].got]
    /\ op' = [op EXCEPT ![c] = Idle]
    /\ UNCHANGED <<disk, nextVersion, exposed>>

\* A mutation is called with its parameters.
Mutate(c) ==
    /\ op[c] = Idle
    /\ \E m \in MutationsAt({"called"}, {nextVersion} \cap 1..MaxVersion) :
        /\ m.kind \in MaySilent => m.kind \in Silent
        /\ nextVersion' = IF m.kind \in {"put", "stream"} THEN nextVersion + 1 ELSE nextVersion
        /\ op' = [op EXCEPT ![c] = m]
    /\ UNCHANGED <<disk, cache, exposed>>

Onto(m) == {Renamed[f] : f \in Under[m.src]}

\* The files a mutation changes on the disk.
Changed(m) ==
    CASE m.kind \in {"put", "delete", "stream", "close"} -> {m.src}
      [] m.kind = "copy"    -> {m.dest}
      [] m.kind = "move"    -> {m.src, m.dest}
      [] m.kind \in {"rmdir", "deleteDir"} -> Under[m.src]
      [] m.kind = "moveDir" -> Under[m.src] \cup Onto(m)

Without(fs) == [f \in Files |-> IF f \in fs THEN 0 ELSE disk[f]]

\* What the file system makes of it.
Effect(m) ==
    CASE m.kind \in {"put", "delete", "stream", "close"} -> [disk EXCEPT ![m.src] = m.version]
      [] m.kind = "copy"    -> [disk EXCEPT ![m.dest] = disk[m.src]]
      [] m.kind = "move"    ->
            [f \in Files |->
                IF f = m.dest THEN IF m.stage = "copied" THEN disk[f] ELSE disk[m.src]
                ELSE IF f = m.src THEN 0 ELSE disk[f]]
      [] m.kind \in {"rmdir", "deleteDir"} -> Without(Under[m.src])
      [] m.kind = "moveDir" ->
            [f \in Files |->
                IF \E g \in Under[m.src] : Renamed[g] = f
                THEN disk[CHOOSE g \in Under[m.src] : Renamed[g] = f]
                ELSE IF f \in Under[m.src] THEN 0 ELSE disk[f]]

\* What the disk may be half-way: a file is partly written, the target of a copy or a
\* move is unlinked, as React Native begins with, a directory is partly removed.
Halfways(m) ==
    CASE m.kind \in {"put", "stream"} -> {[disk EXCEPT ![m.src] = Torn]}
      [] m.kind \in {"copy", "move"} -> {[disk EXCEPT ![m.dest] = v] : v \in {0, Torn}}
      [] m.kind \in {"rmdir", "deleteDir"} -> {Without(fs) : fs \in SUBSET Under[m.src]}
      [] m.kind = "moveDir" -> {Without(Onto(m))}
      [] OTHER -> {}

\* The entries the continuation drops: the exact paths it is given, and for a
\* recursive rmdir everything below.
Invalidated(m) ==
    CASE m.kind \in {"put", "delete"} -> {m.src}
      [] m.kind = "copy"    -> {m.dest}
      [] m.kind = "move"    -> {m.src, m.dest}
      [] m.kind = "rmdir"   -> Under[m.src]
      [] m.kind \in MaySilent -> {}

IsMutation(c) == op[c].kind \notin {"idle", "read"}

\* A read of f holds a content that it has not yet memoised.
ReadHolds(f) ==
    \E d \in Callers : op[d].kind = "read" /\ op[d].file = f /\ op[d].stage = "done"

HasEntry(f) == \E k \in Caches : cache[k][f] # 0

\* The files that m changes past an entry that it will not drop, or under a read.
Exposes(m) ==
    {f \in Changed(m) : ReadHolds(f) \/ (HasEntry(f) /\ f \notin Invalidated(m))}

Applicable(m) ==
    CASE m.kind \in {"put", "stream", "rmdir", "deleteDir"} -> TRUE
      [] m.kind = "moveDir" -> \A f \in Onto(m) : disk[f] = 0
      [] OTHER -> disk[m.src] # 0

\* A mutation is under way ...
ApplyHalf(c) ==
    /\ Halfway
    /\ IsMutation(c)
    /\ op[c].stage = "called"
    /\ disk' \in Halfways(op[c])
    /\ exposed' = exposed \cup Exposes(op[c])
    /\ op' = [op EXCEPT ![c].stage = "half"]
    /\ UNCHANGED <<cache, nextVersion>>

\* ... or a move across devices, which rename() refused with EXDEV, has made its copy
\* and not yet unlinked the source.
Copied(c) ==
    /\ Halfway
    /\ op[c].kind = "move"
    /\ op[c].stage \in {"called", "half"}
    /\ op[c].src # op[c].dest
    /\ disk[op[c].src] # 0
    /\ disk' = [disk EXCEPT ![op[c].dest] = disk[op[c].src]]
    /\ exposed' = exposed \cup Exposes(op[c])
    /\ op' = [op EXCEPT ![c].stage = "copied"]
    /\ UNCHANGED <<cache, nextVersion>>

\* The file system carries the operation out.
Apply(c) ==
    /\ IsMutation(c)
    /\ op[c].stage \in {"called", "half", "copied"}
    /\ Applicable(op[c])
    /\ disk' = Effect(op[c])
    /\ exposed' = exposed \cup Exposes(op[c])
    /\ op' = [op EXCEPT ![c].stage = "done"]
    /\ UNCHANGED <<cache, nextVersion>>

\* The operation rejects, and nothing is invalidated, not even when it stopped
\* half-way.
Rejects(c) ==
    /\ IsMutation(c)
    /\ op[c].stage \in {"called", "half", "copied"}
    /\ exposed' = IF op[c].stage = "called" THEN exposed
                  ELSE exposed \cup {f \in Changed(op[c]) : HasEntry(f)}
    /\ op' = [op EXCEPT ![c] = Idle]
    /\ UNCHANGED <<disk, cache, nextVersion>>

\* Mutant: only the text cache is invalidated.
DropText(fs) ==
    [cache EXCEPT ![textCache] = [f \in Files |-> IF f \in fs THEN 0 ELSE @[f]]]

Drop(fs) == [k \in Caches |-> [f \in Files |-> IF f \in fs THEN 0 ELSE cache[k][f]]]

Repaired(fs) == exposed \ {f \in fs : ~ReadHolds(f)}

\* The continuation of a mutation: invalidate.
Returns(c) ==
    /\ IsMutation(c)
    /\ op[c].stage = "done"
    /\ cache' = Drop(Invalidated(op[c]))
    /\ exposed' = Repaired(Invalidated(op[c]))
    /\ op' = [op EXCEPT ![c] = Idle]
    /\ UNCHANGED <<disk, nextVersion>>

\* invalidateCache(path), called by the subclass.
InvalidateCache(f) ==
    /\ cache' = Drop({f})
    /\ exposed' = Repaired({f})
    /\ UNCHANGED <<disk, op, nextVersion>>

\* clearCache(), and terminate().
ClearCache ==
    /\ cache' = Drop(Files)
    /\ exposed' = Repaired(Files)
    /\ UNCHANGED <<disk, op, nextVersion>>

Next ==
    \/ \E c \in Callers :
          \/ \E k \in Caches, f \in Files : ReadMiss(c, k, f)
          \/ ReadDisk(c)
          \/ ReadReturns(c)
          \/ Mutate(c)
          \/ ApplyHalf(c)
          \/ Copied(c)
          \/ Apply(c)
          \/ Rejects(c)
          \/ Returns(c)
    \/ \E f \in Files : InvalidateCache(f)
    \/ ClearCache

Spec == Init /\ [][Next]_vars

-----------------------------------------------------------------------------

\* A cached content that differs from the file is either about to be dropped by a
\* mutation under way, or was left by a read that held it when the file changed, by a
\* mutation that rejected half-way, or by one that is silent.  Callers that keep reads
\* and mutations of a path apart, invalidate after a rejection, and after a stream, a
\* temporary file or what they do to a directory other than the recursive rmdir(), never
\* see stale content.
StaleOnlyIfExposed ==
    \A k \in Caches, f \in Files :
        cache[k][f] \notin {0, disk[f]} =>
            \/ f \in exposed
            \/ \E c \in Callers : /\ IsMutation(c)
                                  /\ op[c].stage # "called"
                                  /\ f \in Invalidated(op[c])

(***************************************************************************)
(* What the documentation says and the code does not do.                   *)
(***************************************************************************)
\* An entry is "served from memory until the path is mutated via this
\* Repository", and mutations through it invalidate the entry (lines 9-15): with
\* nothing in flight every entry is the content of its file.
CoherentWhenQuiet ==
    (\A c \in Callers : op[c] = Idle) =>
        \A k \in Caches, f \in Files : cache[k][f] \in {0, disk[f]}
=============================================================================
