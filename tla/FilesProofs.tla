------------------------------ MODULE FilesProofs ------------------------------
(*******************************************************************************)
(* Proofs about the four parts of MCFiles, for any callers, files, folders,    *)
(* rotation limits, versions, names and bytes.  Each section is about the      *)
(* specification of one part, which no other part disturbs.                    *)
(*******************************************************************************)
EXTENDS MCFiles, FiniteSetTheorems, SequenceTheorems, WellFoundedInduction, TLAPS

-----------------------------------------------------------------------------
(* CachedFileRepository: what an entry may hold that the disk no longer has.*)

Operations == {Cached!Idle} \cup Cached!Reads \cup Cached!Mutations

ContentTypes ==
    /\ disk \in [Files -> Cached!Versions]
    /\ cache \in [Cached!Caches -> [Files -> Cached!Versions]]
PendingTypes == pending \in [Callers -> Operations]

\* A content that is read and not yet memoised is that of the file, or the file has
\* changed under the read.
ReadInv ==
    \A c \in Callers :
        pending[c].kind = "read" /\ pending[c].stage = "done" =>
            pending[c].got = disk[pending[c].file] \/ pending[c].file \in exposed

\* What a mutation goes through leaves what it is about as it is.
LEMMA MutationKinds ==
    ASSUME NEW o \in Operations
    PROVE  /\ o.kind \in {"idle", "read", "put", "delete", "stream", "close", "copy", "move",
                        "rmdir", "moveDir", "deleteDir"}
           /\ o.kind = "idle" <=> o = Cached!Idle
           /\ o.kind = "read" <=> o \in Cached!Reads
           /\ o.kind \notin {"idle", "read"} <=> o \in Cached!Mutations
           /\ o.kind \notin {"idle", "read"} => o.stage \in Cached!Stages
BY DEF Operations, Cached!Idle, Cached!Reads, Cached!Mutations, Cached!MutationsAt

LEMMA InvalidatedChanges ==
    ASSUME NEW m \in Cached!Mutations
    PROVE  Cached!Invalidated(m) \subseteq Cached!Changed(m)
<1>1. m.kind \in {"put", "delete", "copy", "move", "rmdir"} \cup Cached!MaySilent
    BY DEF Cached!Mutations, Cached!MutationsAt, Cached!MaySilent
<1> QED
    BY <1>1 DEF Cached!Invalidated, Cached!Changed, Cached!MaySilent

LEMMA StageChanges ==
    ASSUME NEW m \in Cached!Mutations, NEW s \in {"half", "copied", "done"}
    PROVE  LET n == [m EXCEPT !.stage = s]
           IN  /\ n \in Cached!Mutations
               /\ n.stage = s /\ n.kind = m.kind /\ n.src = m.src /\ n.dest = m.dest
BY DEF Cached!Mutations, Cached!MutationsAt, Cached!Stages

LEMMA InvalidatedByKind ==
    ASSUME NEW m, NEW n, n.kind = m.kind, n.src = m.src, n.dest = m.dest
    PROVE  Cached!Invalidated(n) = Cached!Invalidated(m)
BY DEF Cached!Invalidated, Cached!MaySilent

LEMMA MutationFiles ==
    ASSUME NEW m \in Cached!Mutations
    PROVE  /\ m.kind \in {"put", "delete", "stream", "close", "copy", "move"} => m.src \in Files
           /\ m.kind \in {"copy", "move"} => m.dest \in Files
           /\ m.kind \in {"rmdir", "moveDir", "deleteDir"} =>
                 Under[m.src] \subseteq Files /\ Cached!Onto(m) \subseteq Files
           /\ m.version \in 0..MaxVersion
           /\ m.kind \in {"put", "delete", "stream", "close", "copy", "move", "rmdir", "moveDir",
                          "deleteDir"}
BY CachedAssumption DEF Cached!Mutations, Cached!MutationsAt, Cached!Onto

LEMMA ChangedFiles ==
    ASSUME NEW m \in Cached!Mutations
    PROVE  Cached!Changed(m) \subseteq Files
BY MutationFiles DEF Cached!Changed

LEMMA TornVersion == Cached!Torn \in Cached!Versions /\ 0 \in Cached!Versions
BY CachedAssumption DEF Cached!Torn, Cached!Versions

LEMMA VersionsOfMutations ==
    ASSUME NEW m \in Cached!Mutations
    PROVE  m.version \in Cached!Versions
BY MutationFiles, CachedAssumption DEF Cached!Torn, Cached!Versions

LEMMA WithoutSome ==
    ASSUME NEW fs, disk \in [Files -> Cached!Versions]
    PROVE  /\ Cached!Without(fs) \in [Files -> Cached!Versions]
           /\ \A f \in Files \ fs : Cached!Without(fs)[f] = disk[f]
BY TornVersion DEF Cached!Without

\* A mutation changes on the disk what it changes, and nothing else, ...
LEMMA EffectOfMutation ==
    ASSUME NEW m \in Cached!Mutations, disk \in [Files -> Cached!Versions]
    PROVE  /\ Cached!Effect(m) \in [Files -> Cached!Versions]
           /\ \A f \in Files \ Cached!Changed(m) : Cached!Effect(m)[f] = disk[f]
<1>1. CASE m.kind \in {"put", "delete", "stream", "close"}
    BY <1>1, MutationFiles, VersionsOfMutations DEF Cached!Effect, Cached!Changed
<1>2. CASE m.kind = "copy"
    BY <1>2, MutationFiles DEF Cached!Effect, Cached!Changed
<1>3. CASE m.kind = "move"
    BY <1>3, MutationFiles, TornVersion DEF Cached!Effect, Cached!Changed
<1>4. CASE m.kind \in {"rmdir", "deleteDir"}
    BY <1>4, WithoutSome DEF Cached!Effect, Cached!Changed
<1>5. CASE m.kind = "moveDir"
    <2> DEFINE moved(f) == IF \E g \in Under[m.src] : Renamed[g] = f
                           THEN disk[CHOOSE g \in Under[m.src] : Renamed[g] = f]
                           ELSE IF f \in Under[m.src] THEN 0 ELSE disk[f]
    <2>1. ASSUME NEW f \in Files, \E g \in Under[m.src] : Renamed[g] = f
          PROVE  moved(f) \in Cached!Versions
        <3>1. (CHOOSE g \in Under[m.src] : Renamed[g] = f) \in Files
            BY <1>5, <2>1, MutationFiles
        <3> QED
            BY <2>1, <3>1
    <2>2. ASSUME NEW f \in Files, ~\E g \in Under[m.src] : Renamed[g] = f
          PROVE  moved(f) \in Cached!Versions
        BY <2>2, TornVersion
    <2>3. \A f \in Files \ Cached!Changed(m) : moved(f) = disk[f]
        BY <1>5 DEF Cached!Changed, Cached!Onto
    <2>4. Cached!Effect(m) = [f \in Files |-> moved(f)]
        BY <1>5 DEF Cached!Effect
    <2> HIDE DEF moved
    <2> QED
        BY <2>1, <2>2, <2>3, <2>4
<1> QED
    BY <1>1, <1>2, <1>3, <1>4, <1>5, MutationFiles

\* ... not when it stops half-way either.
LEMMA HalfOfMutation ==
    ASSUME NEW m \in Cached!Mutations, disk \in [Files -> Cached!Versions],
           NEW h \in Cached!Halfways(m)
    PROVE  /\ h \in [Files -> Cached!Versions]
           /\ \A f \in Files \ Cached!Changed(m) : h[f] = disk[f]
<1>1. CASE m.kind \in {"put", "stream"}
    BY <1>1, MutationFiles, TornVersion DEF Cached!Halfways, Cached!Changed
<1>2. CASE m.kind \in {"copy", "move"}
    <2>1. PICK v \in {0, Cached!Torn} : h = [disk EXCEPT ![m.dest] = v]
        BY <1>2 DEF Cached!Halfways
    <2> QED
        BY <1>2, <2>1, MutationFiles, TornVersion DEF Cached!Changed
<1>3. CASE m.kind \in {"rmdir", "deleteDir"}
    <2>1. PICK fs \in SUBSET Under[m.src] : h = Cached!Without(fs)
        BY <1>3 DEF Cached!Halfways
    <2> QED
        BY <1>3, <2>1, WithoutSome DEF Cached!Changed
<1>4. CASE m.kind = "moveDir"
    BY <1>4, WithoutSome DEF Cached!Halfways, Cached!Changed
<1> QED
    BY <1>1, <1>2, <1>3, <1>4, MutationFiles DEF Cached!Halfways

LEMMA CachedInit == Cached!Init => ContentTypes /\ PendingTypes /\ ReadInv /\ StaleOnlyIfExposed
<1> SUFFICES ASSUME Cached!Init
             PROVE  ContentTypes /\ PendingTypes /\ ReadInv /\ StaleOnlyIfExposed
    OBVIOUS
<1>1. ContentTypes
    BY CachedAssumption DEF Cached!Init, ContentTypes, Cached!Versions, Cached!Torn
<1>2. PendingTypes
    BY DEF Cached!Init, PendingTypes, Operations
<1>3. ReadInv
    BY DEF Cached!Init, ReadInv, Cached!Idle
<1>4. StaleOnlyIfExposed
    BY DEF Cached!Init, StaleOnlyIfExposed, Cached!StaleOnlyIfExposed
<1> QED
    BY <1>1, <1>2, <1>3, <1>4

LEMMA DropTypes ==
    ASSUME ContentTypes, NEW fs
    PROVE  /\ Cached!Drop(fs) \in [Cached!Caches -> [Files -> Cached!Versions]]
           /\ \A k \in Cached!Caches, f \in Files :
                 Cached!Drop(fs)[k][f] = IF f \in fs THEN 0 ELSE cache[k][f]
BY CachedAssumption DEF Cached!Drop, ContentTypes, Cached!Versions, Cached!Torn

\* What a mutation does not change stays on the disk; what it changes under a read, or
\* past an entry that it will not drop, is noted.
LEMMA AppliedChanges ==
    ASSUME ContentTypes, PendingTypes, NEW c \in Callers,
           Cached!ApplyHalf(c) \/ Cached!Copied(c) \/ Cached!Apply(c)
    PROVE  /\ pending[c] \in Cached!Mutations
           /\ ContentTypes'
           /\ \E s \in {"half", "copied", "done"} : pending' = [pending EXCEPT ![c].stage = s]
           /\ cache' = cache
           /\ \A f \in Files \ Cached!Changed(pending[c]) : disk'[f] = disk[f]
           /\ exposed' = exposed \cup Cached!Exposes(pending[c])
<1>1. pending[c] \in Cached!Mutations
    BY MutationKinds DEF Cached!ApplyHalf, Cached!Copied, Cached!Apply, Cached!IsMutation,
        PendingTypes
<1>2. /\ disk' \in [Files -> Cached!Versions]
      /\ \A f \in Files \ Cached!Changed(pending[c]) : disk'[f] = disk[f]
    <2>1. CASE Cached!ApplyHalf(c)
        BY <1>1, <2>1, HalfOfMutation DEF Cached!ApplyHalf, ContentTypes
    <2>2. CASE Cached!Copied(c)
        BY <1>1, <2>2, MutationFiles DEF Cached!Copied, Cached!Changed, ContentTypes
    <2>3. CASE Cached!Apply(c)
        BY <1>1, <2>3, EffectOfMutation DEF Cached!Apply, ContentTypes
    <2> QED
        BY <2>1, <2>2, <2>3
<1>3. /\ exposed' = exposed \cup Cached!Exposes(pending[c])
      /\ cache' = cache
      /\ \E s \in {"half", "copied", "done"} : pending' = [pending EXCEPT ![c].stage = s]
    BY DEF Cached!ApplyHalf, Cached!Copied, Cached!Apply
<1>4. ContentTypes'
    BY <1>2, <1>3 DEF ContentTypes
<1> QED
    BY <1>1, <1>2, <1>3, <1>4

LEMMA Mutated ==
    ASSUME PendingTypes, NEW c \in Callers, Cached!Mutate(c)
    PROVE  \E m \in Cached!Mutations :
              m.stage = "called" /\ pending' = [pending EXCEPT ![c] = m]
<1>1. PICK m \in Cached!MutationsAt({"called"}, {nextVersion} \cap 1..MaxVersion) :
          pending' = [pending EXCEPT ![c] = m]
    BY DEF Cached!Mutate
<1>2. m \in Cached!Mutations /\ m.stage = "called"
    BY DEF Cached!Mutations, Cached!MutationsAt, Cached!Stages
<1> QED
    BY <1>1, <1>2

LEMMA ContentStep ==
    ASSUME ContentTypes, PendingTypes, [Cached!Next]_(Cached!vars)
    PROVE  ContentTypes'
<1> USE DEF ContentTypes
<1>1. CASE UNCHANGED <<disk, cache>>
    BY <1>1
<1>2. ASSUME NEW c \in Callers, Cached!ReadReturns(c)
      PROVE  ContentTypes'
    <2>1. pending[c] \in Cached!Reads
        BY <1>2, MutationKinds DEF Cached!ReadReturns, PendingTypes
    <2> QED
        BY <1>2, <2>1 DEF Cached!ReadReturns, Cached!Reads
<1>3. ASSUME NEW c \in Callers, Cached!ApplyHalf(c) \/ Cached!Copied(c) \/ Cached!Apply(c)
      PROVE  ContentTypes'
    BY <1>3, AppliedChanges
<1>5. ASSUME NEW fs, cache' = Cached!Drop(fs), UNCHANGED disk
      PROVE  ContentTypes'
    BY <1>5, DropTypes
<1>6. ASSUME NEW c \in Callers, Cached!Returns(c)
      PROVE  ContentTypes'
    BY <1>6, <1>5 DEF Cached!Returns
<1>7. ASSUME NEW f \in Files, Cached!InvalidateCache(f)
      PROVE  ContentTypes'
    BY <1>7, <1>5 DEF Cached!InvalidateCache
<1>8. CASE Cached!ClearCache
    BY <1>8, <1>5 DEF Cached!ClearCache
<1> QED
    BY <1>1, <1>2, <1>3, <1>6, <1>7, <1>8
       DEF Cached!Next, Cached!vars, Cached!ReadMiss, Cached!ReadDisk, Cached!Mutate, Cached!Rejects

LEMMA PendingStep ==
    ASSUME ContentTypes, PendingTypes, [Cached!Next]_(Cached!vars)
    PROVE  PendingTypes'
<1> USE DEF PendingTypes
<1>1. ASSUME NEW c \in Callers, NEW o \in Operations, pending' = [pending EXCEPT ![c] = o]
      PROVE  PendingTypes'
    BY <1>1
<1>2. Cached!Idle \in Operations
    BY DEF Operations
<1>3. CASE UNCHANGED pending
    BY <1>3
<1>4. ASSUME NEW c \in Callers, NEW k \in Cached!Caches, NEW f \in Files, Cached!ReadMiss(c, k, f)
      PROVE  PendingTypes'
    <2>1. [kind |-> "read", cache |-> k, file |-> f, stage |-> "called", got |-> 0] \in Operations
        BY CachedAssumption DEF Operations, Cached!Reads, Cached!Versions, Cached!Torn
    <2> QED
        BY <1>1, <1>4, <2>1 DEF Cached!ReadMiss
<1>5. ASSUME NEW c \in Callers, Cached!ReadDisk(c)
      PROVE  PendingTypes'
    <2>1. pending[c] \in Cached!Reads
        BY <1>5, MutationKinds DEF Cached!ReadDisk
    <2>2. [pending[c] EXCEPT !.stage = "done", !.got = disk[pending[c].file]] \in Operations
        BY <2>1 DEF Operations, Cached!Reads, ContentTypes
    <2> QED
        BY <1>1, <1>2, <1>5, <2>2 DEF Cached!ReadDisk
<1>6. ASSUME NEW c \in Callers, Cached!Mutate(c)
      PROVE  PendingTypes'
    BY <1>1, <1>6, Mutated DEF Operations
<1>7. ASSUME NEW c \in Callers, Cached!ApplyHalf(c) \/ Cached!Copied(c) \/ Cached!Apply(c)
      PROVE  PendingTypes'
    <2>1. /\ pending[c] \in Cached!Mutations
          /\ \E s \in {"half", "copied", "done"} : pending' = [pending EXCEPT ![c].stage = s]
        BY <1>7, AppliedChanges
    <2>2. PICK s \in {"half", "copied", "done"} : pending' = [pending EXCEPT ![c].stage = s]
        BY <2>1
    <2>3. [pending[c] EXCEPT !.stage = s] \in Operations
        BY <2>1, StageChanges DEF Operations
    <2> QED
        BY <1>1, <2>2, <2>3
<1>8. ASSUME NEW c \in Callers, Cached!ReadReturns(c) \/ Cached!Rejects(c) \/ Cached!Returns(c)
      PROVE  PendingTypes'
    BY <1>1, <1>2, <1>8 DEF Cached!ReadReturns, Cached!Rejects, Cached!Returns
<1> QED
    BY <1>3, <1>4, <1>5, <1>6, <1>7, <1>8
       DEF Cached!Next, Cached!vars, Cached!InvalidateCache, Cached!ClearCache

LEMMA MutationGoesOn ==
    ASSUME ContentTypes, PendingTypes, NEW c \in Callers,
           Cached!ApplyHalf(c) \/ Cached!Copied(c) \/ Cached!Apply(c)
    PROVE  /\ \A b \in Callers \ {c} : pending'[b] = pending[b]
           /\ pending'[c].kind = pending[c].kind /\ pending[c].kind \notin {"idle", "read"}
           /\ pending'[c].stage \in {"half", "copied", "done"}
           /\ Cached!Invalidated(pending'[c]) = Cached!Invalidated(pending[c])
<1>1. /\ pending[c] \in Cached!Mutations
      /\ \E s \in {"half", "copied", "done"} : pending' = [pending EXCEPT ![c].stage = s]
    BY AppliedChanges
<1>2. PICK s \in {"half", "copied", "done"} : pending' = [pending EXCEPT ![c].stage = s]
    BY <1>1
<1>3. /\ \A b \in Callers \ {c} : pending'[b] = pending[b]
      /\ pending'[c] = [pending[c] EXCEPT !.stage = s]
    BY <1>2 DEF PendingTypes
<1>4. /\ pending'[c].stage = s /\ pending'[c].kind = pending[c].kind
      /\ pending'[c].src = pending[c].src /\ pending'[c].dest = pending[c].dest
    <2>1. /\ [pending[c] EXCEPT !.stage = s].stage = s
          /\ [pending[c] EXCEPT !.stage = s].kind = pending[c].kind
          /\ [pending[c] EXCEPT !.stage = s].src = pending[c].src
          /\ [pending[c] EXCEPT !.stage = s].dest = pending[c].dest
        BY <1>1, StageChanges
    <2> QED
        BY <1>3, <2>1
<1>5. Cached!Invalidated(pending'[c]) = Cached!Invalidated(pending[c])
    BY <1>4, InvalidatedByKind
<1>6. pending[c].kind \notin {"idle", "read"}
    BY <1>1, MutationFiles
<1> QED
    BY <1>3, <1>4, <1>5, <1>6

LEMMA ReadFile ==
    ASSUME PendingTypes, NEW c \in Callers, pending[c].kind = "read"
    PROVE  pending[c].file \in Files /\ pending[c] \in Cached!Reads
BY MutationKinds DEF PendingTypes, Cached!Reads

LEMMA ReadStep ==
    ASSUME ContentTypes, PendingTypes, ReadInv, [Cached!Next]_(Cached!vars)
    PROVE  ReadInv'
<1> SUFFICES ASSUME NEW b \in Callers, pending'[b].kind = "read", pending'[b].stage = "done"
             PROVE  pending'[b].got = disk'[pending'[b].file] \/ pending'[b].file \in exposed'
    BY DEF ReadInv
<1>1. CASE UNCHANGED <<disk, exposed>> /\ pending'[b] = pending[b]
    BY <1>1 DEF ReadInv
<1>2. ASSUME NEW c \in Callers, NEW o \in Operations, pending' = [pending EXCEPT ![c] = o],
             o.kind = "read" => o.stage # "done"
      PROVE  pending'[b] = pending[b]
    BY <1>2 DEF PendingTypes
<1>3. Cached!Idle \in Operations /\ Cached!Idle.kind = "idle"
    BY DEF Operations, Cached!Idle
<1>4. ASSUME NEW c \in Callers, NEW k \in Cached!Caches, NEW f \in Files, Cached!ReadMiss(c, k, f)
      PROVE  pending'[b] = pending[b] /\ UNCHANGED <<disk, exposed>>
    BY <1>4 DEF Cached!ReadMiss, PendingTypes
<1>5. ASSUME NEW c \in Callers, Cached!ReadDisk(c), b # c \/ disk[pending[c].file] = 0
      PROVE  pending'[b] = pending[b] /\ UNCHANGED <<disk, exposed>>
    BY <1>5, <1>3 DEF Cached!ReadDisk, PendingTypes
<1>6. ASSUME Cached!ReadDisk(b), disk[pending[b].file] # 0
      PROVE  pending'[b].got = disk'[pending'[b].file]
    <2>1. pending'[b] = [pending[b] EXCEPT !.stage = "done", !.got = disk[pending[b].file]]
        BY <1>6 DEF Cached!ReadDisk, PendingTypes
    <2>2. pending[b] \in Cached!Reads /\ disk' = disk
        BY <1>6, ReadFile DEF Cached!ReadDisk
    <2> QED
        BY <2>1, <2>2 DEF Cached!Reads
<1>7. ASSUME NEW c \in Callers, Cached!Mutate(c)
      PROVE  pending'[b] = pending[b] /\ UNCHANGED <<disk, exposed>>
    <2>1. PICK m \in Cached!Mutations : pending' = [pending EXCEPT ![c] = m]
        BY <1>7, Mutated
    <2>2. m.kind # "read"
        BY MutationFiles
    <2> QED
        BY <1>7, <2>1, <2>2 DEF Cached!Mutate, PendingTypes
<1>8. ASSUME NEW c \in Callers, Cached!ApplyHalf(c) \/ Cached!Copied(c) \/ Cached!Apply(c)
      PROVE  pending'[b].got = disk'[pending'[b].file] \/ pending'[b].file \in exposed'
    <2>1. pending'[b] = pending[b]
        BY <1>8, MutationGoesOn DEF Cached!IsMutation
    <2>2. pending[b].got = disk[pending[b].file] \/ pending[b].file \in exposed
        BY <2>1 DEF ReadInv
    <2>3. pending[b].file \in Files /\ Cached!ReadHolds(pending[b].file)
        BY <2>1, ReadFile DEF Cached!ReadHolds
    <2>4. pending[b].file \in Cached!Changed(pending[c]) => pending[b].file \in exposed'
        BY <1>8, <2>3, AppliedChanges DEF Cached!Exposes
    <2>5. pending[b].file \notin Cached!Changed(pending[c]) =>
              disk'[pending[b].file] = disk[pending[b].file]
        BY <1>8, <2>3, AppliedChanges
    <2>6. exposed \subseteq exposed'
        BY <1>8, AppliedChanges
    <2> QED
        BY <2>1, <2>2, <2>4, <2>5, <2>6
<1>9. ASSUME NEW c \in Callers, Cached!ReadReturns(c) \/ Cached!Rejects(c)
      PROVE  pending'[b] = pending[b] /\ UNCHANGED disk /\ exposed \subseteq exposed'
    BY <1>9, <1>3 DEF Cached!ReadReturns, Cached!Rejects, PendingTypes
<1>10. ASSUME NEW fs, exposed' = Cached!Repaired(fs), pending'[b] = pending[b], UNCHANGED disk
       PROVE  pending'[b].got = disk'[pending'[b].file] \/ pending'[b].file \in exposed'
    <2>1. Cached!ReadHolds(pending[b].file)
        BY <1>10 DEF Cached!ReadHolds
    <2> QED
        BY <2>1, <1>10 DEF Cached!Repaired, ReadInv
<1>11. ASSUME NEW c \in Callers, Cached!Returns(c)
       PROVE  pending'[b].got = disk'[pending'[b].file] \/ pending'[b].file \in exposed'
    <2>1. pending'[b] = pending[b]
        BY <1>11, <1>3 DEF Cached!Returns, PendingTypes
    <2> QED
        BY <2>1, <1>10, <1>11 DEF Cached!Returns
<1>12. ASSUME NEW f \in Files, Cached!InvalidateCache(f)
       PROVE  pending'[b].got = disk'[pending'[b].file] \/ pending'[b].file \in exposed'
    BY <1>10, <1>12 DEF Cached!InvalidateCache
<1>13. CASE Cached!ClearCache
    BY <1>10, <1>13 DEF Cached!ClearCache
<1>14. CASE UNCHANGED Cached!vars
    BY <1>1, <1>14 DEF Cached!vars
<1>15. ASSUME NEW c \in Callers, Cached!ReadReturns(c) \/ Cached!Rejects(c)
       PROVE  pending'[b].got = disk'[pending'[b].file] \/ pending'[b].file \in exposed'
    BY <1>9, <1>15 DEF ReadInv
<1> QED
    BY <1>1, <1>4, <1>5, <1>6, <1>7, <1>8, <1>11, <1>12, <1>13, <1>14, <1>15 DEF Cached!Next

\* The file f has an entry that will be dropped.
LEMMA StaleStep ==
    ASSUME ContentTypes, PendingTypes, ReadInv, StaleOnlyIfExposed, [Cached!Next]_(Cached!vars)
    PROVE  StaleOnlyIfExposed'
<1> DEFINE Doomed(f) == \E c \in Callers : /\ Cached!IsMutation(c)
                                           /\ pending[c].stage # "called"
                                           /\ f \in Cached!Invalidated(pending[c])
<1> SUFFICES ASSUME NEW k \in Cached!Caches, NEW f \in Files, cache'[k][f] \notin {0, disk'[f]}
             PROVE  f \in exposed' \/ Doomed(f)'
    BY DEF StaleOnlyIfExposed, Cached!StaleOnlyIfExposed
<1>0. cache[k][f] \notin {0, disk[f]} => f \in exposed \/ Doomed(f)
    BY DEF StaleOnlyIfExposed, Cached!StaleOnlyIfExposed
<1>1. ASSUME NEW c \in Callers, \A b \in Callers \ {c} : pending'[b] = pending[b],
             pending[c].kind \in {"idle", "read"} \/ pending[c].stage = "called" \/ f \notin Cached!Invalidated(pending[c]),
             Doomed(f)
      PROVE  Doomed(f)'
    <2>1. PICK b \in Callers : /\ Cached!IsMutation(b)
                               /\ pending[b].stage # "called"
                               /\ f \in Cached!Invalidated(pending[b])
        BY <1>1
    <2>2. pending'[b] = pending[b]
        BY <1>1, <2>1 DEF Cached!IsMutation
    <2>3. Cached!Invalidated(pending'[b]) = Cached!Invalidated(pending[b])
        BY <2>2
    <2> QED
        BY <2>1, <2>2, <2>3 DEF Cached!IsMutation, Cached!Invalidated, Cached!MaySilent
<1> HIDE DEF Doomed
<1>2. CASE UNCHANGED Cached!vars
    BY <1>0, <1>2 DEF Cached!vars, Doomed, Cached!IsMutation, Cached!Invalidated, Cached!MaySilent
<1>3. ASSUME NEW c \in Callers, NEW o, pending[c].kind \in {"idle", "read"} \/ pending[c].stage = "called",
             pending' = [pending EXCEPT ![c] = o], UNCHANGED <<disk, cache, exposed>>
      PROVE  f \in exposed' \/ Doomed(f)'
    <2>1. \A b \in Callers \ {c} : pending'[b] = pending[b]
        BY <1>3 DEF PendingTypes
    <2> QED
        BY <1>0, <1>1, <1>3, <2>1
<1>4. ASSUME NEW c \in Callers,
             \/ \E j \in Cached!Caches, g \in Files : Cached!ReadMiss(c, j, g)
             \/ Cached!ReadDisk(c)
             \/ Cached!Mutate(c)
             \/ Cached!Rejects(c) /\ pending[c].stage = "called"
      PROVE  f \in exposed' \/ Doomed(f)'
    BY <1>3, <1>4 DEF Cached!ReadMiss, Cached!ReadDisk, Cached!Mutate, Cached!Rejects, Cached!Idle
<1>10. ASSUME NEW c \in Callers, Cached!Rejects(c), pending[c].stage # "called"
       PROVE  f \in exposed' \/ Doomed(f)'
    <2>1. /\ exposed' = exposed \cup {g \in Cached!Changed(pending[c]) : Cached!HasEntry(g)}
          /\ cache' = cache /\ disk' = disk /\ Cached!HasEntry(f)
        BY <1>10 DEF Cached!Rejects, Cached!HasEntry
    <2>2. \A b \in Callers \ {c} : pending'[b] = pending[b]
        BY <1>10 DEF Cached!Rejects, PendingTypes
    <2>3. pending[c] \in Cached!Mutations
        BY <1>10, MutationKinds DEF Cached!Rejects, Cached!IsMutation, PendingTypes
    <2>4. CASE f \in Cached!Invalidated(pending[c])
        <3>1. f \in Cached!Changed(pending[c])
            BY <2>3, <2>4, InvalidatedChanges
        <3> QED
            BY <2>1, <3>1
    <2>5. CASE f \notin Cached!Invalidated(pending[c])
        BY <1>0, <1>1, <2>1, <2>2, <2>5
    <2> QED
        BY <2>4, <2>5
<1>5. ASSUME NEW c \in Callers, Cached!ReadReturns(c)
      PROVE  f \in exposed' \/ Doomed(f)'
    <2>1. /\ pending[c].kind = "read" /\ pending[c].stage = "done"
          /\ cache' = [cache EXCEPT ![pending[c].cache][pending[c].file] = pending[c].got]
          /\ pending' = [pending EXCEPT ![c] = Cached!Idle] /\ UNCHANGED <<disk, exposed>>
        BY <1>5 DEF Cached!ReadReturns
    <2>2. CASE pending[c].cache = k /\ pending[c].file = f
        <3>1. cache'[k][f] = pending[c].got
            BY <2>1, <2>2 DEF ContentTypes
        <3> QED
            BY <2>1, <2>2, <3>1 DEF ReadInv
    <2>3. CASE ~(pending[c].cache = k /\ pending[c].file = f)
        <3>1. cache'[k][f] = cache[k][f]
            BY <2>1, <2>3 DEF ContentTypes
        <3>2. \A b \in Callers \ {c} : pending'[b] = pending[b]
            BY <2>1 DEF PendingTypes
        <3> QED
            BY <1>0, <1>1, <2>1, <3>1, <3>2
    <2> QED
        BY <2>2, <2>3
<1>6. ASSUME NEW c \in Callers, Cached!ApplyHalf(c) \/ Cached!Copied(c) \/ Cached!Apply(c)
      PROVE  f \in exposed' \/ Doomed(f)'
    <2>1. /\ \A b \in Callers \ {c} : pending'[b] = pending[b]
          /\ pending'[c].kind = pending[c].kind /\ pending[c].kind \notin {"idle", "read"}
          /\ pending'[c].stage \in {"half", "copied", "done"}
          /\ Cached!Invalidated(pending'[c]) = Cached!Invalidated(pending[c])
        BY <1>6, MutationGoesOn
    <2>2. /\ cache' = cache /\ exposed' = exposed \cup Cached!Exposes(pending[c])
          /\ \A g \in Files \ Cached!Changed(pending[c]) : disk'[g] = disk[g]
        BY <1>6, AppliedChanges
    <2>3. CASE f \in Cached!Invalidated(pending[c])
        <3>1. pending'[c].kind \notin {"idle", "read"} /\ pending'[c].stage # "called"
            BY <2>1
        <3>2. \E b \in Callers : /\ pending'[b].kind \notin {"idle", "read"}
                                 /\ pending'[b].stage # "called"
                                 /\ f \in Cached!Invalidated(pending'[b])
            BY <2>1, <2>3, <3>1
        <3> QED
            BY <3>2 DEF Doomed, Cached!IsMutation, Cached!Invalidated, Cached!MaySilent
    <2>4. CASE f \notin Cached!Invalidated(pending[c]) /\ f \in Cached!Changed(pending[c])
        <3>1. Cached!HasEntry(f)
            BY <2>2 DEF Cached!HasEntry
        <3> QED
            BY <2>2, <2>4, <3>1 DEF Cached!Exposes
    <2>5. CASE f \notin Cached!Invalidated(pending[c]) /\ f \notin Cached!Changed(pending[c])
        <3>1. cache[k][f] \notin {0, disk[f]}
            BY <2>2, <2>5
        <3> QED
            BY <1>0, <1>1, <2>1, <2>2, <2>5, <3>1
    <2> QED
        BY <2>3, <2>4, <2>5
<1>7. ASSUME NEW fs, cache' = Cached!Drop(fs), exposed' = Cached!Repaired(fs), UNCHANGED disk,
             Doomed(f) /\ f \notin fs => Doomed(f)'
      PROVE  f \in exposed' \/ Doomed(f)'
    <2>1. f \notin fs /\ cache'[k][f] = cache[k][f]
        BY <1>7, DropTypes
    <2> QED
        BY <1>0, <1>7, <2>1 DEF Cached!Repaired
<1>8. ASSUME NEW c \in Callers, Cached!Returns(c)
      PROVE  f \in exposed' \/ Doomed(f)'
    <2>1. \A b \in Callers \ {c} : pending'[b] = pending[b]
        BY <1>8 DEF Cached!Returns, PendingTypes
    <2>2. Doomed(f) /\ f \notin Cached!Invalidated(pending[c]) => Doomed(f)'
        BY <1>1, <2>1
    <2> QED
        BY <1>7, <1>8, <2>2 DEF Cached!Returns
<1>9. CASE (\E g \in Files : Cached!InvalidateCache(g)) \/ Cached!ClearCache
    <2>1. pending' = pending
        BY <1>9 DEF Cached!InvalidateCache, Cached!ClearCache
    <2>2. Doomed(f) => Doomed(f)'
        BY <2>1 DEF Doomed, Cached!IsMutation, Cached!Invalidated, Cached!MaySilent
    <2> QED
        BY <1>7, <1>9, <2>2 DEF Cached!InvalidateCache, Cached!ClearCache
<1> QED
    BY <1>2, <1>4, <1>5, <1>6, <1>8, <1>9, <1>10 DEF Cached!Next

\* For any files, directories, callers and silent mutations: what an entry holds differs
\* from the disk only while a mutation that drops it is under way, or where it was exposed:
\* the file changed under a read, past the entry, or in a mutation that then rejected.  The
\* inductive invariant adds what the reads under way hold, for they store it later.
THEOREM CachedStaleness == Cached!Spec => []StaleOnlyIfExposed
<1> DEFINE I == ContentTypes /\ PendingTypes /\ ReadInv /\ StaleOnlyIfExposed
<1>1. Cached!Init => I
    BY CachedInit
<1>2. I /\ [Cached!Next]_(Cached!vars) => I'
    BY ContentStep, PendingStep, ReadStep, StaleStep
<1> QED
    BY <1>1, <1>2, PTL DEF Cached!Spec

-----------------------------------------------------------------------------
(* RotatingFileTree: what rotation keeps and in which order.               *)

\* The size-files of a day that the file system has not refused to delete.
Kept(d) == {p \in DOMAIN files \ undeletable : p[1] = d}

\* The last MaxFiles paths of the day that is written.
Window == {day} \X ((index - MaxFiles + 1)..index)

\* Those, and the path that prune() is about to delete.
Spared == Window \cup (IF pc = "prune" THEN {Outdated} ELSE {})

TreeTypes ==
    /\ day \in 1..MaxDays /\ today \in 1..MaxDays /\ day <= today
    /\ index \in Nat
    /\ nextRecord \in Nat
    /\ restarts \in Nat
    /\ DOMAIN files \subseteq (1..MaxDays) \X Nat
    /\ IsFiniteSet(DOMAIN files)

\* Beside the window of the day there is no more than a window for each process that
\* has stopped, and so there is for a day that is still to come.
WindowInv ==
    /\ Cardinality(Kept(day) \ Spared) <= MaxFiles * restarts
    /\ \A d \in 1..MaxDays : d > day => Cardinality(Kept(d)) <= MaxFiles * restarts

LEMMA TreeInit == Init => TreeTypes /\ WindowInv /\ RetentionWindow
<1> SUFFICES ASSUME Init
             PROVE  TreeTypes /\ WindowInv /\ RetentionWindow
    OBVIOUS
<1>1. DOMAIN files = {}
    BY DEF Init
<1>2. TreeTypes
    BY <1>1, FS_EmptySet, RotationAssumption DEF Init, TreeTypes
<1>3. \A d : Kept(d) = {}
    BY <1>1 DEF Kept
<1>4. MaxFiles * 0 = 0 /\ MaxFiles * (0 + 1) = MaxFiles /\ MaxFiles \in Nat
    BY RotationAssumption
<1>5. restarts = 0
    BY DEF Init
<1>6. Kept(day) \ Spared = {}
    BY <1>3
<1>7. WindowInv
    BY <1>3, <1>4, <1>5, <1>6, FS_EmptySet DEF WindowInv
<1>8. \A d \in 1..MaxDays : Cardinality(Kept(d)) <= MaxFiles * (restarts + 1)
    BY <1>3, <1>4, <1>5, FS_EmptySet
<1> QED
    BY <1>2, <1>7, <1>8 DEF RetentionWindow, Kept

LEMMA WithoutProperties ==
    ASSUME NEW p
    PROVE  /\ DOMAIN Without(p) = DOMAIN files \ {p}
           /\ \A q \in DOMAIN Without(p) : Without(p)[q] = files[q]
BY DEF Without

LEMMA AppendDomain ==
    ASSUME NEW p
    PROVE  DOMAIN Append1(p) = DOMAIN files \cup {p}
BY DEF Append1

\* The files that a step may leave: no others, but for the one that is written.
LEMMA FilesStep ==
    ASSUME [Next]_vars
    PROVE  \/ files' = files
           \/ /\ DOMAIN files' = DOMAIN files \ {Outdated}
              /\ \A q \in DOMAIN files' : files'[q] = files[q]
           \/ /\ Write /\ files' = Append1(currentPath)
              /\ DOMAIN files' = DOMAIN files \cup {currentPath}
<1>1. \/ files' = files
      \/ files' = Without(Outdated)
      \/ Write /\ files' = Append1(currentPath)
    BY DEF Next, vars, ShouldRotate, Rotate, Prune, PruneRejects, Write, Midnight, Restart
<1>2. CASE files' = Without(Outdated)
    BY <1>2, WithoutProperties
<1>3. CASE Write /\ files' = Append1(currentPath)
    BY <1>3, AppendDomain
<1> QED
    BY <1>1, <1>2, <1>3

LEMMA TreeTypesStep ==
    ASSUME TreeTypes, [Next]_vars
    PROVE  TreeTypes'
<1>1. DOMAIN files' \subseteq (1..MaxDays) \X Nat /\ IsFiniteSet(DOMAIN files')
    <2>1. CASE files' = files
        BY <2>1 DEF TreeTypes
    <2>2. CASE DOMAIN files' = DOMAIN files \ {Outdated}
        BY <2>2, FS_RemoveElement DEF TreeTypes
    <2>3. CASE DOMAIN files' = DOMAIN files \cup {currentPath}
        <3>1. currentPath \in (1..MaxDays) \X Nat
            BY DEF TreeTypes, currentPath
        <3> QED
            BY <2>3, <3>1, FS_AddElement DEF TreeTypes
    <2> QED
        BY <2>1, <2>2, <2>3, FilesStep
<1>2. /\ day' \in 1..MaxDays /\ today' \in 1..MaxDays /\ day' <= today'
      /\ index' \in Nat
    BY RotationAssumption DEF TreeTypes, Next, vars, ShouldRotate, Rotate, Prune, PruneRejects, Write, Midnight, Restart
<1>3. nextRecord' \in Nat /\ restarts' \in Nat
    BY DEF TreeTypes, Next, vars, ShouldRotate, Rotate, Prune, PruneRejects, Write, Midnight, Restart
<1> QED
    BY <1>1, <1>2, <1>3 DEF TreeTypes

LEMMA WindowSize ==
    ASSUME TreeTypes
    PROVE  IsFiniteSet(Window) /\ Cardinality(Window) = MaxFiles
<1>1. index - MaxFiles + 1 \in Int /\ index \in Int /\ ~(index - MaxFiles + 1 > index)
      /\ index - (index - MaxFiles + 1) + 1 = MaxFiles /\ MaxFiles \in Nat
    BY RotationAssumption DEF TreeTypes
<1>2. IsFiniteSet((index - MaxFiles + 1)..index) /\ Cardinality((index - MaxFiles + 1)..index) = MaxFiles
    BY <1>1, FS_Interval
<1>3. IsFiniteSet({day}) /\ Cardinality({day}) = 1
    BY FS_Singleton
<1>4. IsFiniteSet(Window) /\ Cardinality(Window) = 1 * MaxFiles
    BY <1>2, <1>3, FS_Product DEF Window
<1> QED
    BY <1>1, <1>4

\* A set is no larger than what it has in W and beside it.
LEMMA SplitBound ==
    ASSUME NEW S, IsFiniteSet(S), NEW W, IsFiniteSet(W), NEW m \in Nat, NEW n \in Nat,
           Cardinality(W) = m, Cardinality(S \ W) <= n
    PROVE  Cardinality(S) <= m + n
<1>1. IsFiniteSet(S \cap W) /\ Cardinality(S \cap W) <= m
    BY FS_Intersection
<1>2. Cardinality(S \ W) = Cardinality(S) - Cardinality(S \cap W)
    BY FS_Difference
<1>3. Cardinality(S) \in Nat /\ Cardinality(S \cap W) \in Nat
    BY <1>1, FS_CardinalityType
<1> QED
    BY <1>1, <1>2, <1>3

LEMMA KeptFinite == TreeTypes => \A d : IsFiniteSet(Kept(d))
<1> SUFFICES ASSUME TreeTypes, NEW d
             PROVE  IsFiniteSet(Kept(d))
    OBVIOUS
<1>1. Kept(d) \subseteq DOMAIN files
    BY DEF Kept
<1> QED
    BY <1>1, FS_Subset DEF TreeTypes

\* What is left of a bounded set stays within the bound.
LEMMA FewerBound ==
    ASSUME NEW S, IsFiniteSet(S), NEW T \in SUBSET S, NEW n \in Nat, Cardinality(S) <= n
    PROVE  Cardinality(T) <= n
BY FS_Subset, FS_CardinalityType

LEMMA Multiples ==
    ASSUME NEW m \in Nat, NEW n \in Nat
    PROVE  m * n \in Nat /\ m * (n + 1) = m * n + m /\ m * (n + 1) \in Nat
BY SMT

LEMMA Windows ==
    ASSUME TreeTypes
    PROVE  /\ MaxFiles * restarts \in Nat
           /\ MaxFiles * (restarts + 1) = MaxFiles * restarts + MaxFiles
           /\ MaxFiles \in Nat
BY RotationAssumption, Multiples DEF TreeTypes

LEMMA RetentionStep ==
    ASSUME TreeTypes, WindowInv, RetentionWindow, [Next]_vars
    PROVE  WindowInv' /\ RetentionWindow'
<1>0. \A d : IsFiniteSet(Kept(d))
    BY KeptFinite
<1>w. /\ MaxFiles * restarts \in Nat /\ MaxFiles * (restarts + 1) \in Nat
      /\ MaxFiles * (restarts + 1) = MaxFiles * restarts + MaxFiles
    BY Windows
<1>r. \A d \in 1..MaxDays : Cardinality(Kept(d)) <= MaxFiles * (restarts + 1)
    BY DEF RetentionWindow, Kept
<1>1. ASSUME \A d : Kept(d)' \subseteq Kept(d), restarts' = restarts
      PROVE  RetentionWindow'
    <2>1. \A d \in 1..MaxDays : Cardinality(Kept(d)') <= MaxFiles * (restarts + 1)
        BY <1>0, <1>1, <1>w, <1>r, FewerBound
    <2> QED
        BY <1>1, <2>1 DEF RetentionWindow, Kept
<1>2. ASSUME \A d : Kept(d)' \subseteq Kept(d), restarts' = restarts, day' = day,
             Kept(day)' \ Spared' \subseteq Kept(day) \ Spared
      PROVE  WindowInv'
    <2>1. Cardinality(Kept(day)' \ Spared') <= MaxFiles * restarts
        BY <1>0, <1>2, <1>w, FewerBound, FS_Difference DEF WindowInv
    <2>2. \A d \in 1..MaxDays : d > day => Cardinality(Kept(d)') <= MaxFiles * restarts
        BY <1>0, <1>2, <1>w, FewerBound DEF WindowInv
    <2> QED
        BY <1>2, <2>1, <2>2 DEF WindowInv
<1>3. CASE UNCHANGED <<files, undeletable, restarts, day, index>> /\ (pc' = "prune" <=> pc = "prune")
    <2>1. \A d : Kept(d)' = Kept(d)
        BY <1>3 DEF Kept
    <2>2. Spared' = Spared
        BY <1>3 DEF Spared, Window, Outdated
    <2> QED
        BY <1>1, <1>2, <1>3, <2>1, <2>2
<1>4. CASE Rotate /\ ~DayRolledOver
    <2>1. \A d : Kept(d)' = Kept(d)
        BY <1>4 DEF Rotate, Kept
    <2>2. Window \subseteq Spared'
        BY <1>4, RotationAssumption DEF Rotate, Spared, Window, Outdated, TreeTypes
    <2>3. Spared = Window /\ restarts' = restarts /\ day' = day
        BY <1>4 DEF Rotate, Spared
    <2> QED
        BY <1>1, <1>2, <2>1, <2>2, <2>3
<1>5. CASE Rotate /\ DayRolledOver
    <2>1. \A d : Kept(d)' = Kept(d)
        BY <1>5 DEF Rotate, Kept
    <2>2. day' \in 1..MaxDays /\ day' > day /\ restarts' = restarts
        BY <1>5 DEF Rotate, DayRolledOver, TreeTypes
    <2>3. \A d \in 1..MaxDays : d > day => Cardinality(Kept(d)) <= MaxFiles * restarts
        BY DEF WindowInv
    <2>4. Kept(day)' = Kept(day')
        BY <1>5 DEF Rotate, Kept
    <2>5. Cardinality(Kept(day)' \ Spared') <= MaxFiles * restarts
        BY <1>0, <1>w, <2>2, <2>3, <2>4, FewerBound
    <2>6. \A d \in 1..MaxDays : d > day' => d > day
        BY <2>2 DEF TreeTypes
    <2>7. WindowInv'
        BY <2>1, <2>2, <2>3, <2>5, <2>6 DEF WindowInv
    <2> QED
        BY <1>1, <2>1, <2>2, <2>7
<1>6. CASE Restart
    <2>1. \A d : Kept(d)' = Kept(d)
        BY <1>6 DEF Restart, Kept
    <2>2. restarts' = restarts + 1 /\ day' \in 1..MaxDays
        BY <1>6 DEF Restart, TreeTypes
    <2>3. \A d \in 1..MaxDays : Cardinality(Kept(d)) <= MaxFiles * restarts'
        BY <1>r, <2>2
    <2>4. Kept(day)' = Kept(day')
        BY <1>6 DEF Restart, Kept
    <2>5. MaxFiles * restarts' \in Nat
        BY <1>w, <2>2
    <2>6. Cardinality(Kept(day)' \ Spared') <= MaxFiles * restarts'
        BY <1>0, <2>2, <2>3, <2>4, <2>5, FewerBound
    <2>7. WindowInv'
        BY <2>1, <2>3, <2>6 DEF WindowInv
    <2>8. MaxFiles * restarts' <= MaxFiles * (restarts' + 1) /\ MaxFiles * (restarts' + 1) \in Nat
        <3>1. restarts' \in Nat /\ MaxFiles \in Nat
            BY <2>2, RotationAssumption DEF TreeTypes
        <3>2. PICK n \in Nat : n = restarts'
            BY <3>1
        <3>3. MaxFiles * n <= MaxFiles * (n + 1) /\ MaxFiles * (n + 1) \in Nat
            BY <3>1, Multiples
        <3> QED
            BY <3>2, <3>3
    <2>9. \A d \in 1..MaxDays : Cardinality(Kept(d)) <= MaxFiles * (restarts' + 1)
        <3> SUFFICES ASSUME NEW d \in 1..MaxDays
                     PROVE  Cardinality(Kept(d)) <= MaxFiles * (restarts' + 1)
            OBVIOUS
        <3>1. Cardinality(Kept(d)) \in Nat
            BY <1>0, FS_CardinalityType
        <3> QED
            BY <2>3, <2>5, <2>8, <3>1
    <2>10. RetentionWindow'
        BY <2>1, <2>9 DEF RetentionWindow, Kept
    <2> QED
        BY <2>7, <2>10
\* What prune() has looked for is deleted, refused, or was not there.
<1>7. CASE Prune \/ PruneRejects
    <2>1. /\ UNCHANGED <<day, index, restarts>>
          /\ pc = "prune" /\ pc' # "prune"
        BY <1>7 DEF Prune, PruneRejects
    <2>2. CASE MustDelete
        <3>1. \A d : Kept(d)' = Kept(d) \ {Outdated}
            BY <1>7, <2>2 DEF Prune, PruneRejects, Kept, Without
        <3>2. Spared' \cup {Outdated} = Spared
            BY <2>1 DEF Spared, Window, Outdated
        <3> QED
            BY <1>1, <1>2, <2>1, <3>1, <3>2
    <2>3. CASE ~MustDelete
        <3>1. \A d : Kept(d)' = Kept(d)
            BY <1>7, <2>3 DEF Prune, PruneRejects, Kept
        <3>2. Outdated \notin DOMAIN files
            <4> SUFFICES ASSUME Outdated \in DOMAIN files
                         PROVE  FALSE
                OBVIOUS
            <4>1. index - MaxFiles \in Nat
                BY DEF Outdated, TreeTypes
            <4>2. index >= MaxFiles
                BY <4>1, RotationAssumption DEF TreeTypes
            <4> QED
                BY <2>3, <4>2 DEF MustDelete, Exists
        <3>3. Spared' \cup {Outdated} = Spared
            BY <2>1 DEF Spared, Window, Outdated
        <3>4. Kept(day)' \ Spared' \subseteq Kept(day) \ Spared
            BY <2>1, <3>1, <3>2, <3>3 DEF Kept
        <3> QED
            BY <1>1, <1>2, <2>1, <3>1, <3>4
    <2> QED
        BY <2>2, <2>3
<1>8. CASE Write /\ files' = Append1(currentPath)
    <2>1. /\ UNCHANGED <<day, index, restarts, undeletable>>
          /\ pc = "write" /\ pc' = "idle"
        BY <1>8 DEF Write
    <2>2. DOMAIN files' = DOMAIN files \cup {currentPath}
        BY <1>8, AppendDomain
    <2>3. currentPath \in Window /\ currentPath[1] = day
        BY RotationAssumption DEF currentPath, Window, TreeTypes
    <2>4. \A d \in 1..MaxDays : d # day => Kept(d)' = Kept(d)
        BY <2>1, <2>2, <2>3 DEF Kept
    <2>5. Kept(day)' \subseteq Kept(day) \cup {currentPath}
        BY <2>1, <2>2 DEF Kept
    <2>6. Spared = Window /\ Spared' = Window
        BY <2>1 DEF Spared, Window
    <2>7. Cardinality(Kept(day)' \ Spared') <= MaxFiles * restarts
        <3>1. Kept(day)' \ Spared' \subseteq Kept(day) \ Spared
            BY <2>3, <2>5, <2>6
        <3> QED
            BY <1>0, <1>w, <3>1, FewerBound, FS_Difference DEF WindowInv
    <2>8. WindowInv'
        <3>1. \A d \in 1..MaxDays : d > day => Cardinality(Kept(d)') <= MaxFiles * restarts
            BY <2>4 DEF WindowInv, TreeTypes
        <3> QED
            BY <2>1, <2>7, <3>1 DEF WindowInv
    <2>10. Cardinality(Kept(day)') <= MaxFiles * (restarts + 1)
        <3>1. IsFiniteSet(Kept(day)')
            <4>1. IsFiniteSet(Kept(day) \cup {currentPath})
                BY <1>0, FS_AddElement
            <4> QED
                BY <2>5, <4>1, FS_Subset
        <3>2. Cardinality(Kept(day)' \ Window) <= MaxFiles * restarts
            BY <2>6, <2>7
        <3> QED
            BY <1>w, <3>1, <3>2, WindowSize, SplitBound, Windows
    <2>11. \A d \in 1..MaxDays : Cardinality(Kept(d)') <= MaxFiles * (restarts + 1)
        <3> SUFFICES ASSUME NEW d \in 1..MaxDays
                     PROVE  Cardinality(Kept(d)') <= MaxFiles * (restarts + 1)
            OBVIOUS
        <3>1. CASE d = day
            <4>1. Kept(d)' = Kept(day)'
                BY <2>1, <3>1
            <4> QED
                BY <2>10, <4>1
        <3>2. CASE d # day
            BY <1>r, <2>4, <3>2
        <3> QED
            BY <3>1, <3>2
    <2>12. RetentionWindow'
        BY <2>1, <2>11 DEF RetentionWindow, Kept
    <2> QED
        BY <2>8, <2>12
<1> QED
    BY <1>3, <1>4, <1>5, <1>6, <1>7, <1>8
       DEF Next, vars, ShouldRotate, Rotate, Write, Midnight

\* For any maxFiles, sizes and number of days and restarts: what rotation leaves of a day
\* is a window of indices per process, whatever the file system refuses to delete.  The
\* inductive invariant names the windows, and the step bounds their union.
THEOREM TreeRetention == Spec => []RetentionWindow
<1>1. Init => TreeTypes /\ WindowInv /\ RetentionWindow
    BY TreeInit
<1>2. TreeTypes /\ WindowInv /\ RetentionWindow /\ [Next]_vars => (TreeTypes /\ WindowInv /\ RetentionWindow)'
    BY TreeTypesStep, RetentionStep
<1> QED
    BY <1>1, <1>2, PTL DEF Spec

\* Nothing is written yet of the record in process, and as long as the process has
\* not been restarted no file comes after the one that is written.
OrderInv ==
    /\ \A p \in DOMAIN files :
          /\ files[p] \in Seq(Nat)
          /\ \A i \in DOMAIN files[p] : files[p][i] < nextRecord
    /\ restarts = 0 => \A p \in DOMAIN files : p = currentPath \/ Before(p, currentPath)

\* What the files hold after the record in process has been appended.
LEMMA AppendedFile ==
    ASSUME TreeTypes, OrderInv, NEW p \in DOMAIN Append1(currentPath)
    PROVE  LET after == Append1(currentPath)[p]
           IN  /\ p # currentPath => p \in DOMAIN files /\ after = files[p]
               /\ after \in Seq(Nat)
               /\ \A i \in DOMAIN after :
                     \/ p \in DOMAIN files /\ i \in DOMAIN files[p] /\ after[i] = files[p][i]
                     \/ /\ p = currentPath /\ after[i] = nextRecord
                        /\ p \in DOMAIN files => i = Len(files[p]) + 1
                        /\ p \notin DOMAIN files => i = 1
<1>1. p \in DOMAIN files \cup {currentPath}
    BY AppendDomain
<1>2. CASE p # currentPath
    <2>1. p \in DOMAIN files /\ Append1(currentPath)[p] = files[p]
        BY <1>1, <1>2 DEF Append1
    <2> QED
        BY <1>2, <2>1 DEF OrderInv
<1>3. CASE p = currentPath /\ p \in DOMAIN files
    <2>1. Append1(currentPath)[p] = Append(files[p], nextRecord)
        BY <1>3 DEF Append1, Exists
    <2>2. files[p] \in Seq(Nat) /\ nextRecord \in Nat
        BY <1>3 DEF OrderInv, TreeTypes
    <2>3. PICK s \in Seq(Nat) : s = files[p]
        BY <2>2
    <2>4. /\ Append(s, nextRecord) \in Seq(Nat)
          /\ Len(Append(s, nextRecord)) = Len(s) + 1
          /\ \A i \in 1..Len(s) : Append(s, nextRecord)[i] = s[i]
          /\ Append(s, nextRecord)[Len(s) + 1] = nextRecord
          /\ DOMAIN s = 1..Len(s) /\ Len(s) \in Nat
        BY <2>2, AppendProperties, LenProperties
    <2>5. DOMAIN Append(s, nextRecord) = 1..(Len(s) + 1)
        BY <2>4, LenProperties
    <2>6. \A i \in 1..(Len(s) + 1) : i \in 1..Len(s) \/ i = Len(s) + 1
        BY <2>4
    <2> QED
        BY <1>3, <2>1, <2>3, <2>4, <2>5, <2>6
<1>4. CASE p = currentPath /\ p \notin DOMAIN files
    <2>1. Append1(currentPath)[p] = <<nextRecord>>
        BY <1>4 DEF Append1, Exists
    <2>2. nextRecord \in Nat
        BY DEF TreeTypes
    <2>3. <<nextRecord>> \in Seq(Nat) /\ \A i \in DOMAIN <<nextRecord>> : i = 1 /\ <<nextRecord>>[i] = nextRecord
        BY <2>2
    <2> QED
        BY <1>4, <2>1, <2>3
<1> QED
    BY <1>2, <1>3, <1>4

LEMMA OrderInit == Init => OrderInv /\ LinesInOrder
BY DEF Init, OrderInv, LinesInOrder

LEMMA OrderStep ==
    ASSUME TreeTypes, OrderInv, [Next]_vars
    PROVE  OrderInv'
<1>1. nextRecord \in Nat /\ nextRecord' \in {nextRecord, nextRecord + 1}
    BY DEF TreeTypes, Next, vars, ShouldRotate, Rotate, Prune, PruneRejects, Write, Midnight, Restart
<1>2. ASSUME NEW p \in DOMAIN files'
      PROVE  /\ files'[p] \in Seq(Nat)
             /\ \A i \in DOMAIN files'[p] : files'[p][i] < nextRecord'
    <2>1. CASE p \in DOMAIN files /\ files'[p] = files[p]
        <3>1. files[p] \in Seq(Nat) /\ \A i \in DOMAIN files[p] : files[p][i] < nextRecord /\ files[p][i] \in Nat
            BY <2>1, LenProperties, ElementOfSeq DEF OrderInv
        <3> QED
            BY <1>1, <2>1, <3>1
    <2>2. CASE Write /\ files' = Append1(currentPath)
        <3>1. nextRecord' = nextRecord + 1
            BY <2>2 DEF Write
        <3>2. \A i \in DOMAIN files'[p] : files'[p][i] < nextRecord \/ files'[p][i] = nextRecord
            BY <1>2, <2>2, AppendedFile DEF OrderInv
        <3>3. files'[p] \in Seq(Nat)
            BY <1>2, <2>2, AppendedFile
        <3>4. \A i \in DOMAIN files'[p] : files'[p][i] \in Nat
            BY <3>3, LenProperties, ElementOfSeq
        <3> QED
            BY <1>1, <3>1, <3>2, <3>3, <3>4
    <2> QED
        BY <1>2, <2>1, <2>2, FilesStep
<1>3. ASSUME restarts' = 0, NEW p \in DOMAIN files'
      PROVE  p = currentPath' \/ Before(p, currentPath')
    <2>1. restarts = 0
        BY <1>3 DEF TreeTypes, Next, vars, ShouldRotate, Rotate, Prune, PruneRejects, Write, Midnight, Restart
    <2>2. p \in DOMAIN files \/ p = currentPath
        BY <1>3, FilesStep
    <2>3. p = currentPath \/ Before(p, currentPath)
        BY <2>1, <2>2 DEF OrderInv
    <2>4. p \in (1..MaxDays) \X Nat
        BY <2>2 DEF TreeTypes, currentPath
    <2>5. CASE Rotate
        BY <2>3, <2>4, <2>5 DEF Rotate, DayRolledOver, TreeTypes, currentPath, Before
    <2>6. CASE ~Rotate
        <3>1. day' = day /\ index' = index
            BY <1>3, <2>6 DEF TreeTypes, Next, vars, ShouldRotate, Prune, PruneRejects, Write, Midnight, Restart
        <3> QED
            BY <2>3, <3>1 DEF currentPath
    <2> QED
        BY <2>5, <2>6
<1> QED
    BY <1>2, <1>3 DEF OrderInv

LEMMA LinesStep ==
    ASSUME TreeTypes, OrderInv, LinesInOrder, [Next]_vars
    PROVE  LinesInOrder'
<1>1. restarts' = 0 => restarts = 0
    BY DEF TreeTypes, Next, vars, ShouldRotate, Rotate, Prune, PruneRejects, Write, Midnight, Restart
<1>2. CASE files' = files
    BY <1>1, <1>2 DEF LinesInOrder
<1>3. CASE /\ DOMAIN files' = DOMAIN files \ {Outdated}
           /\ \A q \in DOMAIN files' : files'[q] = files[q]
    BY <1>1, <1>3 DEF LinesInOrder
<1>4. CASE /\ Write /\ files' = Append1(currentPath)
           /\ DOMAIN files' = DOMAIN files \cup {currentPath}
    <2> SUFFICES ASSUME NEW p \in DOMAIN files', NEW q \in DOMAIN files',
                        NEW i \in DOMAIN files'[p], NEW j \in DOMAIN files'[q],
                        (p = q /\ i < j) \/ (Before(p, q) /\ restarts = 0)
                 PROVE  files'[p][i] < files'[q][j]
        BY <1>1 DEF LinesInOrder
    <2>1. /\ p \in DOMAIN files \/ p = currentPath
          /\ q \in DOMAIN files \/ q = currentPath
          /\ p \in (1..MaxDays) \X Nat /\ q \in (1..MaxDays) \X Nat
        BY <1>4 DEF TreeTypes, currentPath
    <2>2. ~(p = currentPath /\ Before(p, q) /\ restarts = 0)
        BY <2>1 DEF OrderInv, Before
    <2>3. Before(p, q) => p # q
        BY <2>1 DEF Before
    <2>4. CASE q \in DOMAIN files /\ j \in DOMAIN files[q] /\ files'[q][j] = files[q][j]
        <3>1. CASE p \in DOMAIN files /\ i \in DOMAIN files[p] /\ files'[p][i] = files[p][i]
            BY <2>4, <3>1 DEF LinesInOrder
        <3>2. CASE p = currentPath
            <4>1. p = q /\ i < j
                BY <2>2, <3>2
            <4>2. files'[p] \in Seq(Nat) /\ files[p] \in Seq(Nat)
                BY <1>4, <2>4, <4>1, AppendedFile DEF OrderInv
            <4>3. i \in 1..Len(files'[p]) /\ j \in 1..Len(files[p])
                BY <2>4, <4>1, <4>2, LenProperties
            <4>4. i # Len(files[p]) + 1
                BY <4>1, <4>2, <4>3, LenProperties
            <4>5. i \in DOMAIN files[p] /\ files'[p][i] = files[p][i]
                BY <1>4, <2>4, <4>1, <4>4, AppendedFile
            <4> QED
                BY <2>4, <4>1, <4>5 DEF LinesInOrder
        <3> QED
            BY <1>4, <3>1, <3>2, AppendedFile
    <2>5. CASE q = currentPath /\ files'[q][j] = nextRecord /\ (q \in DOMAIN files => j = Len(files[q]) + 1) /\ (q \notin DOMAIN files => j = 1)
        <3>1. CASE p \in DOMAIN files /\ i \in DOMAIN files[p] /\ files'[p][i] = files[p][i]
            BY <2>5, <3>1 DEF OrderInv
        <3>2. CASE p = currentPath /\ files'[p][i] = nextRecord /\ (p \in DOMAIN files => i = Len(files[p]) + 1) /\ (p \notin DOMAIN files => i = 1)
            <4>1. i = j
                BY <2>5, <3>2
            <4>2. i \in Int
                BY <1>4, AppendedFile, LenProperties
            <4> QED
                BY <2>2, <3>2, <4>1, <4>2
        <3> QED
            BY <1>4, <3>1, <3>2, AppendedFile
    <2> QED
        BY <1>4, <2>4, <2>5, AppendedFile
<1> QED
    BY <1>2, <1>3, <1>4, FilesStep

\* For the same constants: within a file, and from file to file of one process, records
\* are in the order they were logged.
THEOREM TreeOrder == Spec => []LinesInOrder
<1>1. Init => TreeTypes /\ OrderInv /\ LinesInOrder
    BY TreeInit, OrderInit
<1>2. TreeTypes /\ OrderInv /\ LinesInOrder /\ [Next]_vars => (TreeTypes /\ OrderInv /\ LinesInOrder)'
    BY TreeTypesStep, OrderStep, LinesStep
<1> QED
    BY <1>1, <1>2, PTL DEF Spec

-----------------------------------------------------------------------------
(* FileRepository: what an operation does to the disk, its caller and its hooks.*)

(* Handles and terminate() *)

\* What terminate() has still to close, or can no longer see, of what it goes through.
HandlesInv ==
    /\ DOMAIN temps = Temps
    /\ life \in {"up", "watchers", "temps", "down"}
    /\ \A t \in Temps : temps[t] = "ending" => life = "temps" /\ t \in todo
    /\ life = "watchers" => watching \subseteq todo \cup late
    /\ life \in {"temps", "down"} => watching \subseteq late
    /\ life = "temps" => Plain!Open \subseteq todo \cup late
    /\ life = "down" => Plain!Open \subseteq late

LEMMA HandlesInit == Plain!Init => HandlesInv
BY DEF Plain!Init, HandlesInv

LEMMA HandlesStep ==
    ASSUME HandlesInv, [Plain!Next]_(Plain!vars)
    PROVE  HandlesInv'
<1> USE DEF HandlesInv, Plain!Open
<1>1. CASE UNCHANGED Plain!handles
    BY <1>1 DEF Plain!handles
<1>2. ASSUME NEW c \in Callers, Plain!Watch(c)
      PROVE  HandlesInv'
    BY <1>1, <1>2 DEF Plain!Watch
<1>3. ASSUME NEW c \in Callers, Plain!WatcherClose(c)
      PROVE  HandlesInv'
    BY <1>3 DEF Plain!WatcherClose
<1>4. ASSUME NEW c \in Callers, Plain!TerminateWatcher(c)
      PROVE  HandlesInv'
    BY <1>4 DEF Plain!TerminateWatcher
<1>5. ASSUME NEW c \in Callers, Plain!TempFile(c)
      PROVE  HandlesInv'
    BY <1>5 DEF Plain!TempFile
<1>6. ASSUME NEW c \in Callers, Plain!TempRegister(c)
      PROVE  HandlesInv'
    BY <1>6 DEF Plain!TempRegister
<1>7. ASSUME NEW t \in Temps, Plain!TempClose(t)
      PROVE  HandlesInv'
    BY <1>7 DEF Plain!TempClose
<1>8. ASSUME NEW t \in Temps, Plain!Unlinked(t)
      PROVE  HandlesInv'
    BY <1>8 DEF Plain!Unlinked
<1>9. ASSUME NEW t \in Temps, Plain!TerminateTemp(t)
      PROVE  HandlesInv'
    BY <1>9 DEF Plain!TerminateTemp
<1>10. CASE Plain!Terminate
    BY <1>10 DEF Plain!Terminate
<1>11. CASE Plain!TerminateNext
    BY <1>11 DEF Plain!TerminateNext
<1>12. ASSUME NEW c \in Callers, Plain!Step(c),
              ~Plain!Watch(c), ~Plain!WatcherClose(c), ~Plain!TerminateWatcher(c),
              ~Plain!TempFile(c), ~Plain!TempRegister(c)
       PROVE  UNCHANGED Plain!handles
    BY <1>12
       DEF Plain!Step, Plain!Call, Plain!Succeeds, Plain!Refused, Plain!Breaks, Plain!Exists, Plain!Stream,
           Plain!Unsupported, Plain!AcrossDevices, Plain!AcrossDevicesFails, Plain!Transfer,
           Plain!TransferFails, Plain!RmdirLooks, Plain!RemoveNative, Plain!RemoveNode, Plain!Walk,
           Plain!Hook, Plain!OnError, Plain!Return
<1>13. ASSUME NEW c \in Callers, Plain!Step(c)
       PROVE  HandlesInv'
    BY <1>1, <1>2, <1>3, <1>4, <1>5, <1>6, <1>12, <1>13
<1>14. CASE UNCHANGED Plain!vars
    BY <1>1, <1>14 DEF Plain!vars, Plain!handles
<1> QED
    BY <1>7, <1>8, <1>9, <1>10, <1>11, <1>13, <1>14 DEF Plain!Next

\* For any callers and temporary files: terminate() leaves no handle open that was
\* registered before it went through its kind, whoever closes handles meanwhile.
THEOREM HandlesClosed == Plain!Spec => []NothingOutlivesTerminate
<1>1. HandlesInv => NothingOutlivesTerminate
    BY DEF HandlesInv, NothingOutlivesTerminate, Plain!NothingOutlivesTerminate
<1> QED
    BY <1>1, HandlesInit, HandlesStep, PTL DEF Plain!Spec

(* The disk and the outstanding operations *)

\* No file is in a directory that is not there.
DiskInv ==
    /\ there \subseteq Plain!Paths
    /\ dir \in BOOLEAN
    /\ "sub" \in there => dir

FileKinds ==
    {"read", "write", "delete", "exists", "stream", "watch", "copy", "move", "mkdir", "rmdir",
     "rmrf", "walk", "tempFile"}
Stages == {"call", "unlink", "transfer", "inside", "register"}
FileErrors ==
    {"none", "hook", "unsupported", "ENOENT", "EACCES", "ENOTEMPTY", "EEXIST", "EIO",
     "FileNotFoundException", "FileAccessDeniedException", "DirectoryNotEmptyException"}
Places == Plain!Paths \cup {"dir", "none"}

\* The parts of the files that an operation may lose.
Parts == {"target", "itself", "inside"}

FileOperations ==
    [kind : FileKinds, src : Places, dest : Places, at : Stages \cup {"hook", "onError", "ended"},
     err : FileErrors, lost : SUBSET Parts, got : SUBSET (Plain!Paths \cup {"dir"}),
     temp : SUBSET Temps, heard : SUBSET {"success", "error"}]

\* What an operation of this kind may lose, in package p.
MayPlay(kind, role, p) ==
    /\ role = "target" => kind \in {"write", "copy", "move", "delete"}
    /\ role = "itself" => kind \in {"copy", "move"} /\ p = "xf-reactnative-fs"
    /\ role = "inside" => \/ kind = "rmrf"
                          \/ kind \in {"delete", "rmdir"} /\ p = "xf-reactnative-fs"

MayLose(o, p) ==
    /\ \A role \in o.lost : MayPlay(o.kind, role, p)
    /\ o.kind = "rmdir" => o.got = {}

\* The failures after which something may be lost.
Excused(o, err, p) ==
    \/ o.kind \in {"write", "copy"} /\ err = "EIO"
    \/ o.kind = "move" /\ p = "xf-fs" /\ err \in {"EIO", "EACCES", "ENOENT"}
    \/ o.kind \in {"copy", "move"} /\ p = "xf-reactnative-fs"
    \/ o.lost = {"inside"}

\* The errors that reach the caller as they are.
Raw(kind, err, p) ==
    err \in Plain!Untranslated => \/ kind \in {"tempFile", "watch"}
                                  \/ kind = "move" /\ p = "xf-fs"
                                  \/ kind = "exists" /\ p = "xf-reactnative-fs"

\* What the audit has heard, once the outcome is settled.
Told(o, a) ==
    a => IF o.kind \in {"exists", "stream"} THEN "success" \in o.heard <=> o.err \in {"none", "hook"}
         ELSE /\ o.err = "none" => o.heard = {"success"}
              /\ o.err = "hook" => \/ o.heard = {"success", "error"}
                                   \/ o.kind = "watch" /\ o.heard = {"error"}
              /\ o.err \notin {"none", "hook"} => o.heard = {"error"}

\* An operation under way has failed in nothing and told nobody.
UnderWay(o, p) ==
    /\ o.err = "none" /\ o.heard = {}
    /\ o.lost # {} => \/ o.at # "call" /\ o.kind = "move" /\ p = "xf-fs"
                      \/ Excused(o, "none", p)
    /\ MayLose(o, p)
    /\ o.kind \in {"read", "write", "exists", "copy", "move"} => o.src \in Plain!Paths
    /\ o.kind \in {"rmdir", "rmrf"} => o.src = "dir"
    /\ o.kind \notin {"copy", "move"} => o.dest = "none"
    /\ o.at = "transfer" /\ p = "xf-fs" => o.src # o.dest
    /\ o.kind \in {"copy", "move"} => o.dest \in Plain!Paths
    /\ o.at = "inside" => o.kind = "walk"

\* What is known of an operation before its hooks have run and after.
Settling(o, p, a) ==
    /\ MayLose(o, p)
    /\ o.err \notin {"none", "hook"} /\ o.lost # {} => Excused(o, o.err, p)
    /\ Raw(o.kind, o.err, p)
    /\ o.at = "hook" => a /\ o.err = "none" /\ o.heard = {}
    /\ o.at = "onError" =>
          /\ a /\ o.kind \notin {"exists", "stream"} /\ o.err # "none"
          /\ \/ o.err # "hook" /\ o.heard = {}
             \/ o.err = "hook" /\ o.heard = {"success"}
             \/ o.err = "hook" /\ o.heard = {} /\ o.kind = "watch"
    /\ o.at = "ended" => Told(o, a)

Sound(o, p, a) == IF o.at \in Stages THEN UnderWay(o, p) ELSE Settling(o, p, a)

OpsInv ==
    /\ package \in {"xf-fs", "xf-reactnative-fs"}
    /\ audited \in BOOLEAN
    /\ DOMAIN op = Callers
    /\ \A c \in Callers : op[c] = Plain!Idle \/ (op[c] \in FileOperations /\ Sound(op[c], package, audited))

\* An operation that is neither called nor returned in a step goes on soundly.
GoesOn(o, n) == n \in FileOperations /\ n.kind = o.kind /\ Sound(n, package, audited)

LEMMA DoneSound ==
    ASSUME OpsInv, NEW o \in FileOperations, o.err = "none", o.heard = {},
           MayLose(o, package)
    PROVE  GoesOn(o, Plain!Done(o))
<1>1. CASE audited
    BY <1>1 DEF Plain!Done, GoesOn, Sound, Settling, Stages, FileOperations, Raw, MayLose,
                Plain!Untranslated
<1>2. CASE ~audited
    <2>1. Plain!Done(o) = [o EXCEPT !.at = "ended", !.src = "none", !.dest = "none", !.temp = {}]
        BY <1>2 DEF Plain!Done, Plain!Ended
    <2> QED
        BY <1>2, <2>1 DEF GoesOn, Sound, Settling, Stages, FileOperations, Raw, Told, MayLose,
                     Plain!Untranslated, Places
<1> QED
    BY <1>1, <1>2

\* The errors with which an operation under way may fail: that of a hook is only watch()'s.
LEMMA FailRawSound ==
    ASSUME OpsInv, NEW o \in FileOperations, o.err = "none", o.heard = {},
           NEW e \in FileErrors \ {"none"}, e = "hook" => o.kind = "watch" /\ audited,
           MayLose(o, package),
           o.lost # {} => Excused(o, e, package),
           Raw(o.kind, e, package)
    PROVE  GoesOn(o, Plain!FailRaw(o, e))
<1> DEFINE f == [o EXCEPT !.err = e, !.got = {}]
<1>1. /\ f \in FileOperations /\ f.kind = o.kind /\ f.err = e /\ f.heard = {} /\ f.lost = o.lost
      /\ f.got = {}
    BY DEF FileOperations
<1>2. CASE audited /\ o.kind \notin {"exists", "stream"}
    <2>1. Plain!FailRaw(o, e) = [f EXCEPT !.at = "onError"]
        BY <1>2 DEF Plain!FailRaw
    <2> HIDE DEF f
    <2> QED
        BY <1>1, <1>2, <2>1 DEF GoesOn, Sound, Settling, Stages, FileOperations, Excused, MayLose
<1>3. CASE ~(audited /\ o.kind \notin {"exists", "stream"})
    <2> DEFINE n == Plain!FailRaw(o, e)
    <2>1. n = [f EXCEPT !.at = "ended", !.src = "none", !.dest = "none", !.temp = {}]
        BY <1>3 DEF Plain!FailRaw, Plain!Ended
    <2>2. n \in FileOperations
        <3> HIDE DEF f, n
        <3> QED
            BY <1>1, <2>1 DEF FileOperations, Places
    <2>3. /\ n.kind = o.kind /\ n.at = "ended" /\ n.err = e /\ n.heard = {} /\ n.lost = o.lost
          /\ n.got = {}
        <3> HIDE DEF f, n
        <3> QED
            BY <1>1, <2>1 DEF FileOperations
    <2>4. Told(n, audited)
        <3> HIDE DEF f, n
        <3> QED
            BY <1>3, <2>3 DEF Told
    <2>5. GoesOn(o, n)
        <3> HIDE DEF f, n
        <3> QED
            BY <2>2, <2>3, <2>4 DEF GoesOn, Sound, Settling, Stages, Excused, MayLose
    <2> QED
        BY <2>5
<1> QED
    BY <1>2, <1>3

LEMMA FailSound ==
    ASSUME OpsInv, NEW o \in FileOperations, o.err = "none", o.heard = {},
           NEW e \in {"ENOENT", "EACCES", "ENOTEMPTY", "EEXIST", "EIO"},
           MayLose(o, package),
           o.lost # {} => Excused(o, "none", package)
                          \/ (o.kind \in {"write", "copy"} /\ e = "EIO")
    PROVE  GoesOn(o, Plain!Fail(o, e))
<1>1. /\ Plain!Translate(e) \in FileErrors \ {"none", "hook"}
      /\ Plain!Translate(e) \notin Plain!Untranslated
      /\ e = "EIO" => Plain!Translate(e) = "EIO"
    BY DEF Plain!Translate, FileErrors, Plain!Untranslated
<1>2. o.lost # {} => Excused(o, Plain!Translate(e), package)
    BY <1>1 DEF Excused
<1>3. Raw(o.kind, Plain!Translate(e), package)
    BY <1>1 DEF Raw
<1> QED
    BY <1>1, <1>2, <1>3, FailRawSound DEF Plain!Fail

\* An operation may lose files, if they play a part in it that allows it.
LEMMA Discards ==
    ASSUME NEW o \in FileOperations, MayLose(o, package), NEW ps,
           \A p \in ps : Plain!Part(o, p) \in Parts /\ MayPlay(o.kind, Plain!Part(o, p), package)
    PROVE  /\ Plain!Loses(o, ps) \in FileOperations
           /\ MayLose(Plain!Loses(o, ps), package)
           /\ Plain!Loses(o, ps).kind = o.kind /\ Plain!Loses(o, ps).err = o.err
           /\ Plain!Loses(o, ps).heard = o.heard /\ Plain!Loses(o, ps).at = o.at
           /\ Plain!Loses(o, ps).src = o.src /\ Plain!Loses(o, ps).dest = o.dest
           /\ Plain!Loses(o, ps).got = o.got
           /\ Plain!Loses(o, ps).lost = o.lost \cup {Plain!Part(o, p) : p \in ps}
<1> DEFINE gone == {Plain!Part(o, p) : p \in ps}
           n == [o EXCEPT !.lost = @ \cup gone]
<1>1. gone \subseteq Parts /\ \A role \in gone : MayPlay(o.kind, role, package)
    OBVIOUS
<1>2. n = Plain!Loses(o, ps)
    BY DEF Plain!Loses
<1> HIDE DEF gone
<1>3. /\ n \in FileOperations /\ n.kind = o.kind /\ n.err = o.err /\ n.heard = o.heard
      /\ n.at = o.at /\ n.src = o.src /\ n.dest = o.dest /\ n.got = o.got
      /\ n.lost = o.lost \cup gone
    BY <1>1 DEF FileOperations
<1> HIDE DEF n
<1>4. MayLose(n, package)
    BY <1>1, <1>3 DEF MayLose
<1> QED
    BY <1>2, <1>3, <1>4 DEF gone

\* The target of a write, a deletion, or a copy or move onto something else.
LEMMA TargetPart ==
    ASSUME NEW o \in FileOperations, NEW p \in Plain!Paths,
           \/ o.kind \in {"write", "delete"} /\ o.dest = "none" /\ p = o.src
           \/ o.kind \in {"copy", "move"} /\ p = o.dest /\ p # o.src
    PROVE  Plain!Part(o, p) = "target" /\ MayPlay(o.kind, Plain!Part(o, p), package)
<1>1. Plain!Part(o, p) = "target"
    BY DEF Plain!Part, Plain!Paths
<1> QED
    BY <1>1 DEF MayPlay

LEMMA InsidePart ==
    ASSUME NEW o \in FileOperations, o.dest = "none", o.src = "dir",
           o.kind = "rmrf" \/ (o.kind \in {"delete", "rmdir"} /\ package = "xf-reactnative-fs")
    PROVE  Plain!Part(o, "sub") = "inside" /\ MayPlay(o.kind, Plain!Part(o, "sub"), package)
<1>1. Plain!Part(o, "sub") = "inside"
    BY DEF Plain!Part
<1> QED
    BY <1>1 DEF MayPlay

GoesTo(c, n) == GoesOn(op[c], n) /\ op' = [op EXCEPT ![c] = n]

LEMMA AtStage ==
    ASSUME OpsInv, NEW c \in Callers, NEW at \in Stages, Plain!Go(c, at)
    PROVE  /\ op[c] \in FileOperations /\ UnderWay(op[c], package)
           /\ op[c].err = "none" /\ op[c].heard = {} /\ op[c].at = at
           /\ package' = package /\ audited' = audited
BY DEF OpsInv, Sound, UnderWay, Plain!Go

LEMMA OneCallGoes ==
    ASSUME OpsInv, DiskInv, NEW c \in Callers,
           Plain!Succeeds(c) \/ Plain!Refused(c) \/ Plain!Breaks(c) \/ Plain!Exists(c)
           \/ Plain!Stream(c) \/ Plain!Unsupported(c)
    PROVE  \E n : GoesTo(c, n)
<1> DEFINE o == op[c]
<1>1. Plain!Go(c, "call")
    BY DEF Plain!Succeeds, Plain!Refused, Plain!Breaks, Plain!Exists, Plain!Stream, Plain!Unsupported
<1>2. /\ o \in FileOperations /\ UnderWay(o, package)
      /\ o.err = "none" /\ o.heard = {}
    BY <1>1, AtStage DEF Stages
<1>3. package \in {"xf-fs", "xf-reactnative-fs"} /\ audited \in BOOLEAN
    BY DEF OpsInv
<1>4. /\ o.at = "call" /\ MayLose(o, package)
      /\ o.lost # {} => Excused(o, "none", package)
    BY <1>1, <1>2, AtStage DEF Stages, UnderWay
<1>5. CASE Plain!Succeeds(c)
    <2> DEFINE ps == CASE o.kind \in {"write", "delete"} -> there \cap {o.src}
                       [] o.kind \in {"copy", "move"} -> (there \cap {o.dest}) \ {o.src}
                       [] OTHER -> there \ there'
               n == Plain!Loses(o, ps)
    <2>1. op' = [op EXCEPT ![c] = Plain!Done(n)]
        BY <1>5 DEF Plain!Succeeds, Plain!Become
    <2>2. \A p \in ps : Plain!Part(o, p) \in Parts /\ MayPlay(o.kind, Plain!Part(o, p), package)
        <3>1. CASE o.kind \in {"write", "delete"}
            BY <1>2, <3>1, TargetPart DEF DiskInv, UnderWay, Parts
        <3>2. CASE o.kind \in {"copy", "move"}
            BY <1>2, <3>2, TargetPart DEF DiskInv, UnderWay, Parts
        <3>3. CASE o.kind \notin {"write", "delete", "copy", "move"}
            <4>1. there' = there
                BY <1>5, <3>3 DEF Plain!Succeeds, Plain!Possible
            <4>2. ps = {}
                BY <3>3, <4>1
            <4> QED
                BY <4>2
        <3> QED
            BY <3>1, <3>2, <3>3
    <2> HIDE DEF ps
    <2>3. n \in FileOperations /\ MayLose(n, package) /\ n.kind = o.kind /\ n.err = "none" /\ n.heard = {}
        <3> HIDE DEF o
        <3> QED
            BY <1>2, <1>4, <2>2, Discards
    <2>4. GoesOn(n, Plain!Done(n))
        <3> HIDE DEF o, n
        <3> QED
            BY <2>3, DoneSound
    <2>5. GoesOn(o, Plain!Done(n))
        BY <2>3, <2>4 DEF GoesOn
    <2> QED
        BY <2>1, <2>5 DEF GoesTo
<1>6. CASE Plain!Refused(c)
    <2>1. PICK e \in {"ENOENT", "EACCES", "ENOTEMPTY", "EEXIST"} :
              op' = [op EXCEPT ![c] = Plain!Fail(o, e)]
        BY <1>6 DEF Plain!Refused, Plain!Become
    <2>3. GoesOn(o, Plain!Fail(o, e))
        <3> HIDE DEF o
        <3> QED
            BY <1>2, <1>4, FailSound
    <2> QED
        BY <2>1, <2>3 DEF GoesTo
<1>7. CASE Plain!Breaks(c)
    <2> DEFINE ps == there \cap {IF o.kind = "write" THEN o.src ELSE o.dest}
               n == Plain!Loses(o, ps)
    <2>1. o.kind = "write" \/ (o.kind = "copy" /\ o.src # o.dest)
        BY <1>7 DEF Plain!Breaks
    <2>2. \A p \in ps : Plain!Part(o, p) \in Parts /\ MayPlay(o.kind, Plain!Part(o, p), package)
        BY <1>2, <2>1, TargetPart DEF DiskInv, UnderWay, Parts
    <2>3. op' = [op EXCEPT ![c] = Plain!Fail(n, "EIO")]
        BY <1>7 DEF Plain!Breaks, Plain!Become
    <2> HIDE DEF ps
    <2>4. n \in FileOperations /\ MayLose(n, package) /\ n.kind = o.kind /\ n.err = "none" /\ n.heard = {}
        <3> HIDE DEF o
        <3> QED
            BY <1>2, <1>4, <2>2, Discards
    <2>5. GoesOn(n, Plain!Fail(n, "EIO"))
        <3> HIDE DEF o, n
        <3> QED
            BY <2>1, <2>4, FailSound
    <2>6. GoesOn(o, Plain!Fail(n, "EIO"))
        BY <2>4, <2>5 DEF GoesOn
    <2> QED
        BY <2>3, <2>6 DEF GoesTo
<1>8. ASSUME o.kind \in {"exists", "stream"}, op' = [op EXCEPT ![c] = Plain!Done(o)]
      PROVE  \E n : GoesTo(c, n)
    <2>1. GoesOn(o, Plain!Done(o))
        <3> HIDE DEF o
        <3> QED
            BY <1>2, <1>4, <1>8, DoneSound
    <2> QED
        BY <1>8, <2>1 DEF GoesTo
<1>9. ASSUME o.kind \in {"exists", "stream", "watch"},
             NEW e \in {"ENOENT", "EACCES", "EIO", "unsupported"}, Plain!Native,
             e \in Plain!Untranslated => o.kind = "exists",
             op' = [op EXCEPT ![c] = Plain!FailRaw(o, e)]
      PROVE  \E n : GoesTo(c, n)
    <2>1. Raw(o.kind, e, package)
        BY <1>9 DEF Raw, Plain!Native
    <2>2. GoesOn(o, Plain!FailRaw(o, e))
        <3>1. o.lost # {} => Excused(o, e, package)
            BY <1>4, <1>9 DEF Excused
        <3> HIDE DEF o
        <3> QED
            BY <1>2, <1>4, <1>9, <2>1, <3>1, FailRawSound DEF FileErrors
    <2> QED
        BY <1>9, <2>2 DEF GoesTo
<1>10. CASE Plain!Exists(c)
    BY <1>8, <1>9, <1>10 DEF Plain!Exists, Plain!Become
<1>11. CASE Plain!Stream(c)
    BY <1>8, <1>11 DEF Plain!Stream, Plain!Become
<1>12. CASE Plain!Unsupported(c)
    BY <1>9, <1>12 DEF Plain!Unsupported, Plain!Become, Plain!Untranslated
<1> QED
    BY <1>5, <1>6, <1>7, <1>10, <1>11, <1>12

\* An operation may note the entries that it has seen ...
LEMMA Sees ==
    ASSUME NEW o \in FileOperations, UnderWay(o, package),
           NEW seen \in SUBSET (Plain!Paths \cup {"dir"}), o.kind = "rmdir" => seen = {}
    PROVE  LET n == [o EXCEPT !.got = seen]
           IN  /\ n \in FileOperations /\ n.kind = o.kind /\ n.err = "none" /\ n.heard = {}
               /\ n.at = o.at /\ n.src = o.src /\ n.dest = o.dest
               /\ UnderWay(n, package)
BY DEF FileOperations, UnderWay, MayLose, Excused

\* ... and goes from stage to stage.
LEMMA NextStage ==
    ASSUME NEW o \in FileOperations, UnderWay(o, package), NEW at \in Stages \ {"call"},
           at = "inside" => o.kind = "walk",
           at = "transfer" /\ package = "xf-fs" => o.src # o.dest
    PROVE  GoesOn(o, [o EXCEPT !.at = at])
<1> DEFINE n == [o EXCEPT !.at = at]
<1>1. /\ n \in FileOperations /\ n.kind = o.kind /\ n.err = o.err /\ n.heard = o.heard
      /\ n.at = at /\ n.src = o.src /\ n.dest = o.dest /\ n.got = o.got /\ n.lost = o.lost
    BY DEF FileOperations
<1> HIDE DEF n
<1>2. MayLose(n, package) /\ (Excused(o, "none", package) => Excused(n, "none", package))
    BY <1>1 DEF UnderWay, MayLose, Excused
<1>3. UnderWay(n, package)
    BY <1>1, <1>2 DEF UnderWay
<1>4. GoesOn(o, n)
    BY <1>1, <1>3 DEF GoesOn, Sound
<1> QED
    BY <1>4 DEF n

LEMMA AcrossDevicesGoes ==
    ASSUME OpsInv, DiskInv, NEW c \in Callers,
           Plain!AcrossDevices(c) \/ Plain!AcrossDevicesFails(c)
    PROVE  \E n : GoesTo(c, n)
<1> DEFINE o == op[c]
<1>1. /\ o \in FileOperations /\ UnderWay(o, package)
      /\ o.err = "none" /\ o.heard = {}
    BY AtStage DEF Stages, Plain!AcrossDevices, Plain!AcrossDevicesFails
<1>2. o.kind = "move" /\ package = "xf-fs" /\ MayLose(o, package)
    BY <1>1 DEF Plain!AcrossDevices, Plain!AcrossDevicesFails, Plain!Node, UnderWay
<1>3. CASE o.src # o.dest /\ op' = [op EXCEPT ![c] = [o EXCEPT !.at = "transfer"]]
    <2>1. GoesOn(o, [o EXCEPT !.at = "transfer"])
        <3> HIDE DEF o
        <3> QED
            BY <1>1, <1>2, <1>3, NextStage DEF Stages
    <2> QED
        BY <1>3, <2>1 DEF GoesTo
<1> DEFINE n == Plain!Loses(o, there \cap {o.dest})
<1>4. ASSUME o.at = "transfer"
      PROVE  /\ n \in FileOperations /\ n.kind = "move" /\ n.err = "none" /\ n.heard = {}
             /\ UnderWay(n, package) /\ MayLose(n, package)
    <2>1. o.src # o.dest /\ o.src \in Plain!Paths /\ o.dest \in Plain!Paths
        BY <1>1, <1>2, <1>4 DEF UnderWay
    <2> DEFINE ps == there \cap {o.dest}
    <2>2. \A p \in ps : Plain!Part(o, p) \in Parts /\ MayPlay(o.kind, Plain!Part(o, p), package)
        BY <1>1, <1>2, <2>1, TargetPart DEF Parts
    <2> HIDE DEF ps, o
    <2>3. /\ n \in FileOperations /\ MayLose(n, package)
          /\ n.kind = o.kind /\ n.err = o.err /\ n.heard = o.heard /\ n.at = o.at
          /\ n.src = o.src /\ n.dest = o.dest
        BY <1>1, <1>2, <2>2, Discards DEF ps
    <2> HIDE DEF n
    <2> QED
        BY <1>1, <1>2, <1>4, <2>1, <2>3 DEF UnderWay
<1>5. CASE o.at = "transfer" /\ op' = [op EXCEPT ![c] = [n EXCEPT !.at = "unlink"]]
    <2>1. GoesOn(n, [n EXCEPT !.at = "unlink"])
        <3> HIDE DEF o, n
        <3> QED
            BY <1>4, <1>5, NextStage DEF Stages
    <2>2. GoesOn(o, [n EXCEPT !.at = "unlink"])
        BY <1>2, <1>4, <1>5, <2>1 DEF GoesOn
    <2> QED
        BY <1>5, <2>2 DEF GoesTo
<1>6. CASE o.at = "transfer" /\ op' = [op EXCEPT ![c] = Plain!FailRaw(n, "EIO")]
    <2>1. GoesOn(n, Plain!FailRaw(n, "EIO"))
        <3> HIDE DEF o, n
        <3> QED
            BY <1>2, <1>4, <1>6, FailRawSound DEF FileErrors, Raw, Excused, Plain!Untranslated
    <2>2. GoesOn(o, Plain!FailRaw(n, "EIO"))
        BY <1>2, <1>4, <1>6, <2>1 DEF GoesOn
    <2> QED
        BY <1>6, <2>2 DEF GoesTo
<1>7. CASE op' = [op EXCEPT ![c] = Plain!Done(o)]
    <2>1. GoesOn(o, Plain!Done(o))
        <3> HIDE DEF o
        <3> QED
            BY <1>1, <1>2, DoneSound
    <2> QED
        BY <1>7, <2>1 DEF GoesTo
<1>8. ASSUME NEW e \in {"EACCES", "ENOENT"}, op' = [op EXCEPT ![c] = Plain!FailRaw(o, e)]
      PROVE  \E m : GoesTo(c, m)
    <2>1. GoesOn(o, Plain!FailRaw(o, e))
        <3> HIDE DEF o
        <3> QED
            BY <1>1, <1>2, FailRawSound DEF FileErrors, Raw, Excused
    <2> QED
        BY <1>8, <2>1 DEF GoesTo
<1>9. CASE Plain!AcrossDevices(c)
    BY <1>3, <1>5, <1>6, <1>7, <1>9 DEF Plain!AcrossDevices, Plain!Become, Plain!Go
<1>10. CASE Plain!AcrossDevicesFails(c)
    BY <1>8, <1>10 DEF Plain!AcrossDevicesFails, Plain!Become
<1> QED
    BY <1>9, <1>10

LEMMA TransferGoes ==
    ASSUME OpsInv, DiskInv, NEW c \in Callers, Plain!Transfer(c) \/ Plain!TransferFails(c)
    PROVE  \E n : GoesTo(c, n)
<1> DEFINE o == op[c]
<1>1. /\ o \in FileOperations /\ UnderWay(o, package)
      /\ o.err = "none" /\ o.heard = {}
    BY AtStage DEF Stages, Plain!Transfer, Plain!TransferFails
<1>2. /\ o.kind \in {"copy", "move"} /\ package = "xf-reactnative-fs" /\ MayLose(o, package)
      /\ o.dest \in Plain!Paths
    BY <1>1 DEF Plain!Transfer, Plain!TransferFails, Plain!Native, UnderWay
<1>3. ASSUME NEW at \in {"unlink", "transfer"}, op' = [op EXCEPT ![c] = [o EXCEPT !.at = at]]
      PROVE  \E n : GoesTo(c, n)
    <2>1. GoesOn(o, [o EXCEPT !.at = at])
        <3> HIDE DEF o
        <3> QED
            BY <1>1, <1>2, NextStage DEF Stages
    <2> QED
        BY <1>3, <2>1 DEF GoesTo
<1>4. ASSUME NEW ps \in SUBSET {o.dest}
      PROVE  /\ Plain!Loses(o, ps) \in FileOperations
             /\ Plain!Loses(o, ps).kind = o.kind /\ Plain!Loses(o, ps).err = "none"
             /\ Plain!Loses(o, ps).heard = {}
             /\ UnderWay(Plain!Loses(o, ps), package) /\ MayLose(Plain!Loses(o, ps), package)
    <2>1. \A p \in ps : Plain!Part(o, p) \in {"target", "itself"}
        BY <1>4 DEF Plain!Part
    <2>2. \A p \in ps : Plain!Part(o, p) \in Parts /\ MayPlay(o.kind, Plain!Part(o, p), package)
        BY <1>2, <2>1 DEF Parts, MayPlay
    <2> DEFINE n == Plain!Loses(o, ps)
    <2> HIDE DEF o
    <2>3. /\ n \in FileOperations /\ MayLose(n, package)
          /\ n.kind = o.kind /\ n.err = o.err /\ n.heard = o.heard /\ n.at = o.at
          /\ n.src = o.src /\ n.dest = o.dest
        BY <1>1, <1>2, <2>2, Discards
    <2> HIDE DEF n
    <2>4. UnderWay(n, package)
        BY <1>1, <1>2, <2>3 DEF UnderWay, Excused
    <2> QED
        BY <1>1, <2>3, <2>4 DEF n
<1>5. CASE op' = [op EXCEPT ![c] = [Plain!Loses(o, {o.dest}) EXCEPT !.at = "transfer"]]
    <2> DEFINE n == Plain!Loses(o, {o.dest})
    <2>1. GoesOn(n, [n EXCEPT !.at = "transfer"])
        <3>1. n \in FileOperations /\ UnderWay(n, package)
            BY <1>4
        <3> HIDE DEF o, n
        <3> QED
            BY <1>2, <3>1, NextStage DEF Stages
    <2>2. n.kind = o.kind
        BY <1>4
    <2>3. GoesOn(o, [n EXCEPT !.at = "transfer"])
        BY <2>1, <2>2 DEF GoesOn
    <2> QED
        BY <1>5, <2>3 DEF GoesTo
<1>6. ASSUME NEW ps \in SUBSET {o.dest},
             \/ op' = [op EXCEPT ![c] = Plain!Done(Plain!Loses(o, ps))]
             \/ op' = [op EXCEPT ![c] = Plain!Fail(Plain!Loses(o, ps), "EIO")]
      PROVE  \E n : GoesTo(c, n)
    <2> DEFINE n == Plain!Loses(o, ps)
    <2>1. /\ n \in FileOperations /\ n.kind = o.kind /\ n.err = "none" /\ n.heard = {}
          /\ MayLose(n, package)
        BY <1>4
    <2>2. GoesOn(n, Plain!Done(n)) /\ GoesOn(n, Plain!Fail(n, "EIO"))
        <3> HIDE DEF o, n
        <3>1. Excused(n, "none", package)
            BY <1>2, <2>1 DEF Excused
        <3> QED
            BY <2>1, <3>1, DoneSound, FailSound
    <2>3. GoesOn(o, Plain!Done(n)) /\ GoesOn(o, Plain!Fail(n, "EIO"))
        BY <2>1, <2>2 DEF GoesOn
    <2> QED
        BY <1>6, <2>3 DEF GoesTo
<1>7. ASSUME NEW e \in {"EACCES", "ENOENT", "EEXIST"}, op' = [op EXCEPT ![c] = Plain!Fail(o, e)]
      PROVE  \E n : GoesTo(c, n)
    <2>1. GoesOn(o, Plain!Fail(o, e))
        <3> HIDE DEF o
        <3>1. Excused(o, "none", package)
            BY <1>2 DEF Excused
        <3> QED
            BY <1>1, <1>2, <3>1, FailSound
    <2> QED
        BY <1>7, <2>1 DEF GoesTo
<1>8. (there \cap {o.dest}) \ {o.src} \in SUBSET {o.dest}
    OBVIOUS
<1>9. CASE Plain!Transfer(c)
    BY <1>3, <1>5, <1>6, <1>8, <1>9 DEF Plain!Transfer, Plain!Become, Stages
<1>10. CASE Plain!TransferFails(c)
    BY <1>7, <1>10 DEF Plain!TransferFails, Plain!Become
<1> QED
    BY <1>9, <1>10

LEMMA RemoveGoes ==
    ASSUME OpsInv, DiskInv, NEW c \in Callers,
           Plain!RmdirLooks(c) \/ Plain!RemoveNative(c) \/ Plain!RemoveNode(c)
    PROVE  \E n : GoesTo(c, n)
<1> DEFINE o == op[c]
<1>1. /\ o \in FileOperations /\ UnderWay(o, package)
      /\ o.err = "none" /\ o.heard = {}
    BY AtStage DEF Stages, Plain!RmdirLooks, Plain!RemoveNative, Plain!RemoveNode
<1>2. /\ o.kind \in {"rmdir", "rmrf", "delete"} /\ (Plain!Node => o.kind # "rmdir")
      /\ o.src = "dir" /\ o.dest = "none"
    BY <1>1
       DEF Plain!RmdirLooks, Plain!RemoveNative, Plain!RemoveNode, Plain!Node, Plain!Native, UnderWay
<1>3. MayLose(o, package) /\ (o.lost # {} => Excused(o, "none", package))
    BY <1>1, <1>2 DEF UnderWay
<1>4. ASSUME NEW e \in {"EACCES", "ENOENT", "ENOTEMPTY"}, op' = [op EXCEPT ![c] = Plain!Fail(o, e)]
      PROVE  \E n : GoesTo(c, n)
    <2>2. GoesOn(o, Plain!Fail(o, e))
        <3> HIDE DEF o
        <3> QED
            BY <1>1, <1>3, FailSound
    <2> QED
        BY <1>4, <2>2 DEF GoesTo
<1>5. ASSUME NEW seen, seen = {},
             op' = [op EXCEPT ![c] = [o EXCEPT !.at = "unlink", !.got = seen]]
      PROVE  \E n : GoesTo(c, n)
    <2> DEFINE m == [o EXCEPT !.got = seen]
    <2>1. m \in FileOperations /\ UnderWay(m, package) /\ m.kind = o.kind
        <3> HIDE DEF o
        <3> QED
            BY <1>1, <1>5, Sees
    <2>2. GoesOn(m, [m EXCEPT !.at = "unlink"])
        <3> HIDE DEF o, m
        <3> QED
            BY <2>1, NextStage DEF Stages
    <2>3. [m EXCEPT !.at = "unlink"] = [o EXCEPT !.at = "unlink", !.got = seen]
        BY <1>1 DEF FileOperations
    <2>4. GoesOn(o, [m EXCEPT !.at = "unlink"])
        BY <2>1, <2>2 DEF GoesOn
    <2> HIDE DEF m
    <2> QED
        BY <1>5, <2>3, <2>4 DEF GoesTo
<1>6. CASE op' = [op EXCEPT ![c] = Plain!Done(o)]
    <2>1. GoesOn(o, Plain!Done(o))
        <3> HIDE DEF o
        <3> QED
            BY <1>1, <1>3, DoneSound
    <2> QED
        BY <1>6, <2>1 DEF GoesTo
<1> DEFINE m == Plain!Loses(o, there \cap {"sub"})
<1>7. ASSUME o.kind = "rmrf" \/ Plain!Native
      PROVE  /\ m \in FileOperations /\ m.kind = o.kind /\ m.err = "none" /\ m.heard = {}
             /\ MayLose(m, package) /\ UnderWay(m, package)
             /\ m.lost # {} => Excused(m, "none", package)
    <2>1. \A p \in there \cap {"sub"} :
              Plain!Part(o, p) = "inside" /\ MayPlay(o.kind, Plain!Part(o, p), package)
        BY <1>1, <1>2, <1>7, InsidePart DEF Plain!Native
    <2> HIDE DEF o
    <2>2. /\ m \in FileOperations /\ m.kind = o.kind /\ m.err = o.err /\ m.heard = o.heard
          /\ m.at = o.at /\ m.src = o.src /\ m.dest = o.dest
          /\ MayLose(m, package)
        BY <1>1, <1>3, <2>1, Discards DEF Parts
    <2>3. m.lost = o.lost \cup {Plain!Part(o, p) : p \in there \cap {"sub"}}
        BY <1>1, <1>3, <2>1, Discards DEF Parts
    <2>4. o.lost \subseteq {"inside"}
        BY <1>2, <1>3 DEF Excused
    <2>5. m.lost \subseteq {"inside"}
        BY <2>1, <2>3, <2>4
    <2> HIDE DEF m
    <2>6. m.lost # {} => Excused(m, "none", package)
        BY <2>5 DEF Excused
    <2> QED
        BY <1>1, <2>2, <2>6 DEF UnderWay
<1>8. ASSUME o.kind = "rmrf" \/ Plain!Native,
             \/ op' = [op EXCEPT ![c] = Plain!Done(m)]
             \/ op' = [op EXCEPT ![c] = [m EXCEPT !.at = "unlink"]]
             \/ op' = [op EXCEPT ![c] = Plain!Fail(m, "EACCES")]
      PROVE  \E n : GoesTo(c, n)
    <2>1. GoesOn(m, Plain!Done(m))
        <3> HIDE DEF o, m
        <3> QED
            BY <1>7, <1>8, DoneSound
    <2>2. GoesOn(m, [m EXCEPT !.at = "unlink"])
        <3> HIDE DEF o, m
        <3> QED
            BY <1>2, <1>7, <1>8, NextStage DEF Stages
    <2>3. GoesOn(m, Plain!Fail(m, "EACCES"))
        <3> HIDE DEF o, m
        <3> QED
            BY <1>7, <1>8, FailSound
    <2>4. /\ GoesOn(o, Plain!Done(m))
          /\ GoesOn(o, [m EXCEPT !.at = "unlink"])
          /\ GoesOn(o, Plain!Fail(m, "EACCES"))
        BY <1>7, <1>8, <2>1, <2>2, <2>3 DEF GoesOn
    <2> QED
        BY <1>8, <2>4 DEF GoesTo
<1>10. ASSUME op' = [op EXCEPT ![c] = Plain!FailRaw(o, "DirectoryNotEmptyException")]
       PROVE  \E n : GoesTo(c, n)
    <2>1. o.lost # {} => Excused(o, "DirectoryNotEmptyException", package)
        BY <1>2, <1>3 DEF Excused
    <2>2. GoesOn(o, Plain!FailRaw(o, "DirectoryNotEmptyException"))
        <3> HIDE DEF o
        <3> QED
            BY <1>1, <1>3, <2>1, FailRawSound DEF FileErrors, Raw, Plain!Untranslated
    <2> QED
        BY <1>10, <2>2 DEF GoesTo
<1>11. CASE Plain!RmdirLooks(c)
    <2> HIDE DEF m
    <2>1. "sub" \notin there => there \cap {"sub"} = {}
        OBVIOUS
    <2> QED
        BY <1>4, <1>5, <1>10, <1>11, <2>1 DEF Plain!RmdirLooks, Plain!Become
<1>12. CASE Plain!RemoveNative(c)
    <2> HIDE DEF m
    <2>1. Plain!Native
        BY <1>12 DEF Plain!RemoveNative
    <2> QED
        BY <1>4, <1>8, <1>12, <2>1 DEF Plain!RemoveNative, Plain!Become, m
<1>13. CASE Plain!RemoveNode(c)
    BY <1>4, <1>6, <1>8, <1>13 DEF Plain!RemoveNode, Plain!Become
<1> QED
    BY <1>11, <1>12, <1>13

LEMMA WalkGoes ==
    ASSUME OpsInv, DiskInv, NEW c \in Callers, Plain!Walk(c)
    PROVE  \E n : GoesTo(c, n)
<1> DEFINE o == op[c]
<1>1. /\ o \in FileOperations /\ UnderWay(o, package)
      /\ o.err = "none" /\ o.heard = {}
      /\ o.kind = "walk" /\ o.lost = {} /\ MayLose(o, package)
    BY AtStage DEF Stages, Plain!Walk, UnderWay, Excused, MayLose, MayPlay
<1>2. ASSUME NEW seen \in SUBSET (Plain!Paths \cup {"dir"}),
             \/ op' = [op EXCEPT ![c] = [[o EXCEPT !.got = seen] EXCEPT !.at = "inside"]]
             \/ op' = [op EXCEPT ![c] = Plain!Done([o EXCEPT !.got = seen])]
      PROVE  \E n : GoesTo(c, n)
    <2> DEFINE m == [o EXCEPT !.got = seen]
    <2>1. m \in FileOperations /\ m.kind = "walk" /\ m.err = "none" /\ m.heard = {} /\ UnderWay(m, package)
        <3> HIDE DEF o
        <3> QED
            BY <1>1, Sees
    <2>2. GoesOn(m, [m EXCEPT !.at = "inside"]) /\ GoesOn(m, Plain!Done(m))
        <3> HIDE DEF o, m
        <3> QED
            BY <2>1, NextStage, DoneSound DEF Stages, UnderWay
    <2>3. GoesOn(o, [m EXCEPT !.at = "inside"]) /\ GoesOn(o, Plain!Done(m))
        BY <1>1, <2>1, <2>2 DEF GoesOn
    <2> QED
        BY <1>2, <2>3 DEF GoesTo
<1>3. CASE op' = [op EXCEPT ![c] = Plain!Fail(o, "ENOENT")]
    <2>1. GoesOn(o, Plain!Fail(o, "ENOENT"))
        <3> HIDE DEF o
        <3> QED
            BY <1>1, FailSound
    <2> QED
        BY <1>3, <2>1 DEF GoesTo
<1>4. /\ Plain!Entries \ {"sub"} \in SUBSET (Plain!Paths \cup {"dir"})
      /\ Plain!Collected(o.got, there \cap {"sub"}) \in SUBSET (Plain!Paths \cup {"dir"})
    BY <1>1 DEF DiskInv, Plain!Entries, Plain!Collected, FileOperations, Plain!Paths
<1> QED
    BY <1>2, <1>3, <1>4 DEF Plain!Walk, Plain!Become

LEMMA WatchGoes ==
    ASSUME OpsInv, NEW c \in Callers, Plain!Watch(c)
    PROVE  \E n : GoesTo(c, n)
<1> DEFINE o == op[c]
<1>1. /\ o \in FileOperations /\ UnderWay(o, package)
      /\ o.err = "none" /\ o.heard = {}
      /\ o.kind = "watch" /\ o.lost = {} /\ MayLose(o, package)
    BY AtStage DEF Stages, Plain!Watch, UnderWay, Excused, MayLose, MayPlay
<1>2. GoesOn(o, [o EXCEPT !.at = "register"]) /\ GoesOn(o, Plain!Done(o))
    <2> HIDE DEF o
    <2> QED
        BY <1>1, NextStage, DoneSound DEF Stages
<1>3. ASSUME NEW e \in {"FileNotFoundException", "ENOENT", "hook"}, e = "hook" => audited
      PROVE  GoesOn(o, Plain!FailRaw(o, e))
    <2> HIDE DEF o
    <2> QED
        BY <1>1, <1>3, FailRawSound DEF FileErrors, Raw
<1> QED
    BY <1>2, <1>3 DEF Plain!Watch, Plain!Become, GoesTo

LEMMA TempGoes ==
    ASSUME OpsInv, NEW c \in Callers, Plain!TempFile(c) \/ Plain!TempRegister(c)
    PROVE  \E n : GoesTo(c, n)
<1> DEFINE o == op[c]
<1>1. /\ o \in FileOperations /\ UnderWay(o, package)
      /\ o.err = "none" /\ o.heard = {}
      /\ o.kind = "tempFile" /\ o.lost = {} /\ MayLose(o, package)
    BY AtStage DEF Stages, Plain!TempFile, Plain!TempRegister, UnderWay, Excused, MayLose, MayPlay
<1>2. ASSUME NEW t \in Temps
      PROVE  GoesOn(o, [o EXCEPT !.at = "register", !.temp = {t}])
    <2> HIDE DEF o
    <2> QED
        BY <1>1, <1>2 DEF GoesOn, FileOperations, Sound, UnderWay, Stages, MayLose
<1>3. GoesOn(o, Plain!FailRaw(o, "EACCES")) /\ GoesOn(o, Plain!Done(o))
    <2> HIDE DEF o
    <2> QED
        BY <1>1, FailRawSound, DoneSound DEF FileErrors, Raw
<1> QED
    BY <1>2, <1>3 DEF Plain!TempFile, Plain!TempRegister, Plain!Become, GoesTo

LEMMA EndedKeeps ==
    ASSUME NEW o \in FileOperations
    PROVE  /\ Plain!Ended(o) \in FileOperations /\ Plain!Ended(o).at = "ended"
           /\ Plain!Ended(o).kind = o.kind /\ Plain!Ended(o).lost = o.lost
           /\ Plain!Ended(o).err = o.err /\ Plain!Ended(o).heard = o.heard
           /\ Plain!Ended(o).got = o.got
BY DEF FileOperations, Plain!Ended, Places

\* The hooks run once the outcome is settled, and may unsettle it once.
LEMMA HookGoes ==
    ASSUME OpsInv, NEW c \in Callers, Plain!Hook(c) \/ Plain!OnError(c)
    PROVE  \E n : GoesTo(c, n)
<1> DEFINE o == op[c]
<1>1. o \in FileOperations /\ Settling(o, package, audited) /\ o.at \in {"hook", "onError"}
    BY DEF OpsInv, Plain!Idle, Plain!Hook, Plain!OnError, Plain!Go, Sound, Stages
<1>2. ASSUME o.at = "hook"
      PROVE  /\ GoesOn(o, Plain!Ended([o EXCEPT !.heard = @ \cup {"success"}]))
             /\ GoesOn(o, Plain!FailRaw([o EXCEPT !.heard = @ \cup {"success"}], "hook"))
    <2> HIDE DEF o
    <2> DEFINE m == [o EXCEPT !.heard = @ \cup {"success"}]
    <2>1. /\ m \in FileOperations /\ m.kind = o.kind /\ m.lost = o.lost
          /\ m.err = "none" /\ m.heard = {"success"} /\ audited
          /\ m.got = o.got /\ MayLose(o, package)
        BY <1>1, <1>2 DEF FileOperations, Settling
    <2> HIDE DEF m
    <2>2. GoesOn(o, Plain!Ended(m))
        BY <2>1 DEF GoesOn, FileOperations, Sound, Settling, Stages, Plain!Ended, Raw, Plain!Untranslated,
                    Told, Places, MayLose
    <2>3. GoesOn(o, Plain!FailRaw(m, "hook"))
        <3> DEFINE f == [m EXCEPT !.err = "hook", !.got = {}]
        <3>1. /\ f \in FileOperations /\ f.kind = o.kind /\ f.lost = m.lost /\ f.err = "hook"
              /\ f.heard = {"success"} /\ f.got = {}
            BY <2>1 DEF FileOperations, FileErrors
        <3>2. Plain!FailRaw(m, "hook") = IF m.kind \notin {"exists", "stream"}
                                         THEN [f EXCEPT !.at = "onError"]
                                         ELSE Plain!Ended(f)
            BY <2>1 DEF Plain!FailRaw
        <3> HIDE DEF f
        <3>3. m.kind \notin {"exists", "stream"} => GoesOn(o, [f EXCEPT !.at = "onError"])
            BY <2>1, <3>1 DEF GoesOn, FileOperations, Sound, Settling, Stages, Raw, Plain!Untranslated,
                              MayLose
        <3>4. m.kind \in {"exists", "stream"} => GoesOn(o, Plain!Ended(f))
            <4> DEFINE n == Plain!Ended(f)
            <4>1. /\ n \in FileOperations /\ n.kind = o.kind /\ n.lost = m.lost /\ n.err = "hook"
                  /\ n.heard = {"success"} /\ n.at = "ended" /\ n.got = {}
                BY <3>1, EndedKeeps
            <4> HIDE DEF n
            <4>2. ASSUME m.kind \in {"exists", "stream"} PROVE Told(n, audited)
                <5>1. n.kind \in {"exists", "stream"} /\ "success" \in n.heard /\ n.err \in {"none", "hook"}
                    BY <2>1, <4>1, <4>2
                <5> QED
                    BY <5>1 DEF Told
            <4>3. m.kind \in {"exists", "stream"} => GoesOn(o, n)
                BY <2>1, <4>1, <4>2 DEF GoesOn, Sound, Settling, Stages, Raw, Plain!Untranslated, MayLose
            <4> QED
                BY <4>3 DEF n
        <3> QED
            BY <3>2, <3>3, <3>4
    <2> QED
        BY <2>2, <2>3 DEF m
<1>3. ASSUME o.at = "onError"
      PROVE  GoesOn(o, Plain!Ended([o EXCEPT !.heard = @ \cup {"error"}]))
    <2> HIDE DEF o
    <2> DEFINE m == [o EXCEPT !.heard = @ \cup {"error"}]
    <2>1. /\ m \in FileOperations /\ m.kind = o.kind /\ m.lost = o.lost /\ m.err = o.err
          /\ m.heard = o.heard \cup {"error"} /\ m.got = o.got
        BY <1>1 DEF FileOperations
    <2> HIDE DEF m
    <2> DEFINE n == Plain!Ended(m)
    <2>2. /\ n \in FileOperations /\ n.kind = o.kind /\ n.lost = o.lost /\ n.err = o.err
          /\ n.heard = o.heard \cup {"error"} /\ n.at = "ended" /\ n.got = o.got
        BY <2>1, EndedKeeps
    <2> HIDE DEF n
    <2>3. Told(n, audited)
        <3>1. /\ n.kind \notin {"exists", "stream"} /\ n.err # "none"
              /\ n.err # "hook" => n.heard = {"error"}
              /\ n.err = "hook" => \/ n.heard = {"success", "error"}
                                   \/ n.kind = "watch" /\ n.heard = {"error"}
            BY <1>1, <1>3, <2>2 DEF Settling
        <3> QED
            BY <3>1 DEF Told
    <2>4. GoesOn(o, n)
        BY <1>1, <2>2, <2>3 DEF GoesOn, Sound, Settling, Stages, MayLose, Excused
    <2> QED
        BY <2>4 DEF n, m
<1> QED
    BY <1>2, <1>3 DEF Plain!Hook, Plain!OnError, Plain!Go, Plain!Become, GoesTo

\* Every step of a caller calls, returns, goes on or closes a watcher.
LEMMA StepGoes ==
    ASSUME OpsInv, DiskInv, NEW c \in Callers, Plain!Step(c)
    PROVE  \/ Plain!Call(c)
           \/ Plain!Return(c)
           \/ \E n : GoesTo(c, n)
           \/ op' = op
BY OneCallGoes, AcrossDevicesGoes, TransferGoes, RemoveGoes, WalkGoes, WatchGoes, TempGoes, HookGoes
   DEF Plain!Step, Plain!WatcherClose, Plain!TerminateWatcher

LEMMA SameRepository ==
    ASSUME [Plain!Next]_(Plain!vars)
    PROVE  package' = package /\ audited' = audited
<1>1. ASSUME NEW c \in Callers, Plain!Step(c)
      PROVE  package' = package /\ audited' = audited
    BY <1>1
       DEF Plain!Step, Plain!Go, Plain!Call, Plain!Succeeds, Plain!Refused, Plain!Breaks, Plain!Exists,
           Plain!Stream, Plain!Unsupported, Plain!AcrossDevices, Plain!AcrossDevicesFails,
           Plain!Transfer, Plain!TransferFails, Plain!RmdirLooks, Plain!RemoveNative, Plain!RemoveNode,
           Plain!Walk, Plain!Watch, Plain!WatcherClose, Plain!TerminateWatcher, Plain!TempFile,
           Plain!TempRegister, Plain!Hook, Plain!OnError, Plain!Return
<1> QED
    BY <1>1
       DEF Plain!Next, Plain!vars, Plain!TempClose, Plain!Unlinked, Plain!TerminateTemp, Plain!Terminate,
           Plain!TerminateNext

LEMMA PlainInit == Plain!Init => OpsInv /\ DiskInv
<1> SUFFICES ASSUME Plain!Init
             PROVE  OpsInv /\ DiskInv
    OBVIOUS
<1>1. OpsInv
    BY DEF Plain!Init, OpsInv
<1>2. DiskInv
    BY DEF Plain!Init, DiskInv, Plain!Paths
<1> QED
    BY <1>1, <1>2

LEMMA OpsStep ==
    ASSUME OpsInv, DiskInv, [Plain!Next]_(Plain!vars)
    PROVE  OpsInv'
<1>1. package' = package /\ audited' = audited
    BY SameRepository
<1>2. CASE op' = op
    BY <1>1, <1>2 DEF OpsInv
<1>3. ASSUME NEW c \in Callers, NEW n, GoesTo(c, n)
      PROVE  OpsInv'
    BY <1>1, <1>3 DEF OpsInv, GoesTo, GoesOn
<1>4. ASSUME NEW c \in Callers, Plain!Call(c)
      PROVE  OpsInv'
    <2>1. PICK r \in Plain!Requests :
              op' = [op EXCEPT ![c] =
                        [kind |-> r.kind, src |-> r.src, dest |-> r.dest, at |-> "call",
                         err |-> "none", lost |-> {}, got |-> {}, temp |-> {}, heard |-> {}]]
        BY <1>4 DEF Plain!Call
    <2> DEFINE n == [kind |-> r.kind, src |-> r.src, dest |-> r.dest, at |-> "call",
                     err |-> "none", lost |-> {}, got |-> {}, temp |-> {}, heard |-> {}]
    <2>2. /\ r.kind \in FileKinds /\ r.src \in Places /\ r.dest \in Places
          /\ r.kind \in {"read", "write", "exists", "copy", "move"} => r.src \in Plain!Paths
          /\ r.kind \in {"copy", "move"} => r.dest \in Plain!Paths
          /\ r.kind \in {"rmdir", "rmrf"} => r.src = "dir"
          /\ r.kind \notin {"copy", "move"} => r.dest = "none"
        BY DEF Plain!Requests, FileKinds, Places, Plain!Paths
    <2>3. n \in FileOperations
        BY <2>2 DEF FileOperations, Stages, FileErrors, Parts
    <2>4. Sound(n, package, audited)
        BY <2>2 DEF Sound, UnderWay, Stages, MayLose
    <2> HIDE DEF n
    <2>5. op' = [op EXCEPT ![c] = n]
        BY <2>1 DEF n
    <2> QED
        BY <1>1, <2>3, <2>4, <2>5 DEF OpsInv
<1>5. ASSUME NEW c \in Callers, Plain!Return(c)
      PROVE  OpsInv'
    BY <1>1, <1>5 DEF OpsInv, Plain!Return, Plain!Become
<1>6. ASSUME NEW c \in Callers, Plain!Step(c)
      PROVE  OpsInv'
    BY <1>2, <1>3, <1>4, <1>5, <1>6, StepGoes
<1> QED
    BY <1>2, <1>6
       DEF Plain!Next, Plain!vars, Plain!TempClose, Plain!Unlinked, Plain!TerminateTemp, Plain!Terminate,
           Plain!TerminateNext

LEMMA DiskStep ==
    ASSUME OpsInv, DiskInv, [Plain!Next]_(Plain!vars)
    PROVE  DiskInv'
<1>1. CASE UNCHANGED Plain!disk
    BY <1>1 DEF DiskInv, Plain!disk
<1> USE DEF DiskInv, Plain!disk, Plain!Paths, Plain!Parent
<1>2. ASSUME NEW c \in Callers, Plain!Succeeds(c)
      PROVE  DiskInv'
    <2>1. UnderWay(op[c], package) /\ Plain!Possible(op[c])
        BY <1>2, AtStage DEF Stages, Plain!Succeeds
    <2>2. CASE op[c].kind = "write"
        BY <1>2, <2>1, <2>2 DEF Plain!Succeeds, UnderWay, Plain!Possible, Plain!Missing
    <2>3. CASE op[c].kind = "copy"
        BY <1>2, <2>1, <2>3 DEF Plain!Succeeds, UnderWay, Plain!Possible, Plain!Missing
    <2>4. CASE op[c].kind = "move"
        BY <1>2, <2>1, <2>4 DEF Plain!Succeeds, UnderWay, Plain!Possible, Plain!Missing
    <2>5. CASE op[c].kind \notin {"write", "copy", "move"}
        BY <1>2, <2>5 DEF Plain!Succeeds
    <2> QED
        BY <2>2, <2>3, <2>4, <2>5
<1>3. ASSUME NEW c \in Callers, Plain!Breaks(c)
      PROVE  DiskInv'
    <2>1. UnderWay(op[c], package)
        BY <1>3, AtStage DEF Stages, Plain!Breaks
    <2> QED
        BY <1>3, <2>1 DEF Plain!Breaks, UnderWay, Plain!Possible, Plain!Missing
<1>4. ASSUME NEW c \in Callers, Plain!AcrossDevices(c)
      PROVE  DiskInv'
    <2>1. UnderWay(op[c], package)
        BY <1>4, AtStage DEF Stages, Plain!AcrossDevices
    <2> QED
        BY <1>4, <2>1 DEF Plain!AcrossDevices, UnderWay, Plain!Possible, Plain!Missing
<1>5. ASSUME NEW c \in Callers, Plain!Transfer(c)
      PROVE  DiskInv'
    <2>1. UnderWay(op[c], package)
        BY <1>5, AtStage DEF Stages, Plain!Transfer
    <2> QED
        BY <1>5, <2>1 DEF Plain!Transfer, UnderWay, Plain!Missing
<1>6. ASSUME NEW c \in Callers, Plain!RemoveNative(c) \/ Plain!RemoveNode(c)
      PROVE  DiskInv'
    BY <1>6 DEF Plain!RemoveNative, Plain!RemoveNode
<1>7. ASSUME NEW c \in Callers, Plain!Step(c)
      PROVE  DiskInv'
    BY <1>1, <1>2, <1>3, <1>4, <1>5, <1>6, <1>7
       DEF Plain!Step, Plain!Call, Plain!Refused, Plain!Exists, Plain!Stream, Plain!Unsupported,
           Plain!AcrossDevicesFails, Plain!TransferFails, Plain!RmdirLooks, Plain!Walk, Plain!Watch,
           Plain!WatcherClose, Plain!TerminateWatcher, Plain!TempFile, Plain!TempRegister, Plain!Hook,
           Plain!OnError, Plain!Return
<1> QED
    BY <1>1, <1>7
       DEF Plain!Next, Plain!vars, Plain!TempClose, Plain!Unlinked, Plain!TerminateTemp, Plain!Terminate,
           Plain!TerminateNext

LEMMA MeantOrOverlooked ==
    ASSUME NEW o \in FileOperations, MayLose(o, package)
    PROVE  o.lost \subseteq Plain!Meant(o) \cup Plain!Overlooked(o)
<1> SUFFICES ASSUME NEW role \in o.lost
             PROVE  role \in Plain!Meant(o) \cup Plain!Overlooked(o)
    OBVIOUS
<1>1. MayPlay(o.kind, role, package) /\ role \in {"target", "itself", "inside"}
    BY DEF MayLose, FileOperations, Parts
<1>2. CASE o.kind \in {"write", "copy", "move"}
    BY <1>1, <1>2 DEF MayPlay, Plain!Meant, Plain!Overlooked, Plain!Native
<1>3. CASE o.kind = "delete"
    BY <1>1, <1>3 DEF MayPlay, Plain!Meant, Plain!Node
<1>4. CASE o.kind = "rmrf"
    BY <1>1, <1>4 DEF MayPlay, Plain!Meant
<1>5. CASE o.kind = "rmdir"
    BY <1>1, <1>5 DEF MayPlay, MayLose, Plain!Overlooked, Plain!Native
<1> QED
    BY <1>1, <1>2, <1>3, <1>4, <1>5 DEF MayPlay

\* Whatever the callers of a repository do to the same files at once, an operation
\* discards no file but those it is meant to or, under React Native, overlooks; and none
\* when it is rejected, but where the code leaves that open.
THEOREM FilesKept == Plain!Spec => []NoFileLost
<1>1. OpsInv /\ DiskInv /\ [Plain!Next]_(Plain!vars) => (OpsInv /\ DiskInv)'
    BY OpsStep, DiskStep
<1>2. ASSUME OpsInv
      PROVE  NoFileLost
    <2> SUFFICES ASSUME NEW c \in Plain!Over
                 PROVE  /\ op[c].lost \subseteq Plain!Meant(op[c]) \cup Plain!Overlooked(op[c])
                        /\ op[c].err \notin {"none", "hook"} /\ op[c].lost # {} =>
                              \/ op[c].kind \in {"write", "copy"} /\ op[c].err = "EIO"
                              \/ /\ op[c].kind = "move" /\ Plain!Node
                                 /\ op[c].err \in {"EIO", "EACCES", "ENOENT"}
                              \/ op[c].kind \in {"copy", "move"} /\ Plain!Native
                              \/ op[c].lost = {"inside"}
        BY DEF NoFileLost, Plain!NoFileLost
    <2>1. op[c] \in FileOperations /\ Settling(op[c], package, audited)
        BY <1>2 DEF OpsInv, Plain!Over, Plain!Idle, Sound, Stages
    <2> QED
        BY <2>1, MeantOrOverlooked DEF Settling, Excused, Plain!Node, Plain!Native
<1> QED
    BY <1>1, <1>2, PlainInit, PTL DEF Plain!Spec

\* The caller gets the translated error, and the audit hears how each operation ended,
\* once, whatever its own hooks throw.
THEOREM OutcomeKnown == Plain!Spec => []CallersKnowOutcome
<1>1. OpsInv /\ DiskInv /\ [Plain!Next]_(Plain!vars) => (OpsInv /\ DiskInv)'
    BY OpsStep, DiskStep
<1>2. OpsInv => CallersKnowOutcome
    BY DEF OpsInv, CallersKnowOutcome, Plain!CallersKnowOutcome, Plain!Over, Plain!Idle, Sound,
           Settling, Stages, Raw, Told, Plain!Node, Plain!Native
<1> QED
    BY <1>1, <1>2, PlainInit, PTL DEF Plain!Spec

\* What a walk has seen of the entries that stayed, at each of its stages.
Seen(o, staying) ==
    /\ o.at = "inside" => staying \ {"sub"} \subseteq o.got
    /\ o.at \in {"hook", "ended"} /\ o.err = "none" => staying \subseteq o.got

WalkInv ==
    \A c \in Callers : op[c].kind = "walk" =>
        stays[c] \subseteq Plain!Entries /\ Seen(op[c], stays[c])

\* Only these steps are a walk's.
LEMMA WalkSteps ==
    ASSUME OpsInv, NEW c \in Callers, op[c].kind = "walk", Plain!Step(c)
    PROVE  Plain!Walk(c) \/ Plain!Hook(c) \/ Plain!OnError(c) \/ Plain!Return(c) \/ op' = op
BY DEF Plain!Step, Plain!Call, Plain!Idle, Plain!Succeeds, Plain!Refused, Plain!Breaks, Plain!OneCall,
       Plain!Exists, Plain!Stream, Plain!Unsupported, Plain!AcrossDevices, Plain!AcrossDevicesFails,
       Plain!Transfer, Plain!TransferFails, Plain!RmdirLooks, Plain!RemoveNative, Plain!RemoveNode,
       Plain!Watch, Plain!WatcherClose, Plain!TerminateWatcher, Plain!TempFile, Plain!TempRegister

\* Nobody else moves it.
LEMMA OthersStay ==
    ASSUME OpsInv, NEW c \in Callers, NEW d \in Callers \ {c}, Plain!Step(c)
    PROVE  op'[d] = op[d]
BY DEF OpsInv, Plain!Become, Plain!Step, Plain!Call, Plain!Succeeds, Plain!Refused, Plain!Breaks,
       Plain!Exists, Plain!Stream, Plain!Unsupported, Plain!AcrossDevices, Plain!AcrossDevicesFails,
       Plain!Transfer, Plain!TransferFails, Plain!RmdirLooks, Plain!RemoveNative, Plain!RemoveNode,
       Plain!Walk, Plain!Watch, Plain!WatcherClose, Plain!TerminateWatcher, Plain!TempFile,
       Plain!TempRegister, Plain!Hook, Plain!OnError, Plain!Return

\* What the steps of a walk note.
LEMMA WalkNotes ==
    ASSUME OpsInv, DiskInv, NEW c \in Callers, op[c].kind = "walk", Plain!Walk(c),
           NEW staying \in SUBSET Plain!Entries, Seen(op[c], staying)
    PROVE  Seen(op'[c], staying)
<1> DEFINE o == op[c]
<1>1. o \in FileOperations /\ o.err = "none" /\ DOMAIN op = Callers
    BY AtStage DEF Stages, Plain!Walk, OpsInv
<1>2. ASSUME NEW seen, staying \subseteq seen,
             op' = [op EXCEPT ![c] = Plain!Done([o EXCEPT !.got = seen])]
      PROVE  Seen(op'[c], staying)
    <2>1. op'[c] = Plain!Done([o EXCEPT !.got = seen])
        BY <1>1, <1>2
    <2>2. Plain!Done([o EXCEPT !.got = seen]).got = seen /\ Plain!Done([o EXCEPT !.got = seen]).at # "inside"
        BY <1>1 DEF Plain!Done, Plain!Ended, FileOperations
    <2> QED
        BY <1>2, <2>1, <2>2 DEF Seen
<1>3. CASE o.at = "call"
    <2> DEFINE seen == Plain!Entries \ {"sub"}
    <2>1. CASE ~dir
        <3>1. staying \subseteq seen
            BY <2>1 DEF DiskInv, Plain!Entries
        <3>2. op' = [op EXCEPT ![c] = Plain!Done([o EXCEPT !.got = seen])]
            BY <1>3, <2>1 DEF Plain!Walk, Plain!Go, Plain!Become
        <3> HIDE DEF seen, o
        <3> QED
            BY <1>2, <3>1, <3>2
    <2>2. CASE dir
        <3>1. op'[c] = [[o EXCEPT !.got = seen] EXCEPT !.at = "inside"]
            BY <1>1, <1>3, <2>2 DEF Plain!Walk, Plain!Go, Plain!Become
        <3>2. op'[c].at = "inside" /\ op'[c].got = seen
            BY <1>1, <3>1 DEF FileOperations
        <3> QED
            BY <3>2 DEF Seen
    <2> QED
        BY <2>1, <2>2
<1>4. CASE o.at = "inside"
    <2>1. CASE dir
        <3> DEFINE seen == Plain!Collected(o.got, there \cap {"sub"})
        <3>1. staying \subseteq seen
            BY <1>4 DEF Plain!Collected, Plain!Entries, Seen
        <3>2. op' = [op EXCEPT ![c] = Plain!Done([o EXCEPT !.got = seen])]
            BY <1>4, <2>1 DEF Plain!Walk, Plain!Go, Plain!Become
        <3> HIDE DEF seen, o
        <3> QED
            BY <1>2, <3>1, <3>2
    <2>2. CASE ~dir
        <3>1. op'[c] = Plain!Fail(o, "ENOENT")
            BY <1>1, <1>4, <2>2 DEF Plain!Walk, Plain!Go, Plain!Become
        <3>2. op'[c].at \in {"onError", "ended"} /\ op'[c].err # "none"
            BY <1>1, <3>1 DEF Plain!Fail, Plain!FailRaw, Plain!Ended, Plain!Translate, FileOperations
        <3> QED
            BY <3>2 DEF Seen
    <2> QED
        BY <2>1, <2>2
<1> QED
    BY <1>3, <1>4 DEF Plain!Walk, Plain!Go

LEMMA WalkHooks ==
    ASSUME OpsInv, NEW c \in Callers, Plain!Hook(c) \/ Plain!OnError(c),
           NEW staying, Seen(op[c], staying)
    PROVE  Seen(op'[c], staying)
<1> DEFINE o == op[c]
<1>1. /\ o \in FileOperations /\ Settling(o, package, audited) /\ o.at \in {"hook", "onError"}
      /\ DOMAIN op = Callers
    BY DEF OpsInv, Plain!Idle, Plain!Hook, Plain!OnError, Plain!Go, Sound, Stages
<1>2. CASE Plain!OnError(c)
    <2>1. op'[c].at = "ended" /\ op'[c].err = o.err /\ o.err # "none"
        BY <1>1, <1>2 DEF Plain!OnError, Plain!Go, Plain!Become, Plain!Ended, Settling, FileOperations
    <2> QED
        BY <2>1 DEF Seen
<1>3. CASE Plain!Hook(c)
    <2> DEFINE m == [o EXCEPT !.heard = @ \cup {"success"}]
    <2>1. m \in FileOperations /\ m.got = o.got /\ m.err = o.err
        BY <1>1 DEF FileOperations
    <2>2. op'[c] = Plain!Ended(m) \/ op'[c] = Plain!FailRaw(m, "hook")
        BY <1>1, <1>3 DEF Plain!Hook, Plain!Become
    <2> HIDE DEF m
    <2>3. CASE op'[c] = Plain!Ended(m)
        <3>1. op'[c].at = "ended" /\ op'[c].got = o.got
            BY <2>1, <2>3 DEF FileOperations, Plain!Ended
        <3> QED
            BY <1>1, <1>3, <3>1 DEF Seen, Plain!Hook, Plain!Go, Settling
    <2>4. CASE op'[c] = Plain!FailRaw(m, "hook")
        <3>1. op'[c].at \in {"onError", "ended"} /\ op'[c].err = "hook"
            BY <2>1, <2>4 DEF Plain!FailRaw, Plain!Ended, FileOperations
        <3> QED
            BY <3>1 DEF Seen
    <2> QED
        BY <2>2, <2>3, <2>4
<1> QED
    BY <1>2, <1>3

LEMMA WalkStep ==
    ASSUME OpsInv, DiskInv, WalkInv, [Plain!Next]_(Plain!vars)
    PROVE  WalkInv'
<1>1. CASE UNCHANGED Plain!vars
    BY <1>1 DEF WalkInv, Plain!vars, Plain!disk, Plain!Entries
<1>2. ASSUME Plain!Next, NEW c \in Callers, op'[c].kind = "walk"
      PROVE  stays'[c] \subseteq Plain!Entries' /\ Seen(op'[c], stays'[c])
    <2>1. stays'[c] = IF op[c].kind # "walk" THEN Plain!Entries ELSE stays[c] \cap Plain!Entries'
        BY <1>2 DEF Plain!Next, Plain!Stays
    <2>2. op'[c] = op[c] \/ Plain!Step(c)
        BY <1>2, OthersStay
           DEF Plain!Next, Plain!TempClose, Plain!Unlinked, Plain!TerminateTemp, Plain!Terminate,
               Plain!TerminateNext
    <2>3. CASE op'[c] = op[c]
        BY <1>2, <2>1, <2>3 DEF WalkInv, Seen
    <2>4. CASE Plain!Step(c) /\ op[c].kind # "walk"
        <3>1. Plain!Call(c)
            <4>1. ~Plain!Return(c)
                BY <1>2 DEF Plain!Return, Plain!Become, Plain!Idle, OpsInv
            <4>2. \A n : ~GoesTo(c, n)
                BY <1>2, <2>4 DEF GoesTo, GoesOn, OpsInv
            <4> QED
                BY <1>2, <2>4, <4>1, <4>2, StepGoes
        <3>2. op'[c].at = "call" /\ Plain!Entries' = Plain!Entries
            BY <3>1 DEF Plain!Call, Plain!disk, Plain!Entries, OpsInv
        <3> QED
            BY <2>1, <2>4, <3>2 DEF Seen
    <2>5. CASE Plain!Step(c) /\ op[c].kind = "walk"
        <3>1. stays'[c] = stays[c] \cap Plain!Entries' /\ stays[c] \subseteq Plain!Entries
              /\ Seen(op[c], stays[c])
            BY <2>1, <2>5 DEF WalkInv
        <3>2. ~Plain!Return(c)
            BY <1>2 DEF Plain!Return, Plain!Become, Plain!Idle, OpsInv
        <3>3. Seen(op'[c], stays[c])
            BY <2>5, <3>1, <3>2, WalkSteps, WalkNotes, WalkHooks
        <3> QED
            BY <3>1, <3>3 DEF Seen
    <2> QED
        BY <2>2, <2>3, <2>4, <2>5
<1> QED
    BY <1>1, <1>2 DEF WalkInv

\* A walk that resolves has seen every entry that was there from its call to its return.
THEOREM WalkSees == Plain!Spec => []WalkSeesWhatStays
<1>1. Plain!Init => WalkInv
    BY DEF Plain!Init, WalkInv, Plain!Idle
<1>2. OpsInv /\ DiskInv /\ WalkInv /\ [Plain!Next]_(Plain!vars) => (OpsInv /\ DiskInv /\ WalkInv)'
    BY OpsStep, DiskStep, WalkStep
<1>3. WalkInv => WalkSeesWhatStays
    BY DEF WalkInv, WalkSeesWhatStays, Plain!WalkSeesWhatStays, Plain!Over, Seen
<1> QED
    BY <1>1, <1>2, <1>3, PlainInit, PTL DEF Plain!Spec

-----------------------------------------------------------------------------
(* FileConversions: what Base64 keeps, and where paths lead. *)

\* A set of numbers has a least one; that is the induction on numbers.
LEMMA LeastNumber ==
    ASSUME NEW S \in SUBSET Nat, S # {}
    PROVE  \E x \in S : \A y \in S : x <= y
<1>1. PICK x \in S : \A y \in S : <<y, x>> \notin OpToRel(<, Nat)
    BY WFMin, NatLessThanWellFounded, Zenon
<1>2. \A y \in S : ~(y < x)
    BY <1>1, Zenon DEF OpToRel
<1>3. \A y \in S : x <= y
    BY <1>2
<1> QED
    BY <1>3

\* A set that holds 0, and i with i - 1, holds every number up to n.
LEMMA Climb ==
    ASSUME NEW n \in Nat, NEW S, 0 \in S, \A i \in 1..n : i - 1 \in S => i \in S
    PROVE  \A i \in 0..n : i \in S
<1> DEFINE Out == {i \in 0..n : i \notin S}
<1> SUFFICES ASSUME Out # {} PROVE FALSE
    OBVIOUS
<1>1. PICK x \in Out : \A y \in Out : x <= y
    <2>1. Out \in SUBSET Nat
        OBVIOUS
    <2> HIDE DEF Out
    <2> QED
        BY <2>1, LeastNumber
<1>2. x \in 1..n /\ x \notin S
    BY <1>1
<1>3. x - 1 \in 0..n /\ ~(x <= x - 1)
    BY <1>2
<1>4. x - 1 \notin Out
    BY <1>1, <1>3
<1> QED
    BY <1>2, <1>3, <1>4

Octets == 0..255

\* Byte x of the input, and what stands for it where there is none.
ByteAt(bs, x) == IF x <= Len(bs) THEN bs[x] ELSE 0
\* How many characters are not padding.
Sextets(bs) == Len(bs) + ((Len(bs) + 2) \div 3)

\* Characters 4i - 3 to 4i of the text.
CharsOf(bs, i) ==
    << ByteAt(bs, 3 * i - 2) \div 4,
       (ByteAt(bs, 3 * i - 2) % 4) * 16 + (ByteAt(bs, 3 * i - 1) \div 16),
       IF 3 * i - 1 <= Len(bs) THEN (ByteAt(bs, 3 * i - 1) % 16) * 4 + (ByteAt(bs, 3 * i) \div 64)
       ELSE 64,
       IF 3 * i <= Len(bs) THEN ByteAt(bs, 3 * i) % 64 ELSE 64 >>

\* Where a position lies, in rows of three or four.
LEMMA Threes ==
    ASSUME NEW k \in Nat \ {0}
    PROVE  LET i == ((k - 1) \div 3) + 1
               j == ((k - 1) % 3) + 1
           IN  i \in Nat \ {0} /\ j \in 1..3 /\ k = 3 * (i - 1) + j
    OBVIOUS

LEMMA Fours ==
    ASSUME NEW k \in Nat \ {0}
    PROVE  LET i == ((k - 1) \div 4) + 1
               j == ((k - 1) % 4) + 1
           IN  i \in Nat \ {0} /\ j \in 1..4 /\ k = 4 * (i - 1) + j
    OBVIOUS

LEMMA PieceBounds ==
    ASSUME NEW q \in Nat, NEW n \in 3..4, NEW i \in 1..((q + n - 1) \div n)
    PROVE  LET last == IF n * i <= q THEN n * i ELSE q
           IN  /\ n * (i - 1) \in Nat /\ last \in 1..q /\ n * (i - 1) < last
               /\ last - n * (i - 1) \in 1..n /\ (q + n - 1) \div n \in Nat
               /\ last - n * (i - 1) = (IF n * i <= q THEN n ELSE q - n * (i - 1))
<1>1. CASE n = 3
    BY <1>1
<1>2. CASE n = 4
    BY <1>2
<1> QED
    BY <1>1, <1>2

\* One piece, and its elements.
PieceOf(seq, n, i) ==
    LET piece == Conversions!Pieces(seq, n)[i]
    IN  /\ Len(piece) \in 1..n
        /\ Len(piece) = (IF n * i <= Len(seq) THEN n ELSE Len(seq) - n * (i - 1))
        /\ \A j \in 1..Len(piece) : piece[j] = seq[n * (i - 1) + j]

LEMMA PieceShape ==
    ASSUME NEW seq \in Seq(Nat), NEW n \in 3..4, NEW i \in 1..((Len(seq) + n - 1) \div n)
    PROVE  PieceOf(seq, n, i)
<1> DEFINE last == IF n * i <= Len(seq) THEN n * i ELSE Len(seq)
           count == (Len(seq) + n - 1) \div n
           piece == Conversions!Pieces(seq, n)[i]
<1>2. /\ n * (i - 1) \in Nat /\ last \in 1..Len(seq) /\ n * (i - 1) < last
      /\ last - n * (i - 1) \in 1..n /\ count \in Nat
      /\ last - n * (i - 1) = (IF n * i <= Len(seq) THEN n ELSE Len(seq) - n * (i - 1))
    <2>1. Len(seq) \in Nat
        OBVIOUS
    <2> QED
        BY <2>1, PieceBounds
<1>3. Len(Conversions!Pieces(seq, n)) = count /\ piece = SubSeq(seq, n * (i - 1) + 1, last)
    <2> DEFINE P == [l \in 1..count |->
                       SubSeq(seq, n * (l - 1) + 1, IF n * l <= Len(seq) THEN n * l ELSE Len(seq))]
    <2>1. Conversions!Pieces(seq, n) = P
        BY DEF Conversions!Pieces
    <2>2. Len(P) = count
        BY <1>2
    <2>3. P[i] = SubSeq(seq, n * (i - 1) + 1, last)
        OBVIOUS
    <2> QED
        BY <2>1, <2>2, <2>3
<1> DEFINE before == n * (i - 1)
<1> HIDE DEF last, count, before, piece
<1>4. piece = SubSeq(seq, before + 1, last) /\ before \in Nat /\ last \in 1..Len(seq) /\ before < last
    BY <1>2, <1>3 DEF before
<1>5. Len(piece) = last - before /\ \A j \in 1..(last - before) : piece[j] = seq[before + j]
    BY <1>4
<1> QED
    BY <1>2, <1>3, <1>5 DEF before, piece, count, PieceOf

LEMMA BytesAreNumbers ==
    ASSUME NEW bs \in Seq(Octets)
    PROVE  bs \in Seq(Nat)
<1>1. Octets \subseteq Nat
    BY DEF Octets
<1>2. Len(bs) \in Nat /\ bs \in [1..Len(bs) -> Octets]
    OBVIOUS
<1>3. bs \in [1..Len(bs) -> Nat]
    BY <1>1, <1>2
<1> QED
    BY <1>2, <1>3

LEMMA ToBase64Shape ==
    ASSUME NEW bs \in Seq(Octets)
    PROVE  LET text == Conversions!ToBase64(bs)
               m == (Len(bs) + 2) \div 3
           IN  /\ m \in Nat /\ Len(text) = 4 * m /\ DOMAIN text = 1..(4 * m)
               /\ \A i \in 1..m, j \in 1..4 : text[4 * (i - 1) + j] = CharsOf(bs, i)[j]
<1> DEFINE text == Conversions!ToBase64(bs)
           m == (Len(bs) + 2) \div 3
           pieces == Conversions!Pieces(bs, 3)
<1>1. Len(bs) \in Nat /\ m \in Nat /\ (Len(bs) + 3 - 1) \div 3 = m
    OBVIOUS
<1>2. Len(pieces) = m
    <2> DEFINE P == [l \in 1..m |->
                       SubSeq(bs, 3 * (l - 1) + 1, IF 3 * l <= Len(bs) THEN 3 * l ELSE Len(bs))]
    <2>1. pieces = P
        BY <1>1 DEF Conversions!Pieces
    <2>2. Len(P) = m
        BY <1>1
    <2> QED
        BY <2>1, <2>2
<1>3. text = [k \in 1..(4 * m) |->
                Conversions!Quad(pieces[((k - 1) \div 4) + 1])[((k - 1) % 4) + 1]]
    BY <1>2 DEF Conversions!ToBase64
<1>4. ASSUME NEW i \in 1..m
      PROVE  Conversions!Quad(pieces[i]) = CharsOf(bs, i)
    <2> DEFINE piece == pieces[i]
    <2>1. /\ Len(piece) \in 1..3
          /\ Len(piece) = (IF 3 * i <= Len(bs) THEN 3 ELSE Len(bs) - 3 * (i - 1))
          /\ \A j \in 1..Len(piece) : piece[j] = bs[3 * (i - 1) + j]
        <3>1. i \in 1..((Len(bs) + 3 - 1) \div 3) /\ 3 \in 3..4
            BY <1>1
        <3>2. bs \in Seq(Nat)
            BY BytesAreNumbers
        <3>3. PieceOf(bs, 3, i)
            BY <3>1, <3>2, PieceShape
        <3> QED
            BY <3>3 DEF PieceOf
    <2> HIDE DEF piece, pieces
    <2>2. \A j \in 1..3 : (IF j <= Len(piece) THEN piece[j] ELSE 0) = ByteAt(bs, 3 * (i - 1) + j)
        <3> SUFFICES ASSUME NEW j \in 1..3
                     PROVE  (IF j <= Len(piece) THEN piece[j] ELSE 0) = ByteAt(bs, 3 * (i - 1) + j)
            OBVIOUS
        <3>1. j <= Len(piece) <=> 3 * (i - 1) + j <= Len(bs)
            BY <1>1, <2>1
        <3> QED
            BY <2>1, <3>1 DEF ByteAt
    <2>3. /\ (IF 1 <= Len(piece) THEN piece[1] ELSE 0) = ByteAt(bs, 3 * i - 2)
          /\ (IF 2 <= Len(piece) THEN piece[2] ELSE 0) = ByteAt(bs, 3 * i - 1)
          /\ (IF 3 <= Len(piece) THEN piece[3] ELSE 0) = ByteAt(bs, 3 * i)
        <3>1. 3 * (i - 1) + 1 = 3 * i - 2 /\ 3 * (i - 1) + 2 = 3 * i - 1 /\ 3 * (i - 1) + 3 = 3 * i
            OBVIOUS
        <3>2. 1 \in 1..3 /\ 2 \in 1..3 /\ 3 \in 1..3
            OBVIOUS
        <3> QED
            BY <2>2, <3>1, <3>2
    <2>4. (Len(piece) > 1 <=> 3 * i - 1 <= Len(bs)) /\ (Len(piece) > 2 <=> 3 * i <= Len(bs))
        BY <1>1, <2>1
    <2> QED
        BY <2>3, <2>4 DEF Conversions!Quad, CharsOf, Conversions!Padding, piece
<1> HIDE DEF pieces
<1>5. ASSUME NEW i \in 1..m, NEW j \in 1..4
      PROVE  text[4 * (i - 1) + j] = CharsOf(bs, i)[j]
    <2> DEFINE k == 4 * (i - 1) + j
    <2>1. k \in 1..(4 * m) /\ ((k - 1) \div 4) + 1 = i /\ ((k - 1) % 4) + 1 = j
        BY <1>1
    <2> HIDE DEF k
    <2>2. text[k] = Conversions!Quad(pieces[i])[j]
        BY <1>3, <2>1
    <2> QED
        BY <1>4, <2>2 DEF k
<1>6. Len(text) = 4 * m /\ DOMAIN text = 1..(4 * m)
    BY <1>1, <1>3
<1> QED
    BY <1>1, <1>5, <1>6

LEMMA Bytes ==
    ASSUME NEW bs \in Seq(Octets), NEW x \in Nat \ {0}
    PROVE  ByteAt(bs, x) \in 0..255
<1>1. CASE x <= Len(bs)
    <2>1. x \in 1..Len(bs)
        BY <1>1
    <2>2. bs[x] \in Octets
        BY <2>1
    <2> QED
        BY <1>1, <2>2 DEF ByteAt, Octets
<1>2. CASE ~(x <= Len(bs))
    BY <1>2 DEF ByteAt
<1> QED
    BY <1>1, <1>2

LEMMA SextetIs == \A c \in 0..63 : c \in Nat /\ c # 64
    OBVIOUS

\* How many pieces and sextets there are for n bytes.
LEMMA Counts ==
    ASSUME NEW n \in Nat
    PROVE  LET m == (n + 2) \div 3
               L == n + m
           IN  /\ m \in Nat /\ L \in 0..(4 * m) /\ (L + 4 - 1) \div 4 = m /\ (L * 3) \div 4 = n
               /\ \A i \in 1..m : /\ 3 * i - 2 <= n /\ 4 * i - 2 <= L
                                  /\ 3 * i - 1 <= n <=> 4 * i - 1 <= L
                                  /\ 3 * i <= n <=> 4 * i <= L
    OBVIOUS

\* The characters that are left without the padding are those before it.
LEMMA PaddingGoes ==
    ASSUME NEW bs \in Seq(Octets)
    PROVE  LET text == Conversions!ToBase64(bs)
               L == Sextets(bs)
           IN  /\ L \in 0..Len(text) /\ Len(text) \in Nat
               /\ \A k \in 1..L : text[k] \in 0..63
               /\ \A k \in 1..Len(text) : k > L => text[k] = 64
<1> DEFINE n == Len(bs)
           m == (n + 2) \div 3
           text == Conversions!ToBase64(bs)
           L == Sextets(bs)
<1>1. n \in Nat /\ L = n + m
    BY DEF Sextets
<1>2. /\ m \in Nat /\ L \in 0..(4 * m)
      /\ \A i \in 1..m : /\ 3 * i - 2 <= n /\ 4 * i - 2 <= L
                         /\ 3 * i - 1 <= n <=> 4 * i - 1 <= L
                         /\ 3 * i <= n <=> 4 * i <= L
    BY <1>1, Counts
<1>3. /\ Len(text) = 4 * m
      /\ \A i \in 1..m, j \in 1..4 : text[4 * (i - 1) + j] = CharsOf(bs, i)[j]
    BY ToBase64Shape
<1> HIDE DEF L, text, m
<1>4. ASSUME NEW k \in 1..Len(text)
      PROVE  (k <= L => text[k] \in 0..63) /\ (k > L => text[k] = 64)
    <2>1. PICK i \in 1..m, j \in 1..4 : k = 4 * (i - 1) + j
        <3>1. k \in Nat \ {0} /\ k <= 4 * m
            BY <1>2, <1>3
        <3> DEFINE i == ((k - 1) \div 4) + 1
                   j == ((k - 1) % 4) + 1
        <3>2. i \in Nat \ {0} /\ j \in 1..4 /\ k = 4 * (i - 1) + j
            BY <3>1, Fours
        <3> HIDE DEF i, j
        <3>3. i \in 1..m
            BY <1>2, <3>1, <3>2
        <3> QED
            BY <3>2, <3>3
    <2> DEFINE x == ByteAt(bs, 3 * i - 2)
               y == ByteAt(bs, 3 * i - 1)
               z == ByteAt(bs, 3 * i)
    <2>2. x \in 0..255 /\ y \in 0..255 /\ z \in 0..255
        <3>1. 3 * i - 2 \in Nat \ {0} /\ 3 * i - 1 \in Nat \ {0} /\ 3 * i \in Nat \ {0}
            OBVIOUS
        <3> QED
            BY <3>1, Bytes
    <2>3. text[k] = << x \div 4, (x % 4) * 16 + (y \div 16),
                       IF 3 * i - 1 <= n THEN (y % 16) * 4 + (z \div 64) ELSE 64,
                       IF 3 * i <= n THEN z % 64 ELSE 64 >>[j]
        BY <1>3, <2>1 DEF CharsOf
    <2> HIDE DEF x, y, z
    <2>4. /\ x \div 4 \in 0..63 /\ (x % 4) * 16 + (y \div 16) \in 0..63
          /\ (y % 16) * 4 + (z \div 64) \in 0..63 /\ z % 64 \in 0..63
        <3>1. x \div 4 \in 0..63
            BY <2>2
        <3>2. (x % 4) * 16 + (y \div 16) \in 0..63
            BY <2>2
        <3>3. (y % 16) * 4 + (z \div 64) \in 0..63
            BY <2>2
        <3>4. z % 64 \in 0..63
            BY <2>2
        <3> QED
            BY <3>1, <3>2, <3>3, <3>4
    <2>5. CASE j = 1
        <3>1. text[k] \in 0..63
            BY <2>3, <2>4, <2>5
        <3> QED
            BY <1>1, <1>2, <2>1, <2>5, <3>1
    <2>6. CASE j = 2
        <3>1. text[k] \in 0..63
            BY <2>3, <2>4, <2>6
        <3> QED
            BY <1>1, <1>2, <2>1, <2>6, <3>1
    <2>7. CASE j = 3
        <3>1. IF 3 * i - 1 <= n THEN text[k] \in 0..63 ELSE text[k] = 64
            BY <2>3, <2>4, <2>7
        <3>2. k <= L <=> 3 * i - 1 <= n
            BY <1>2, <2>1, <2>7
        <3> QED
            BY <1>2, <3>1, <3>2
    <2>8. CASE j = 4
        <3>1. IF 3 * i <= n THEN text[k] \in 0..63 ELSE text[k] = 64
            BY <2>3, <2>4, <2>8
        <3>2. k <= L <=> 3 * i <= n
            BY <1>2, <2>1, <2>8
        <3> QED
            BY <1>2, <3>1, <3>2
    <2> QED
        BY <2>1, <2>5, <2>6, <2>7, <2>8
<1> QED
    BY <1>2, <1>3, <1>4 DEF text, L

LEMMA OneMore ==
    ASSUME NEW S, NEW d \in Seq(S), NEW i \in 1..Len(d)
    PROVE  SubSeq(d, 1, i) = Append(SubSeq(d, 1, i - 1), d[i])
<1> DEFINE longer == SubSeq(d, 1, i)
           shorter == SubSeq(d, 1, i - 1)
           grown == Append(shorter, d[i])
<1>1. longer \in Seq(S) /\ Len(longer) = i /\ \A k \in 1..i : longer[k] = d[k]
    OBVIOUS
<1>2. shorter \in Seq(S) /\ Len(shorter) = i - 1 /\ \A k \in 1..(i - 1) : shorter[k] = d[k]
    OBVIOUS
<1>3. d[i] \in S /\ i - 1 \in Nat
    OBVIOUS
<1> HIDE DEF longer, shorter
<1>4. grown \in Seq(S) /\ Len(grown) = i /\ grown[i] = d[i]
      /\ \A k \in 1..(i - 1) : grown[k] = shorter[k]
    BY <1>2, <1>3
<1> HIDE DEF grown
<1>5. \A k \in 1..i : grown[k] = longer[k]
    BY <1>1, <1>2, <1>4
<1>6. grown = longer
    BY <1>1, <1>4, <1>5
<1> QED
    BY <1>6 DEF grown, longer, shorter

\* Decoding throws the padding away, when that is at the end.
LEMMA WithoutPadding ==
    ASSUME NEW text \in Seq(Nat), NEW L \in 0..Len(text),
           \A k \in 1..L : text[k] # 64, \A k \in 1..Len(text) : k > L => text[k] = 64
    PROVE  LET clean == SubSeq(text, 1, L)
               pieces == Conversions!Pieces(clean, 4)
           IN  Conversions!FromBase64(text) =
                  [k \in 1..((L * 3) \div 4) |->
                     Conversions!Triple(pieces[((k - 1) \div 3) + 1])[((k - 1) % 3) + 1]]
<1> DEFINE n == Len(text)
           Grow(f, i) == IF i = 0 THEN <<>>
                         ELSE IF text[i] = Conversions!Padding THEN f[i - 1]
                         ELSE Append(f[i - 1], text[i])
           Cut(i) == SubSeq(text, 1, IF i <= L THEN i ELSE L)
           cuts == [i \in 0..n |-> Cut(i)]
           kept == CHOOSE f : f = [i \in 0..n |-> Grow(f, i)]
<1>1. n \in Nat /\ L \in 0..n
    OBVIOUS
<1>2. \A i \in 0..n : Cut(i) = Grow(cuts, i)
    <2> SUFFICES ASSUME NEW i \in 0..n PROVE Cut(i) = Grow(cuts, i)
        OBVIOUS
    <2>1. CASE i = 0
        <3>1. Cut(0) = <<>>
            BY <1>1
        <3> QED
            BY <2>1, <3>1
    <2>2. CASE i # 0 /\ i <= L
        <3>1. i \in 1..n /\ i - 1 \in 0..n /\ i - 1 <= L /\ i \in 1..L
            BY <1>1, <2>2
        <3>2. Cut(i) = SubSeq(text, 1, i) /\ Cut(i - 1) = SubSeq(text, 1, i - 1)
            BY <2>2, <3>1
        <3>3. SubSeq(text, 1, i) = Append(SubSeq(text, 1, i - 1), text[i])
            BY <3>1, OneMore
        <3>4. text[i] # Conversions!Padding
            BY <3>1 DEF Conversions!Padding
        <3>5. cuts[i - 1] = Cut(i - 1)
            BY <3>1
        <3> HIDE DEF Cut, cuts
        <3> QED
            BY <2>2, <3>2, <3>3, <3>4, <3>5
    <2>3. CASE i # 0 /\ ~(i <= L)
        <3>1. i \in 1..n /\ i - 1 \in 0..n /\ i > L
            BY <1>1, <2>3
        <3>2. text[i] = Conversions!Padding
            BY <3>1 DEF Conversions!Padding
        <3>3. (IF i - 1 <= L THEN i - 1 ELSE L) = L
            BY <1>1, <3>1
        <3>4. Cut(i) = SubSeq(text, 1, L) /\ Cut(i - 1) = SubSeq(text, 1, L)
            BY <2>3, <3>3
        <3>5. cuts[i - 1] = Cut(i - 1)
            BY <3>1
        <3> HIDE DEF Cut, cuts
        <3> QED
            BY <2>3, <3>2, <3>4, <3>5
    <2> QED
        BY <2>1, <2>2, <2>3
<1> HIDE DEF Cut
<1>3. cuts = [i \in 0..n |-> Grow(cuts, i)]
    BY <1>2
<1>4. kept = [i \in 0..n |-> Grow(kept, i)]
    BY <1>3
<1>5. Conversions!FromBase64(text) =
         [k \in 1..((Len(kept[n]) * 3) \div 4) |->
            Conversions!Triple(Conversions!Pieces(kept[n], 4)[((k - 1) \div 3) + 1])[((k - 1) % 3) + 1]]
    BY DEF Conversions!FromBase64
<1> HIDE DEF kept, cuts, n
<1>9. ASSUME NEW i \in 0..n PROVE kept[i] = Grow(kept, i)
    <2> DEFINE h == [l \in 0..n |-> Grow(kept, l)]
    <2>1. kept = h
        BY <1>4
    <2>2. h[i] = Grow(kept, i)
        OBVIOUS
    <2> HIDE DEF h
    <2> QED
        BY <2>1, <2>2
<1>10. ASSUME NEW i \in 0..n PROVE cuts[i] = Grow(cuts, i)
    <2> DEFINE h == [l \in 0..n |-> Grow(cuts, l)]
    <2>1. cuts = h
        BY <1>3
    <2>2. h[i] = Grow(cuts, i)
        OBVIOUS
    <2> HIDE DEF h
    <2> QED
        BY <2>1, <2>2
<1> DEFINE Same == {i \in 0..n : kept[i] = cuts[i]}
<1>6. \A i \in 0..n : i \in Same
    <2>1. 0 \in Same
        <3>1. 0 \in 0..n
            BY <1>1
        <3>2. kept[0] = Grow(kept, 0) /\ cuts[0] = Grow(cuts, 0)
            BY <1>9, <1>10, <3>1
        <3>3. kept[0] = cuts[0]
            BY <3>2
        <3> QED
            BY <3>1, <3>3
    <2>2. ASSUME NEW i \in 1..n, i - 1 \in Same PROVE i \in Same
        <3>1. i \in 0..n /\ i # 0 /\ kept[i - 1] = cuts[i - 1]
            BY <1>1, <2>2
        <3>2. kept[i] = Grow(kept, i)
            BY <1>9, <3>1
        <3>4. cuts[i] = Grow(cuts, i)
            BY <1>10, <3>1
        <3>3. kept[i] = cuts[i]
            BY <3>1, <3>2, <3>4
        <3> QED
            BY <3>1, <3>3
    <2> HIDE DEF Same
    <2> QED
        BY <1>1, <2>1, <2>2, Climb
<1>7. kept[n] = SubSeq(text, 1, L)
    <2>1. n \in 0..n /\ (IF n <= L THEN n ELSE L) = L
        BY <1>1
    <2>2. kept[n] = Cut(n)
        BY <1>6, <2>1 DEF cuts
    <2>3. Cut(n) = SubSeq(text, 1, IF n <= L THEN n ELSE L)
        BY DEF Cut
    <2> QED
        BY <2>1, <2>2, <2>3
<1>8. Len(SubSeq(text, 1, L)) = L
    BY <1>1
<1> QED
    BY <1>5, <1>7, <1>8

\* Bytes survive Base64 (EncodingUtils.toBase64() and fromBase64()), however many.
LEMMA Base64Inverts ==
    ASSUME NEW bs \in Seq(Octets)
    PROVE  Conversions!FromBase64(Conversions!ToBase64(bs)) = bs
<1> DEFINE n == Len(bs)
           m == (n + 2) \div 3
           text == Conversions!ToBase64(bs)
           L == Sextets(bs)
           clean == SubSeq(text, 1, L)
           pieces == Conversions!Pieces(clean, 4)
<1>1. n \in Nat /\ L = n + m
    BY DEF Sextets
<1>2. /\ m \in Nat /\ L \in 0..(4 * m) /\ (L + 4 - 1) \div 4 = m /\ (L * 3) \div 4 = n
      /\ \A i \in 1..m : /\ 3 * i - 2 <= n /\ 4 * i - 2 <= L
                         /\ 3 * i - 1 <= n <=> 4 * i - 1 <= L
                         /\ 3 * i <= n <=> 4 * i <= L
    BY <1>1, Counts
<1>3. /\ Len(text) = 4 * m /\ DOMAIN text = 1..(4 * m)
      /\ \A i \in 1..m, j \in 1..4 : text[4 * (i - 1) + j] = CharsOf(bs, i)[j]
    BY ToBase64Shape
<1>4. /\ \A k \in 1..L : text[k] \in 0..63
      /\ \A k \in 1..Len(text) : k > L => text[k] = 64
    BY PaddingGoes
<1>14. Len(text) = 4 * m /\ L \in Nat /\ m \in Nat /\ L <= 4 * m
    BY <1>2, <1>3
<1>5. text \in Seq(Nat)
    <2>1. text = [k \in 1..(4 * m) |-> text[k]]
        <3>1. text = [k \in 1..(4 * Len(Conversions!Pieces(bs, 3))) |->
                        Conversions!Quad(Conversions!Pieces(bs, 3)[((k - 1) \div 4) + 1])[((k - 1) % 4) + 1]]
            BY DEF Conversions!ToBase64
        <3>2. text = [k \in DOMAIN text |-> text[k]]
            BY <3>1
        <3> HIDE DEF text, m
        <3> QED
            BY <1>3, <3>2
    <2> HIDE DEF text, m, L
    <2>2. ASSUME NEW k \in 1..(4 * m) PROVE text[k] \in Nat
        <3>1. CASE k <= L
            <4>1. k \in 1..L
                BY <1>14, <3>1
            <4>2. text[k] \in 0..63
                BY <1>4, <4>1
            <4> QED
                BY <4>2, SextetIs, Zenon
        <3>2. CASE k > L
            <4>1. k \in 1..Len(text)
                BY <1>14
            <4>2. text[k] = 64
                BY <1>4, <3>2, <4>1
            <4> QED
                BY <4>2
        <3> QED
            BY <1>14, <3>1, <3>2
    <2>3. text \in [1..(4 * m) -> Nat]
        BY <2>1, <2>2
    <2>4. 4 * m \in Nat
        BY <1>2
    <2> QED
        BY <2>3, <2>4
<1> HIDE DEF text, m, L
<1>6. L \in 0..Len(text) /\ \A k \in 1..L : text[k] # 64
    <2>1. \A k \in 1..L : text[k] \in 0..63
        BY <1>4
    <2>2. \A k \in 1..L : text[k] # 64
        BY <2>1, SextetIs, Zenon
    <2> QED
        BY <1>14, <2>2
<1>7. Conversions!FromBase64(text) =
         [k \in 1..((L * 3) \div 4) |->
            Conversions!Triple(pieces[((k - 1) \div 3) + 1])[((k - 1) % 3) + 1]]
    BY <1>4, <1>5, <1>6, WithoutPadding
<1>8. clean \in Seq(Nat) /\ Len(clean) = L /\ \A k \in 1..L : clean[k] = text[k]
    BY <1>5, <1>6
<1> HIDE DEF clean, pieces
<1>9. ASSUME NEW i \in 1..m
      PROVE  Conversions!Triple(pieces[i]) =
                << ByteAt(bs, 3 * i - 2), IF 3 * i - 1 <= n THEN ByteAt(bs, 3 * i - 1)
                                          ELSE Conversions!Triple(pieces[i])[2],
                   IF 3 * i <= n THEN ByteAt(bs, 3 * i) ELSE Conversions!Triple(pieces[i])[3] >>
    <2> DEFINE piece == pieces[i]
    <2>1. /\ Len(piece) \in 1..4
          /\ Len(piece) = (IF 4 * i <= L THEN 4 ELSE L - 4 * (i - 1))
          /\ \A j \in 1..Len(piece) : piece[j] = clean[4 * (i - 1) + j]
        <3>1. i \in 1..((Len(clean) + 4 - 1) \div 4) /\ 4 \in 3..4
            BY <1>2, <1>8
        <3>2. PieceOf(clean, 4, i)
            BY <1>8, <3>1, PieceShape
        <3> QED
            BY <1>8, <3>2 DEF PieceOf, pieces
    <2> HIDE DEF piece
    <2> DEFINE Char(j) == IF j <= Len(piece) THEN piece[j] ELSE 0
               x == ByteAt(bs, 3 * i - 2)
               y == ByteAt(bs, 3 * i - 1)
               z == ByteAt(bs, 3 * i)
    <2>2. x \in 0..255 /\ y \in 0..255 /\ z \in 0..255
        <3>1. 3 * i - 2 \in Nat \ {0} /\ 3 * i - 1 \in Nat \ {0} /\ 3 * i \in Nat \ {0}
            OBVIOUS
        <3> QED
            BY <3>1, Bytes
    <2>3. \A j \in 1..4 : 4 * (i - 1) + j <= L => Char(j) = CharsOf(bs, i)[j]
        <3> SUFFICES ASSUME NEW j \in 1..4, 4 * (i - 1) + j <= L
                     PROVE  Char(j) = CharsOf(bs, i)[j]
            OBVIOUS
        <3>1. j \in 1..Len(piece) /\ 4 * (i - 1) + j \in 1..L
            BY <1>2, <2>1
        <3>2. Char(j) = text[4 * (i - 1) + j]
            BY <1>8, <2>1, <3>1
        <3> QED
            BY <1>3, <3>2
    <2>4. /\ 4 * (i - 1) + 1 <= L /\ 4 * (i - 1) + 2 <= L
          /\ 3 * i - 1 <= n => 4 * (i - 1) + 3 <= L
          /\ 3 * i <= n => 4 * (i - 1) + 4 <= L
        BY <1>1, <1>2
    <2> HIDE DEF Char
    <2>5. /\ Char(1) = CharsOf(bs, i)[1] /\ Char(2) = CharsOf(bs, i)[2]
          /\ 3 * i - 1 <= n => Char(3) = CharsOf(bs, i)[3]
          /\ 3 * i <= n => Char(4) = CharsOf(bs, i)[4]
        BY <2>3, <2>4
    <2>6. /\ Char(1) = x \div 4 /\ Char(2) = (x % 4) * 16 + (y \div 16)
          /\ 3 * i - 1 <= n => Char(3) = (y % 16) * 4 + (z \div 64)
          /\ 3 * i <= n => Char(4) = z % 64
        <3> HIDE DEF x, y, z
        <3>1. CharsOf(bs, i) = << x \div 4, (x % 4) * 16 + (y \div 16),
                                  IF 3 * i - 1 <= n THEN (y % 16) * 4 + (z \div 64) ELSE 64,
                                  IF 3 * i <= n THEN z % 64 ELSE 64 >>
            BY DEF CharsOf, x, y, z
        <3> QED
            BY <2>5, <3>1
    <2>7. Conversions!Triple(piece) =
             << Char(1) * 4 + (Char(2) \div 16), (Char(2) % 16) * 16 + (Char(3) \div 4),
                (Char(3) % 4) * 64 + Char(4) >>
        BY DEF Conversions!Triple, Char
    <2> HIDE DEF x, y, z
    <2>8. Char(1) * 4 + (Char(2) \div 16) = x
        <3>1. (x \div 4) * 4 + (((x % 4) * 16 + (y \div 16)) \div 16) = x
            BY <2>2
        <3> QED
            BY <2>6, <3>1, Zenon
    <2>9. ASSUME 3 * i - 1 <= n PROVE (Char(2) % 16) * 16 + (Char(3) \div 4) = y
        <3>1. (((x % 4) * 16 + (y \div 16)) % 16) * 16 + (((y % 16) * 4 + (z \div 64)) \div 4) = y
            BY <2>2
        <3> QED
            BY <2>6, <2>9, <3>1, Zenon
    <2>10. ASSUME 3 * i <= n PROVE (Char(3) % 4) * 64 + Char(4) = z
        <3>1. (((y % 16) * 4 + (z \div 64)) % 4) * 64 + (z % 64) = z
            BY <2>2
        <3>2. 3 * i - 1 <= n
            BY <1>1, <2>10
        <3> QED
            BY <2>6, <2>10, <3>1, <3>2, Zenon
    <2> QED
        BY <2>7, <2>8, <2>9, <2>10 DEF x, y, z, piece
<1>10. ASSUME NEW k \in 1..n
       PROVE  Conversions!FromBase64(text)[k] = bs[k]
    <2> DEFINE i == ((k - 1) \div 3) + 1
               j == ((k - 1) % 3) + 1
    <2>1. i \in Nat \ {0} /\ j \in 1..3 /\ k = 3 * (i - 1) + j
        <3>1. k \in Nat \ {0}
            BY <1>1
        <3> QED
            BY <3>1, Threes
    <2>2. Conversions!FromBase64(text)[k] = Conversions!Triple(pieces[i])[j]
        BY <1>2, <1>7
    <2> HIDE DEF i, j
    <2>3. i \in 1..m
        BY <1>1, <2>1 DEF m
    <2>4. ByteAt(bs, k) = bs[k]
        BY DEF ByteAt
    <2>5. CASE j = 1
        <3>1. k = 3 * i - 2
            BY <2>1, <2>5
        <3> QED
            BY <1>9, <2>2, <2>3, <2>4, <2>5, <3>1
    <2>6. CASE j = 2
        <3>1. k = 3 * i - 1 /\ 3 * i - 1 <= n
            BY <2>1, <2>6
        <3> QED
            BY <1>9, <2>2, <2>3, <2>4, <2>6, <3>1
    <2>7. CASE j = 3
        <3>1. k = 3 * i /\ 3 * i <= n
            BY <2>1, <2>7
        <3> QED
            BY <1>9, <2>2, <2>3, <2>4, <2>7, <3>1
    <2> QED
        BY <2>1, <2>5, <2>6, <2>7
<1> DEFINE out == Conversions!FromBase64(text)
<1>11. out = [k \in 1..n |-> out[k]]
    <2>1. out = [k \in DOMAIN out |-> out[k]] /\ DOMAIN out = 1..n
        BY <1>2, <1>7
    <2> HIDE DEF out
    <2> QED
        BY <2>1
<1>12. bs = [k \in 1..n |-> bs[k]]
    OBVIOUS
<1> HIDE DEF out
<1>13. out = bs
    BY <1>10, <1>11, <1>12 DEF out
<1> QED
    BY <1>13 DEF out, text

\* Segments as normalizeString() leaves them: names, behind ".." where that may stay.
Steps == Names \cup {".."}
Normal(s, up) ==
    /\ s \in Seq(Steps)
    /\ \A i \in 2..Len(s) : s[i] = ".." => s[i - 1] = ".."
    /\ up \/ \A i \in 1..Len(s) : s[i] # ".."

LEMMA NamesApart ==
    /\ "" \notin Steps /\ "." \notin Steps
    /\ \A x \in Names : x \notin {"", ".", ".."}
    /\ \A x \in Conversions!Segments : x \in {"", "."} \/ x \in Steps
<1>1. \A x \in Names : x \notin {"", ".", ".."}
    BY ConversionsAssumption
<1> QED
    BY <1>1 DEF Steps, Conversions!Segments

\* normalizeString() takes one segment after the other.
LEMMA OneAfterTheOther ==
    ASSUME NEW segs \in Seq(Conversions!Segments), NEW up
    PROVE  \E res : /\ res[0] = <<>>
                    /\ \A i \in 1..Len(segs) :
                          res[i] = Conversions!AddSegment(res[i - 1], segs[i], up)
                    /\ Conversions!NormalizeString(segs, up) = res[Len(segs)]
<1> DEFINE n == Len(segs)
           Grow(f, i) == IF i = 0 THEN <<>> ELSE Conversions!AddSegment(f[i - 1], segs[i], up)
           Upto(m) == \E f : f = [l \in 0..m |-> Grow(f, l)]
           Can == {m \in 0..n : Upto(m)}
<1>1. n \in Nat
    OBVIOUS
<1>2. 0 \in Can
    <2> DEFINE f == [l \in 0..0 |-> <<>>]
    <2>1. \A l \in 0..0 : Grow(f, l) = <<>>
        OBVIOUS
    <2>2. f = [l \in 0..0 |-> Grow(f, l)]
        BY <2>1
    <2>3. Upto(0)
        BY <2>2
    <2> QED
        BY <1>1, <2>3
<1>3. ASSUME NEW m \in 1..n, m - 1 \in Can
      PROVE  m \in Can
    <2>1. PICK f : f = [l \in 0..(m - 1) |-> Grow(f, l)]
        BY <1>3
    <2> DEFINE g == [l \in 0..m |-> IF l = m THEN Grow(f, m) ELSE f[l]]
    <2>2. ASSUME NEW l \in 0..m
          PROVE  g[l] = Grow(g, l)
        <3>1. CASE l = 0
            <4> DEFINE h == [x \in 0..(m - 1) |-> Grow(f, x)]
            <4>1. h[0] = <<>> /\ f = h
                BY <2>1
            <4> HIDE DEF h
            <4> QED
                BY <3>1, <4>1
        <3>2. CASE l # 0 /\ l # m
            <4> DEFINE h == [x \in 0..(m - 1) |-> Grow(f, x)]
            <4>1. h[l] = Grow(f, l) /\ f = h
                BY <2>1, <3>2
            <4>2. g[l] = f[l] /\ g[l - 1] = f[l - 1]
                BY <3>2
            <4> HIDE DEF h, g
            <4> QED
                BY <3>2, <4>1, <4>2
        <3>3. CASE l = m
            <4>1. g[l] = Grow(f, l) /\ g[l - 1] = f[l - 1] /\ l # 0
                BY <3>3
            <4> HIDE DEF g
            <4> QED
                BY <4>1
        <3> QED
            BY <3>1, <3>2, <3>3
    <2>3. g = [l \in 0..m |-> Grow(g, l)]
        BY <2>2
    <2> HIDE DEF g
    <2>4. Upto(m)
        BY <2>3
    <2> QED
        BY <1>1, <2>4
<1>4. Upto(n)
    <2>1. \A m \in 0..n : m \in Can
        <3> HIDE DEF Can
        <3> QED
            BY <1>1, <1>2, <1>3, Climb
    <2>2. n \in Can
        BY <1>1, <2>1
    <2> QED
        BY <2>2
<1> DEFINE res == CHOOSE f : f = [l \in 0..n |-> Grow(f, l)]
<1>5. res = [l \in 0..n |-> Grow(res, l)]
    BY <1>4
<1>6. Conversions!NormalizeString(segs, up) = res[n]
    BY DEF Conversions!NormalizeString
<1> HIDE DEF res
<1>7. ASSUME NEW i \in 0..n
      PROVE  res[i] = Grow(res, i)
    <2> DEFINE h == [l \in 0..n |-> Grow(res, l)]
    <2>1. res = h
        BY <1>5
    <2>2. h[i] = Grow(res, i)
        OBVIOUS
    <2> HIDE DEF h
    <2> QED
        BY <2>1, <2>2
<1>8. res[0] = <<>>
    BY <1>1, <1>7
<1>9. ASSUME NEW i \in 1..n
      PROVE  res[i] = Conversions!AddSegment(res[i - 1], segs[i], up)
    <2>1. i \in 0..n /\ i # 0
        OBVIOUS
    <2> QED
        BY <1>7, <2>1
<1> QED
    BY <1>6, <1>8, <1>9

\* What one segment does.
LEMMA Added ==
    ASSUME NEW res \in Seq(Steps), NEW x, NEW up
    PROVE  /\ x \in {"", "."} => Conversions!AddSegment(res, x, up) = res
           /\ x \in Names => Conversions!AddSegment(res, x, up) = Append(res, x)
           /\ x = ".." /\ res # <<>> /\ res[Len(res)] # ".." =>
                 Conversions!AddSegment(res, x, up) = SubSeq(res, 1, Len(res) - 1)
           /\ x = ".." /\ (res = <<>> \/ res[Len(res)] = "..") =>
                 Conversions!AddSegment(res, x, up) = IF up THEN Append(res, "..") ELSE res
<1> DEFINE last == res[Len(res)]
           up1 == x = ".." /\ res # <<>> /\ last # ".."
           up2 == x = ".." /\ (res = <<>> \/ last = "..")
<1>1. Conversions!AddSegment(res, x, up) =
         CASE x \in {"", "."} -> res
           [] up1 -> SubSeq(res, 1, Len(res) - 1)
           [] up2 -> IF up THEN Append(res, "..") ELSE res
           [] OTHER -> Append(res, x)
    BY DEF Conversions!AddSegment, Conversions!Last, Conversions!Front
<1>2. x \in {"", "."} => ~up1 /\ ~up2
    OBVIOUS
<1>3. x \in Names => x \notin {"", "."} /\ ~up1 /\ ~up2
    BY NamesApart
<1>4. up1 => x \notin {"", "."} /\ ~up2
    OBVIOUS
<1>5. up2 => x \notin {"", "."} /\ ~up1
    OBVIOUS
<1> HIDE DEF up1, up2
<1>6. /\ x \in {"", "."} => Conversions!AddSegment(res, x, up) = res
      /\ x \in Names => Conversions!AddSegment(res, x, up) = Append(res, x)
      /\ up1 => Conversions!AddSegment(res, x, up) = SubSeq(res, 1, Len(res) - 1)
      /\ up2 => Conversions!AddSegment(res, x, up) = IF up THEN Append(res, "..") ELSE res
    BY <1>1, <1>2, <1>3, <1>4, <1>5
<1> QED
    BY <1>6 DEF up1, up2

\* The first i segments of s.
Start(s, i) == SubSeq(s, 1, i)

LEMMA Starts ==
    ASSUME NEW S, NEW s \in Seq(S), NEW i \in 0..Len(s)
    PROVE  /\ Start(s, i) \in Seq(S) /\ Len(Start(s, i)) = i
           /\ \A l \in 1..i : Start(s, i)[l] = s[l]
<1>1. Len(s) \in Nat
    OBVIOUS
<1>2. \A l \in 1..i : s[l] \in S
    BY <1>1
<1>3. Start(s, i) = [l \in 1..i |-> s[l]]
    BY <1>1 DEF Start
<1> QED
    BY <1>1, <1>2, <1>3

LEMMA StartGrows ==
    ASSUME NEW S, NEW s \in Seq(S), NEW i \in 1..Len(s)
    PROVE  Start(s, i) = Append(Start(s, i - 1), s[i])
    BY OneMore DEF Start

LEMMA StartEnds ==
    ASSUME NEW S, NEW s \in Seq(S)
    PROVE  Start(s, 0) = <<>> /\ Start(s, Len(s)) = s
    BY DEF Start

LEMMA SameSegments ==
    ASSUME NEW S, NEW s \in Seq(S), NEW t \in Seq(S), Len(s) = Len(t),
           \A i \in 1..Len(s) : s[i] = t[i]
    PROVE  s = t
    OBVIOUS

LEMMA StartShrinks ==
    ASSUME NEW S, NEW s \in Seq(S), NEW i \in 1..Len(s)
    PROVE  SubSeq(Start(s, i), 1, i - 1) = Start(s, i - 1)
<1>1. Len(s) \in Nat /\ i \in 0..Len(s) /\ i - 1 \in 0..Len(s) /\ i \in Nat
    OBVIOUS
<1> DEFINE a == Start(s, i)  b == Start(s, i - 1)  c == Start(a, i - 1)
<1>2. a \in Seq(S) /\ Len(a) = i /\ \A l \in 1..i : a[l] = s[l]
    BY <1>1, Starts
<1>3. b \in Seq(S) /\ Len(b) = i - 1 /\ \A l \in 1..(i - 1) : b[l] = s[l]
    BY <1>1, Starts
<1>4. i - 1 \in 0..Len(a)
    BY <1>1, <1>2
<1>5. c \in Seq(S) /\ Len(c) = i - 1 /\ \A l \in 1..(i - 1) : c[l] = a[l]
    BY <1>2, <1>4, Starts
<1> HIDE DEF a, b, c
<1>6. \A l \in 1..(i - 1) : l \in 1..i
    BY <1>1
<1>7. c = b
    BY <1>2, <1>3, <1>5, <1>6, SameSegments
<1> QED
    BY <1>7 DEF a, b, c, Start

LEMMA Normals ==
    ASSUME NEW s, NEW up
    PROVE  Normal(s, up) <=>
              /\ s \in Seq(Steps)
              /\ \A i \in 2..Len(s) : s[i] = ".." => s[i - 1] = ".."
              /\ up \/ \A i \in 1..Len(s) : s[i] # ".."
    BY DEF Normal

\* A step up takes a name back.
LEMMA StepUp ==
    ASSUME NEW s \in Seq(Steps), NEW i \in 1..Len(s), s[i] # "..", NEW up
    PROVE  Conversions!AddSegment(Start(s, i), "..", up) = Start(s, i - 1)
<1> DEFINE a == Start(s, i)
<1>1. i \in 0..Len(s) /\ i \in 1..i /\ i # 0
    OBVIOUS
<1>2. a \in Seq(Steps) /\ Len(a) = i /\ a[i] = s[i]
    BY <1>1, Starts
<1>3. SubSeq(a, 1, i - 1) = Start(s, i - 1)
    BY StartShrinks
<1> HIDE DEF a
<1>4. a # <<>>
    BY <1>1, <1>2
<1>5. Conversions!AddSegment(a, "..", up) = SubSeq(a, 1, Len(a) - 1)
    BY <1>2, <1>4, Added
<1> QED
    BY <1>2, <1>3, <1>5 DEF a

\* Segment i of what is normal is added to those before it.
LEMMA StepOn ==
    ASSUME NEW s, NEW up, Normal(s, up), NEW i \in 1..Len(s)
    PROVE  Conversions!AddSegment(Start(s, i - 1), s[i], up) = Start(s, i)
<1> DEFINE a == Start(s, i - 1)
<1>1. /\ s \in Seq(Steps)
      /\ \A l \in 2..Len(s) : s[l] = ".." => s[l - 1] = ".."
      /\ up \/ \A l \in 1..Len(s) : s[l] # ".."
    BY Normals
<1>2. Len(s) \in Nat /\ i - 1 \in 0..Len(s) /\ s[i] \in Steps
    BY <1>1
<1>3. a \in Seq(Steps) /\ Len(a) = i - 1 /\ \A l \in 1..(i - 1) : a[l] = s[l]
    BY <1>1, <1>2, Starts
<1>4. Start(s, i) = Append(a, s[i])
    BY <1>1, StartGrows
<1> HIDE DEF a
<1>5. CASE s[i] \in Names
    BY <1>3, <1>4, <1>5, Added DEF a
<1>6. CASE s[i] = ".."
    <2>1. up
        BY <1>1, <1>6
    <2>2. CASE i = 1
        <3>1. a = <<>>
            BY <1>3, <2>2
        <3> QED
            BY <1>3, <1>4, <1>6, <2>1, <3>1, Added DEF a
    <2>3. CASE i # 1
        <3>1. i \in 2..Len(s) /\ i - 1 \in 1..(i - 1)
            BY <1>2, <2>3
        <3>2. a[Len(a)] = ".."
            BY <1>1, <1>3, <1>6, <3>1
        <3>3. Conversions!AddSegment(a, "..", up) = IF up THEN Append(a, "..") ELSE a
            BY <1>3, <3>2, Added
        <3> QED
            BY <1>4, <1>6, <2>1, <3>3 DEF a
    <2> QED
        BY <2>2, <2>3
<1> QED
    BY <1>2, <1>5, <1>6 DEF Steps

LEMMA AddedNormal ==
    ASSUME NEW up, NEW res, Normal(res, up), NEW x \in Conversions!Segments
    PROVE  Normal(Conversions!AddSegment(res, x, up), up)
<1> DEFINE new == Conversions!AddSegment(res, x, up)
<1>1. /\ res \in Seq(Steps) /\ Len(res) \in Nat
      /\ \A i \in 2..Len(res) : res[i] = ".." => res[i - 1] = ".."
      /\ up \/ \A i \in 1..Len(res) : res[i] # ".."
    BY DEF Normal
<1>2. x \in {"", "."} \/ x \in Names \/ x = ".."
    BY DEF Conversions!Segments
<1> HIDE DEF new
<1>3. CASE x \in {"", "."}
    <2>1. new = res
        BY <1>1, <1>3, Added DEF new
    <2> QED
        BY <2>1 DEF new
<1>4. ASSUME NEW y \in Steps, new = Append(res, y),
             y = ".." => up /\ (res = <<>> \/ res[Len(res)] = "..")
      PROVE  Normal(new, up)
    <2>1. new \in Seq(Steps) /\ Len(new) = Len(res) + 1 /\ new[Len(res) + 1] = y
          /\ \A i \in 1..Len(res) : new[i] = res[i]
        BY <1>1, <1>4
    <2>2. ASSUME NEW i \in 2..Len(new), new[i] = ".."
          PROVE  new[i - 1] = ".."
        <3>1. CASE i <= Len(res)
            <4>1. i \in 2..Len(res) /\ i \in 1..Len(res) /\ i - 1 \in 1..Len(res)
                BY <1>1, <3>1
            <4> QED
                BY <1>1, <2>1, <2>2, <4>1
        <3>2. CASE i > Len(res)
            <4>1. i = Len(res) + 1 /\ i - 1 = Len(res) /\ Len(res) \in 1..Len(res) /\ res # <<>>
                BY <1>1, <2>1, <3>2
            <4> QED
                BY <1>4, <2>1, <2>2, <4>1
        <3> QED
            BY <1>1, <3>1, <3>2
    <2>3. up \/ \A i \in 1..Len(new) : new[i] # ".."
        <3> SUFFICES ASSUME ~up, NEW i \in 1..Len(new) PROVE new[i] # ".."
            OBVIOUS
        <3>1. i \in 1..Len(res) \/ i = Len(res) + 1
            BY <1>1, <2>1
        <3> QED
            BY <1>1, <1>4, <2>1, <3>1
    <2> QED
        BY <2>1, <2>2, <2>3 DEF Normal
<1>5. CASE x \in Names
    <2>1. new = Append(res, x) /\ x \in Steps /\ x # ".."
        BY <1>1, <1>5, Added, NamesApart DEF new, Steps
    <2> QED
        BY <1>4, <2>1 DEF new
<1>6. CASE x = ".."
    <2>1. CASE res # <<>> /\ res[Len(res)] # ".."
        <3> DEFINE m == Len(res)
        <3>1. m \in 1..m
            BY <1>1, <2>1
        <3>2. Start(res, m) = res
            BY <1>1, StartEnds
        <3>3. new = Start(res, m - 1)
            BY <1>1, <1>6, <2>1, <3>1, <3>2, StepUp DEF new
        <3>4. m - 1 \in 0..m /\ m \in Nat
            BY <3>1
        <3>5. new \in Seq(Steps) /\ Len(new) = m - 1 /\ \A i \in 1..(m - 1) : new[i] = res[i]
            BY <1>1, <3>3, <3>4, Starts
        <3> HIDE DEF m
        <3>6. \A i \in 2..(m - 1) : i \in 2..m /\ i \in 1..(m - 1) /\ i - 1 \in 1..(m - 1)
            BY <3>4
        <3>7. \A i \in 1..(m - 1) : i \in 1..m
            BY <3>4
        <3>8. \A i \in 2..(m - 1) : new[i] = ".." => new[i - 1] = ".."
            BY <1>1, <3>5, <3>6 DEF m
        <3>9. up \/ \A i \in 1..(m - 1) : new[i] # ".."
            BY <1>1, <3>5, <3>7 DEF m
        <3> QED
            BY <3>5, <3>8, <3>9 DEF Normal, new
    <2>2. CASE ~(res # <<>> /\ res[Len(res)] # "..") /\ up
        <3>1. new = Append(res, "..") /\ ".." \in Steps
            BY <1>1, <1>6, <2>2, Added DEF new, Steps
        <3> QED
            BY <1>4, <2>2, <3>1 DEF new
    <2>3. CASE ~(res # <<>> /\ res[Len(res)] # "..") /\ ~up
        <3>1. new = res
            BY <1>1, <1>6, <2>3, Added DEF new
        <3> QED
            BY <3>1 DEF new
    <2> QED
        BY <2>1, <2>2, <2>3
<1> QED
    BY <1>2, <1>3, <1>5, <1>6

LEMMA NormalizedIsNormal ==
    ASSUME NEW segs \in Seq(Conversions!Segments), NEW up
    PROVE  Normal(Conversions!NormalizeString(segs, up), up)
<1> DEFINE n == Len(segs)
<1>1. PICK res : /\ res[0] = <<>>
                 /\ \A i \in 1..n : res[i] = Conversions!AddSegment(res[i - 1], segs[i], up)
                 /\ Conversions!NormalizeString(segs, up) = res[n]
    BY OneAfterTheOther
<1> DEFINE Ok == {i \in 0..n : Normal(res[i], up)}
<1>2. n \in Nat
    OBVIOUS
<1>3. 0 \in Ok
    <2>1. Normal(<<>>, up)
        BY DEF Normal
    <2> QED
        BY <1>1, <1>2, <2>1
<1>4. ASSUME NEW i \in 1..n, i - 1 \in Ok
      PROVE  i \in Ok
    <2>1. Normal(res[i - 1], up) /\ segs[i] \in Conversions!Segments /\ i \in 0..n
        BY <1>4
    <2>2. Normal(Conversions!AddSegment(res[i - 1], segs[i], up), up)
        BY <2>1, AddedNormal
    <2> QED
        BY <1>1, <2>1, <2>2
<1>5. \A i \in 0..n : i \in Ok
    <2> HIDE DEF Ok
    <2> QED
        BY <1>2, <1>3, <1>4, Climb
<1>6. n \in 0..n
    BY <1>2
<1> QED
    BY <1>1, <1>5, <1>6

\* Whatever goes the way normalizeString() goes ends where it ends.
LEMMA SameWay ==
    ASSUME NEW segs \in Seq(Conversions!Segments), NEW up, NEW way, way[0] = <<>>,
           \A i \in 1..Len(segs) :
              way[i] = Conversions!AddSegment(way[i - 1], segs[i], up)
    PROVE  Conversions!NormalizeString(segs, up) = way[Len(segs)]
<1> DEFINE n == Len(segs)
<1>1. PICK res : /\ res[0] = <<>>
                 /\ \A i \in 1..n : res[i] = Conversions!AddSegment(res[i - 1], segs[i], up)
                 /\ Conversions!NormalizeString(segs, up) = res[n]
    BY OneAfterTheOther
<1> DEFINE Same == {i \in 0..n : res[i] = way[i]}
<1>2. n \in Nat
    OBVIOUS
<1>3. 0 \in Same
    BY <1>1, <1>2
<1>4. ASSUME NEW i \in 1..n, i - 1 \in Same
      PROVE  i \in Same
    <2>1. res[i - 1] = way[i - 1] /\ i \in 0..n
        BY <1>4
    <2>2. res[i] = way[i]
        BY <1>1, <2>1
    <2> QED
        BY <2>1, <2>2
<1>5. \A i \in 0..n : i \in Same
    <2> HIDE DEF Same
    <2> QED
        BY <1>2, <1>3, <1>4, Climb
<1>6. n \in 0..n
    BY <1>2
<1> QED
    BY <1>1, <1>5, <1>6

LEMMA Longer ==
    ASSUME NEW S, NEW s \in Seq(S), NEW x \in S
    PROVE  /\ Append(s, x) \in Seq(S) /\ Len(Append(s, x)) = Len(s) + 1
           /\ \A i \in 1..Len(s) : Append(s, x)[i] = s[i]
           /\ Append(s, x)[Len(s) + 1] = x
    OBVIOUS

LEMMA StepsAreSegments ==
    ASSUME NEW s \in Seq(Steps)
    PROVE  s \in Seq(Conversions!Segments)
<1>1. Steps \subseteq Conversions!Segments
    BY DEF Steps, Conversions!Segments
<1> QED
    BY <1>1

\* What is normal stays as it is.
LEMMA NormalStays ==
    ASSUME NEW up, NEW s, Normal(s, up)
    PROVE  Conversions!NormalizeString(s, up) = s
<1>1. s \in Seq(Steps) /\ s \in Seq(Conversions!Segments) /\ Len(s) \in Nat
    BY Normals, StepsAreSegments
<1> DEFINE way == [i \in 0..Len(s) |-> Start(s, i)]
<1>2. \A i \in 1..Len(s) : i \in 0..Len(s) /\ i - 1 \in 0..Len(s)
    BY <1>1
<1>3. way[0] = <<>> /\ way[Len(s)] = s
    BY <1>1, StartEnds
<1>4. ASSUME NEW i \in 1..Len(s)
      PROVE  way[i] = Conversions!AddSegment(way[i - 1], s[i], up)
    <2>1. Conversions!AddSegment(Start(s, i - 1), s[i], up) = Start(s, i)
        BY StepOn
    <2> QED
        BY <1>2, <2>1
<1> HIDE DEF way
<1> QED
    BY <1>1, <1>3, <1>4, SameWay

\* A separator at the end adds no segment.
LEMMA SeparatorAddsNothing ==
    ASSUME NEW up, NEW segs \in Seq(Conversions!Segments)
    PROVE  /\ Append(segs, "") \in Seq(Conversions!Segments)
           /\ Conversions!NormalizeString(Append(segs, ""), up)
                 = Conversions!NormalizeString(segs, up)
<1> DEFINE n == Len(segs)  longer == Append(segs, "")
<1>1. PICK res : /\ res[0] = <<>>
                 /\ \A i \in 1..n : res[i] = Conversions!AddSegment(res[i - 1], segs[i], up)
                 /\ Conversions!NormalizeString(segs, up) = res[n]
    BY OneAfterTheOther
<1>2. "" \in Conversions!Segments
    BY DEF Conversions!Segments
<1>3. /\ longer \in Seq(Conversions!Segments) /\ Len(longer) = n + 1 /\ n \in Nat
      /\ \A i \in 1..n : longer[i] = segs[i]
      /\ longer[n + 1] = ""
    <2>1. n \in Nat
        OBVIOUS
    <2> HIDE DEF n, longer
    <2>2. /\ longer \in Seq(Conversions!Segments) /\ Len(longer) = Len(segs) + 1
          /\ \A i \in 1..Len(segs) : longer[i] = segs[i]
          /\ longer[Len(segs) + 1] = ""
        BY <1>2, Longer, Zenon DEF longer
    <2> QED
        BY <2>1, <2>2 DEF n
<1>4. Normal(res[n], up)
    BY <1>1, NormalizedIsNormal
<1>5. Conversions!AddSegment(res[n], "", up) = res[n]
    <2>1. res[n] \in Seq(Steps)
        BY <1>4, Normals
    <2> QED
        BY <2>1, Added
<1> HIDE DEF longer, n
<1> DEFINE way == [i \in 0..(n + 1) |-> IF i = n + 1 THEN res[n] ELSE res[i]]
<1>n. n \in Nat
    BY <1>3
<1>6. way[0] = <<>> /\ way[n + 1] = res[n]
    <2>1. way[0] = res[0] /\ way[n + 1] = res[n]
        BY <1>n
    <2> QED
        BY <1>1, <2>1
<1>7. ASSUME NEW i \in 1..(n + 1)
      PROVE  way[i] = Conversions!AddSegment(way[i - 1], longer[i], up)
    <2>1. CASE i = n + 1
        <3>1. way[i] = res[n] /\ way[i - 1] = res[n] /\ longer[i] = ""
            <4>1. i \in 0..(n + 1) /\ i - 1 = n /\ n \in 0..(n + 1) /\ n # n + 1
                BY <1>n, <2>1
            <4> QED
                BY <1>3, <2>1, <4>1
        <3> QED
            BY <1>5, <3>1
    <2>2. CASE i # n + 1
        <3>1. way[i] = res[i] /\ way[i - 1] = res[i - 1] /\ i \in 1..n
            BY <1>n, <2>2
        <3> QED
            BY <1>1, <1>3, <3>1
    <2> QED
        BY <2>1, <2>2
<1> HIDE DEF way
<1>8. Conversions!NormalizeString(longer, up) = way[n + 1]
    BY <1>3, <1>6, <1>7, SameWay
<1> QED
    BY <1>1, <1>3, <1>6, <1>8 DEF longer

-----------------------------------------------------------------------------
\* The common prefix of two sequences is as long as they agree.
LEMMA CommonPart ==
    ASSUME NEW S, NEW f \in Seq(S), NEW t \in Seq(S)
    PROVE  LET k == Len(Conversions!LongestCommonPrefix({f, t}))
           IN  k \in 0..Len(f) /\ k <= Len(t) /\ \A i \in 1..k : f[i] = t[i]
<1> DEFINE C == Conversions!CommonPrefixes({f, t})
           common == Conversions!LongestCommonPrefix({f, t})
           Longest(x) == \A y \in C : Len(y) <= Len(x)
<1>1. ASSUME NEW x \in C
      PROVE  /\ Len(x) \in 0..Len(f) /\ Len(x) <= Len(t)
             /\ \A i \in 1..Len(x) : f[i] = t[i]
    <2>1. /\ Conversions!IsPrefix(x, f) /\ Conversions!IsPrefix(x, t)
          /\ x \in Conversions!Prefixes(f) \/ x \in Conversions!Prefixes(t)
        BY <1>1 DEF Conversions!CommonPrefixes
    <2>2. Len(x) <= Len(f) /\ Len(x) <= Len(t) /\ SubSeq(f, 1, Len(x)) = SubSeq(t, 1, Len(x))
        BY <2>1, Zenon DEF Conversions!IsPrefix
    <2>3. Len(x) \in Nat
        BY <2>1 DEF Conversions!Prefixes
    <2>4. Len(x) \in 0..Len(f) /\ Len(x) \in 0..Len(t)
        BY <2>2, <2>3
    <2>5. /\ \A i \in 1..Len(x) : Start(f, Len(x))[i] = f[i]
          /\ \A i \in 1..Len(x) : Start(t, Len(x))[i] = t[i]
        BY <2>4, Starts
    <2>6. Start(f, Len(x)) = Start(t, Len(x))
        BY <2>2 DEF Start
    <2> QED
        BY <2>2, <2>4, <2>5, <2>6
<1>2. <<>> \in C
    <2>1. <<>> \in Conversions!Prefixes(f)
        <3>1. 0 \in 0..Len(f) /\ SubSeq(f, 1, 0) = <<>>
            OBVIOUS
        <3> QED
            BY <3>1 DEF Conversions!Prefixes
    <2>2. Conversions!IsPrefix(<<>>, f) /\ Conversions!IsPrefix(<<>>, t)
        BY DEF Conversions!IsPrefix
    <2> QED
        BY <2>1, <2>2 DEF Conversions!CommonPrefixes
<1> HIDE DEF C
<1>3. \E x \in C : Longest(x)
    <2> DEFINE Missing == {Len(f) - Len(x) : x \in C}
    <2>1. Missing \in SUBSET Nat /\ Missing # {}
        BY <1>1, <1>2
    <2>2. PICK m \in Missing : \A l \in Missing : m <= l
        <3> HIDE DEF Missing
        <3> QED
            BY <2>1, LeastNumber
    <2>3. PICK x \in C : m = Len(f) - Len(x)
        BY <2>2
    <2>4. ASSUME NEW y \in C
          PROVE  Len(y) <= Len(x)
        <3>1. m <= Len(f) - Len(y)
            BY <2>2
        <3>2. Len(x) \in 0..Len(f) /\ Len(y) \in 0..Len(f) /\ Len(f) \in Nat
            BY <1>1
        <3> QED
            BY <2>3, <3>1, <3>2
    <2> QED
        BY <2>4
<1>4. common = CHOOSE longest \in C : Longest(longest)
    BY DEF Conversions!LongestCommonPrefix, C
<1>5. common \in C
    <2> HIDE DEF common, Longest
    <2> QED
        BY <1>3, <1>4
<1> QED
    BY <1>1, <1>5

\* Up from one place to where the ways part, and down from there to another.
Way(f, t, k) == [i \in 1..(Len(f) - k) |-> ".."] \o SubSeq(t, k + 1, Len(t))

LEMMA Wider ==
    ASSUME NEW S, NEW T, S \subseteq T, NEW s \in Seq(S)
    PROVE  s \in Seq(T)
    OBVIOUS

LEMMA Joins ==
    ASSUME NEW S, NEW s \in Seq(S), NEW t \in Seq(S)
    PROVE  /\ s \o t \in Seq(S) /\ Len(s \o t) = Len(s) + Len(t)
           /\ \A i \in 1..Len(s) : (s \o t)[i] = s[i]
           /\ \A i \in 1..Len(t) : (s \o t)[Len(s) + i] = t[i]
    OBVIOUS

LEMMA Rest ==
    ASSUME NEW S, NEW t \in Seq(S), NEW k \in 0..Len(t)
    PROVE  /\ SubSeq(t, k + 1, Len(t)) \in Seq(S)
           /\ Len(SubSeq(t, k + 1, Len(t))) = Len(t) - k
           /\ \A i \in 1..(Len(t) - k) : SubSeq(t, k + 1, Len(t))[i] = t[k + i]
<1>1. Len(t) \in Nat /\ k \in Nat
    OBVIOUS
<1>2. \A i \in (k + 1)..Len(t) : t[i] \in S
    BY <1>1
<1>3. SubSeq(t, k + 1, Len(t)) = [i \in 1..(Len(t) - k) |-> t[k + i]]
    <2>1. \A i \in 1..(Len(t) - k) : t[i + (k + 1) - 1] = t[k + i]
        BY <1>1
    <2> QED
        BY <1>1, <2>1
<1>4. \A i \in 1..(Len(t) - k) : t[k + i] \in S
    BY <1>1, <1>2
<1>5. Len(t) - k \in Nat
    BY <1>1
<1> QED
    BY <1>3, <1>4, <1>5

Leads(w, f, t, k, S) ==
    /\ w \in Seq(S)
    /\ Len(w) = (Len(f) - k) + (Len(t) - k)
    /\ \A i \in 1..(Len(f) - k) : w[i] = ".."
    /\ \A i \in 1..(Len(t) - k) : w[(Len(f) - k) + i] = t[k + i]

LEMMA WayShape ==
    ASSUME NEW S, ".." \in S, NEW f \in Seq(S), NEW t \in Seq(S),
           NEW k \in 0..Len(f), k <= Len(t)
    PROVE  Leads(Way(f, t, k), f, t, k, S)
<1> DEFINE up == [i \in 1..(Len(f) - k) |-> ".."]
           down == SubSeq(t, k + 1, Len(t))
<1>1. Len(f) - k \in Nat /\ k \in 0..Len(t)
    OBVIOUS
<1>2. up \in Seq(S) /\ Len(up) = Len(f) - k /\ \A i \in 1..(Len(f) - k) : up[i] = ".."
    BY <1>1
<1>3. down \in Seq(S) /\ Len(down) = Len(t) - k /\ \A i \in 1..(Len(t) - k) : down[i] = t[k + i]
    BY <1>1, Rest
<1>4. Way(f, t, k) = up \o down
    BY DEF Way
<1> HIDE DEF up, down
<1>5. /\ up \o down \in Seq(S) /\ Len(up \o down) = Len(up) + Len(down)
      /\ \A i \in 1..Len(up) : (up \o down)[i] = up[i]
      /\ \A i \in 1..Len(down) : (up \o down)[Len(up) + i] = down[i]
    <2>1. up \in Seq(S) /\ down \in Seq(S)
        BY <1>2, <1>3
    <2> QED
        BY <2>1, Joins
<1> QED
    BY <1>2, <1>3, <1>4, <1>5 DEF Leads

\* A separator at the end of the second path is one at the end of the way.
LEMMA WayWithSeparator ==
    ASSUME NEW f \in Seq(Names), NEW t \in Seq(Names), NEW k \in 0..Len(f), k <= Len(t)
    PROVE  Way(f, Append(t, ""), k) = Append(Way(f, t, k), "")
<1> DEFINE S == Conversions!Segments
           longer == Append(t, "")
           a == Way(f, longer, k)
           b == Way(f, t, k)
           c == Append(b, "")
<1>1. Names \subseteq S /\ ".." \in S /\ "" \in S
    BY DEF Conversions!Segments
<1>2. f \in Seq(S) /\ t \in Seq(S) /\ Len(f) \in Nat /\ Len(t) \in Nat /\ k \in Nat
    <2>1. Len(f) \in Nat /\ Len(t) \in Nat
        OBVIOUS
    <2>2. k \in Nat
        BY <2>1
    <2> HIDE DEF S
    <2>3. f \in Seq(S) /\ t \in Seq(S)
        BY <1>1, Wider
    <2> QED
        BY <2>1, <2>2, <2>3
<1> DEFINE up == Len(f) - k  down == Len(t) - k
<1>a. up \in Nat /\ down \in Nat /\ (Len(t) + 1) - k = down + 1 /\ k <= Len(t) + 1
    BY <1>2
<1> HIDE DEF S
<1>3. /\ longer \in Seq(S) /\ Len(longer) = Len(t) + 1
      /\ \A i \in 1..Len(t) : longer[i] = t[i]
      /\ longer[Len(t) + 1] = ""
    BY <1>1, <1>2, Longer
<1> HIDE DEF longer
<1>4. k <= Len(longer)
    BY <1>3, <1>a, Zenon
<1>5. up \in Nat /\ down \in Nat /\ Len(longer) - k = down + 1
    BY <1>3, <1>a, Zenon
<1>6. /\ a \in Seq(S) /\ Len(a) = up + (Len(longer) - k)
      /\ \A i \in 1..up : a[i] = ".."
      /\ \A i \in 1..(Len(longer) - k) : a[up + i] = longer[k + i]
    <2>1. Leads(a, f, longer, k, S)
        BY <1>1, <1>2, <1>3, <1>4, WayShape, Zenon DEF a
    <2> QED
        BY <2>1 DEF Leads
<1>7. /\ b \in Seq(S) /\ Len(b) = up + down
      /\ \A i \in 1..up : b[i] = ".."
      /\ \A i \in 1..down : b[up + i] = t[k + i]
    <2>1. Leads(b, f, t, k, S)
        BY <1>1, <1>2, WayShape, Zenon DEF b
    <2> QED
        BY <2>1 DEF Leads
<1> HIDE DEF a, b
<1>8. /\ c \in Seq(S) /\ Len(c) = Len(b) + 1
      /\ \A i \in 1..Len(b) : c[i] = b[i]
      /\ c[Len(b) + 1] = ""
    BY <1>1, <1>7, Longer
<1>9. \A i \in 1..down : k + i \in 1..Len(t)
    BY <1>2
<1>10. k + (down + 1) = Len(t) + 1
    BY <1>2
<1> HIDE DEF c, up, down
<1>11. ASSUME NEW i \in 1..(up + down + 1)
       PROVE  a[i] = c[i]
    <2>1. CASE i \in 1..up
        <3>1. i \in 1..Len(b)
            BY <1>5, <1>7, <2>1
        <3> QED
            BY <1>6, <1>7, <1>8, <2>1, <3>1
    <2>2. CASE i \notin 1..up /\ i # up + down + 1
        <3> DEFINE j == i - up
        <3>1. j \in 1..down /\ j \in 1..(Len(longer) - k) /\ i \in 1..Len(b) /\ i = up + j
            BY <1>5, <1>7, <2>2
        <3> HIDE DEF j
        <3>2. a[i] = longer[k + j]
            BY <1>6, <3>1
        <3>3. longer[k + j] = t[k + j]
            BY <1>3, <1>9, <3>1
        <3>4. b[i] = t[k + j] /\ c[i] = b[i]
            BY <1>7, <1>8, <3>1
        <3> QED
            BY <3>2, <3>3, <3>4
    <2>3. CASE i = up + down + 1
        <3>1. down + 1 \in 1..(Len(longer) - k) /\ i = up + (down + 1) /\ i = Len(b) + 1
            BY <1>5, <1>7, <2>3
        <3>2. a[i] = longer[k + (down + 1)]
            BY <1>6, <3>1
        <3> QED
            BY <1>3, <1>8, <1>10, <3>1, <3>2
    <2> QED
        BY <2>1, <2>2, <2>3
<1>12. Len(a) = up + down + 1 /\ Len(c) = up + down + 1
    <2>1. Len(a) = up + (down + 1) /\ Len(c) = (up + down) + 1
        BY <1>5, <1>6, <1>7, <1>8, Zenon
    <2> QED
        BY <1>a, <2>1
<1>13. a = c
    BY <1>6, <1>8, <1>11, <1>12, SameSegments
<1> QED
    BY <1>13 DEF a, c, b, longer

LEMMA NamesThere ==
    ASSUME NEW s \in Seq(Names)
    PROVE  \A i \in 1..Len(s) : s[i] \in Names /\ s[i] # ".."
<1>1. \A i \in 1..Len(s) : s[i] \in Names
    OBVIOUS
<1> QED
    BY <1>1, NamesApart

\* Names are normal, with and without steps up before them.
LEMMA NamesAreNormal ==
    ASSUME NEW s \in Seq(Names), NEW up
    PROVE  Normal(s, up)
<1>1. Names \subseteq Steps
    BY DEF Steps
<1>2. s \in Seq(Steps)
    BY <1>1, Wider
<1>3. Len(s) \in Nat /\ \A i \in 1..Len(s) : s[i] \in Names
    OBVIOUS
<1>4. \A i \in 1..Len(s) : s[i] # ".."
    BY <1>3, NamesApart
<1>5. \A i \in 2..Len(s) : i \in 1..Len(s)
    BY <1>3
<1> QED
    BY <1>2, <1>4, <1>5, Normals

\* Behind the first path, the way between the two leads to the second one.
LEMMA WayLeads ==
    ASSUME NEW f \in Seq(Names), NEW t \in Seq(Names), NEW k \in 0..Len(f), k <= Len(t),
           \A i \in 1..k : f[i] = t[i]
    PROVE  /\ Normal(Way(f, t, k), TRUE)
           /\ f \o Way(f, t, k) \in Seq(Conversions!Segments)
           /\ Conversions!NormalizeString(f \o Way(f, t, k), FALSE) = t
<1> DEFINE w == Way(f, t, k)
           up == Len(f) - k
           down == Len(t) - k
           F == Len(f)
           whole == f \o w
<1>1. F \in Nat /\ Len(t) \in Nat /\ k \in Nat
    OBVIOUS
<1>2. up \in Nat /\ down \in Nat /\ F = k + up /\ Len(t) = k + down /\ up + down \in Nat
    BY <1>1
<1>3. f \in Seq(Steps) /\ t \in Seq(Steps) /\ ".." \in Steps
    <2>1. Names \subseteq Steps /\ ".." \in Steps
        BY DEF Steps
    <2> QED
        BY <2>1, Wider
<1>4. Leads(w, f, t, k, Steps)
    BY <1>3, WayShape
<1> HIDE DEF w
<1>5. /\ w \in Seq(Steps) /\ Len(w) = up + down
      /\ \A i \in 1..up : w[i] = ".."
      /\ \A i \in 1..down : w[up + i] = t[k + i]
    BY <1>4 DEF Leads
<1>6. \A i \in 1..Len(t) : t[i] \in Names /\ t[i] # ".."
    BY NamesThere
<1>7. \A i \in 1..F : f[i] \in Names /\ f[i] # ".."
    BY NamesThere DEF F
<1>8. /\ whole \in Seq(Steps) /\ Len(whole) = F + Len(w)
      /\ \A i \in 1..F : whole[i] = f[i]
      /\ \A i \in 1..Len(w) : whole[F + i] = w[i]
    <2>1. f \in Seq(Steps) /\ w \in Seq(Steps)
        BY <1>3, <1>5
    <2> QED
        BY <2>1, Joins DEF whole, F
<1>9. whole \in Seq(Conversions!Segments)
    BY <1>8, StepsAreSegments
<1>10. Start(f, k) = Start(t, k)
    <2>1. k \in 0..Len(f) /\ k \in 0..Len(t)
        BY <1>1
    <2>2. /\ Start(f, k) \in Seq(Steps) /\ Len(Start(f, k)) = k
          /\ \A l \in 1..k : Start(f, k)[l] = f[l]
        BY <1>3, <2>1, Starts
    <2>3. /\ Start(t, k) \in Seq(Steps) /\ Len(Start(t, k)) = k
          /\ \A l \in 1..k : Start(t, k)[l] = t[l]
        BY <1>3, <2>1, Starts
    <2>4. \A l \in 1..k : Start(f, k)[l] = Start(t, k)[l]
        BY <2>2, <2>3
    <2> QED
        BY <2>2, <2>3, <2>4, SameSegments
<1>11. Normal(f, FALSE) /\ Normal(t, FALSE)
    BY NamesAreNormal
<1> HIDE DEF up, down, F, whole
<1>12. Normal(w, TRUE)
    <2>1. ASSUME NEW i \in 2..(up + down), w[i] = ".."
          PROVE  w[i - 1] = ".."
        <3>1. i \in 1..up
            <4> SUFFICES ASSUME i \notin 1..up PROVE FALSE
                OBVIOUS
            <4> DEFINE j == i - up
            <4>1. j \in 1..down /\ i = up + j /\ k + j \in 1..(k + down)
                BY <1>1, <1>2
            <4> HIDE DEF j
            <4>2. w[i] = t[k + j] /\ t[k + j] # ".."
                BY <1>2, <1>5, <1>6, <4>1
            <4> QED
                BY <2>1, <4>2
        <3>2. i - 1 \in 1..up
            BY <1>2, <3>1
        <3> QED
            BY <1>5, <3>2
    <2> QED
        BY <1>5, <2>1, Normals
<1> DEFINE n == F + (up + down)
           At(i) == IF i <= F THEN Start(f, i)
                    ELSE IF i <= F + up THEN Start(f, F - (i - F))
                    ELSE Start(t, k + (i - (F + up)))
           way == [i \in 0..n |-> At(i)]
<1>13. F \in Nat /\ up \in Nat /\ down \in Nat /\ k \in Nat /\ n \in Nat /\ F = k + up
    BY <1>1, <1>2 DEF F
<1>14. n = Len(whole)
    BY <1>5, <1>8
<1>15. way[0] = <<>>
    <2>1. way[0] = Start(f, 0)
        BY <1>13
    <2> QED
        BY <2>1, StartEnds
<1>16. way[n] = t
    <2>1. Start(t, k + down) = t /\ Start(f, F) = f
        BY <1>2, StartEnds DEF F
    <2>2. CASE down = 0 /\ up = 0
        <3>1. way[n] = Start(f, F) /\ k = F /\ k + down = k
            BY <1>13, <2>2
        <3> QED
            BY <1>10, <2>1, <3>1
    <2>3. CASE down = 0 /\ up # 0
        <3>1. way[n] = Start(f, F - (n - F)) /\ F - (n - F) = k /\ k + down = k
            BY <1>13, <2>3
        <3> QED
            BY <1>10, <2>1, <3>1
    <2>4. CASE down # 0
        <3>1. way[n] = Start(t, k + (n - (F + up))) /\ n - (F + up) = down
            BY <1>13, <2>4
        <3> QED
            BY <2>1, <3>1
    <2> QED
        BY <2>2, <2>3, <2>4
<1>17. ASSUME NEW i \in 1..n
       PROVE  way[i] = Conversions!AddSegment(way[i - 1], whole[i], FALSE)
    <2>0. way[i] = At(i) /\ way[i - 1] = At(i - 1)
        BY <1>13
    <2>1. CASE i <= F
        <3>1. At(i) = Start(f, i) /\ At(i - 1) = Start(f, i - 1) /\ i \in 1..F
            BY <1>13, <2>1
        <3>2. whole[i] = f[i]
            BY <1>8, <3>1
        <3>3. Conversions!AddSegment(Start(f, i - 1), f[i], FALSE) = Start(f, i)
            BY <1>11, <3>1, StepOn DEF F
        <3> QED
            BY <2>0, <3>1, <3>2, <3>3
    <2>2. CASE i > F /\ i <= F + up
        <3> DEFINE j == i - F  l == (F + 1) - j
        <3>1. /\ j \in 1..up /\ i = F + j /\ l \in 1..F /\ F - (i - F) = l - 1
              /\ j \in 1..(up + down)
            BY <1>13, <2>2
        <3>2. At(i) = Start(f, l - 1)
            BY <1>13, <2>2, <3>1
        <3>3. At(i - 1) = Start(f, l)
            <4>1. CASE j = 1
                <5>1. i - 1 = F /\ l = F
                    BY <1>13, <4>1
                <5> QED
                    BY <1>13, <5>1
            <4>2. CASE j # 1
                <5>1. ~(i - 1 <= F) /\ i - 1 <= F + up /\ F - ((i - 1) - F) = l
                    BY <1>13, <2>2, <4>2
                <5> QED
                    BY <5>1
            <4> QED
                BY <4>1, <4>2
        <3> HIDE DEF j, l, At
        <3>4. whole[i] = ".."
            <4>1. whole[F + j] = w[j] /\ w[j] = ".."
                BY <1>5, <1>8, <3>1
            <4> QED
                BY <3>1, <4>1
        <3>5. f[l] # ".." /\ l \in 1..Len(f)
            BY <1>7, <3>1 DEF F
        <3>6. Conversions!AddSegment(Start(f, l), "..", FALSE) = Start(f, l - 1)
            BY <1>3, <3>5, StepUp
        <3> QED
            BY <2>0, <3>2, <3>3, <3>4, <3>6
    <2>3. CASE i > F + up
        <3> DEFINE j == i - (F + up)  l == k + j
        <3>1. /\ j \in 1..down /\ i = F + (up + j) /\ l \in 1..(k + down)
              /\ up + j \in 1..(up + down) /\ l - 1 = k + (j - 1)
            BY <1>13, <2>3
        <3>2. At(i) = Start(t, l)
            BY <1>13, <2>3
        <3>3. At(i - 1) = Start(t, l - 1)
            <4>1. CASE j # 1
                <5>1. ~(i - 1 <= F) /\ ~(i - 1 <= F + up) /\ (i - 1) - (F + up) = j - 1
                    BY <1>13, <2>3, <4>1
                <5> QED
                    BY <3>1, <5>1
            <4>2. CASE j = 1 /\ up = 0
                <5>1. i - 1 = F /\ F = k /\ l - 1 = k
                    BY <1>13, <4>2
                <5> QED
                    BY <1>10, <1>13, <5>1
            <4>3. CASE j = 1 /\ up # 0
                <5>1. /\ ~(i - 1 <= F) /\ i - 1 <= F + up
                      /\ F - ((i - 1) - F) = k /\ l - 1 = k
                    BY <1>13, <4>3
                <5> QED
                    BY <1>10, <5>1
            <4> QED
                BY <4>1, <4>2, <4>3
        <3> HIDE DEF j, l, At
        <3>4. whole[i] = t[l]
            <4>1. whole[F + (up + j)] = w[up + j] /\ w[up + j] = t[k + j]
                BY <1>5, <1>8, <3>1
            <4> QED
                BY <3>1, <4>1 DEF l
        <3>5. l \in 1..Len(t)
            BY <1>2, <3>1
        <3>6. Conversions!AddSegment(Start(t, l - 1), t[l], FALSE) = Start(t, l)
            BY <1>11, <3>5, StepOn
        <3> QED
            BY <2>0, <3>2, <3>3, <3>4, <3>6
    <2> QED
        BY <1>13, <2>1, <2>2, <2>3
<1> HIDE DEF way, n
<1>18. Conversions!NormalizeString(whole, FALSE) = way[n]
    BY <1>9, <1>14, <1>15, <1>17, SameWay
<1> QED
    BY <1>9, <1>12, <1>16, <1>18 DEF whole, w

-----------------------------------------------------------------------------
LEMMA LengthIsNat ==
    ASSUME NEW S, NEW s \in Seq(S)
    PROVE  Len(s) \in Nat
    OBVIOUS

Grown(t, s, x, S) ==
    /\ t \in Seq(S) /\ Len(t) = Len(s) + 1
    /\ \A i \in 1..Len(s) : t[i] = s[i]
    /\ t[Len(s) + 1] = x

LEMMA LongerGrown ==
    ASSUME NEW S, NEW s \in Seq(S), NEW x \in S
    PROVE  Grown(Append(s, x), s, x, S)
    BY Longer DEF Grown

\* The last segment, and what is before it.
LEMMA LongerEnds ==
    ASSUME NEW S, NEW s \in Seq(S), NEW x \in S
    PROVE  LET t == Append(s, x)
           IN  t # <<>> /\ t[Len(t)] = x /\ SubSeq(t, 1, Len(t) - 1) = s
<1> DEFINE t == Append(s, x)
<1>1. Len(s) \in Nat
    BY LengthIsNat
<1>2. Grown(t, s, x, S)
    BY LongerGrown
<1> HIDE DEF t
<1>3. Len(t) = Len(s) + 1 /\ t[Len(s) + 1] = x /\ t \in Seq(S)
    BY <1>2 DEF Grown
<1>4. t # <<>>
    <2>1. Len(t) # 0
        BY <1>1, <1>3
    <2> QED
        BY <2>1
<1>5. Len(s) \in 0..Len(t) /\ Len(t) - 1 = Len(s)
    BY <1>1, <1>3
<1>6. /\ Start(t, Len(s)) \in Seq(S) /\ Len(Start(t, Len(s))) = Len(s)
      /\ \A l \in 1..Len(s) : Start(t, Len(s))[l] = t[l]
    BY <1>3, <1>5, Starts
<1>7. \A l \in 1..Len(s) : t[l] = s[l]
    BY <1>2 DEF Grown
<1>8. Start(t, Len(s)) = s
    BY <1>6, <1>7, SameSegments
<1> QED
    BY <1>3, <1>4, <1>5, <1>8 DEF Start, t

Joined(x, s, t, S) ==
    /\ x \in Seq(S) /\ Len(x) = Len(s) + Len(t)
    /\ \A i \in 1..Len(s) : x[i] = s[i]
    /\ \A i \in 1..Len(t) : x[Len(s) + i] = t[i]

LEMMA JoinsJoined ==
    ASSUME NEW S, NEW s \in Seq(S), NEW t \in Seq(S)
    PROVE  Joined(s \o t, s, t, S)
    BY Joins DEF Joined

\* One path behind the other.
Both(s, t) == s \o t
EndStays(s, t, e) == Both(s, Append(t, e)) = Append(Both(s, t), e)

LEMMA LongerJoins ==
    ASSUME NEW S, NEW s \in Seq(S), NEW t \in Seq(S), NEW e \in S
    PROVE  EndStays(s, t, e)
<1> DEFINE longer == Append(t, e)
<1>1. longer \in Seq(S) /\ Len(longer) = Len(t) + 1
      /\ (\A i \in 1..Len(t) : longer[i] = t[i]) /\ longer[Len(t) + 1] = e
    <2>1. Grown(longer, t, e, S)
        BY LongerGrown
    <2> QED
        BY <2>1 DEF Grown
<1> DEFINE x == s \o longer  y == s \o t  z == Append(y, e)
<1>2. /\ x \in Seq(S) /\ Len(x) = Len(s) + Len(longer)
      /\ \A i \in 1..Len(s) : x[i] = s[i]
      /\ \A i \in 1..Len(longer) : x[Len(s) + i] = longer[i]
    <2>1. longer \in Seq(S)
        BY <1>1
    <2> HIDE DEF longer
    <2>2. Joined(x, s, longer, S)
        BY <2>1, JoinsJoined, Zenon DEF x
    <2> QED
        BY <2>2 DEF Joined
<1>3. /\ y \in Seq(S) /\ Len(y) = Len(s) + Len(t)
      /\ \A i \in 1..Len(s) : y[i] = s[i]
      /\ \A i \in 1..Len(t) : y[Len(s) + i] = t[i]
    <2>1. Joined(y, s, t, S)
        BY JoinsJoined, Zenon DEF y
    <2> QED
        BY <2>1 DEF Joined
<1> HIDE DEF x, y, longer
<1>4. /\ z \in Seq(S) /\ Len(z) = Len(y) + 1
      /\ \A i \in 1..Len(y) : z[i] = y[i]
      /\ z[Len(y) + 1] = e
    <2>1. y \in Seq(S)
        BY <1>3
    <2>2. Grown(z, y, e, S)
        BY <2>1, LongerGrown, Zenon DEF z
    <2> QED
        BY <2>2 DEF Grown
<1> HIDE DEF z
<1>5. Len(s) \in Nat /\ Len(t) \in Nat
    BY LengthIsNat
<1>6. Len(x) = Len(z)
    <2>1. Len(x) = Len(s) + (Len(t) + 1) /\ Len(z) = (Len(s) + Len(t)) + 1
        BY <1>1, <1>2, <1>3, <1>4, Zenon
    <2> QED
        BY <1>5, <2>1
<1>7. ASSUME NEW i \in 1..Len(x)
      PROVE  x[i] = z[i]
    <2>1. CASE i <= Len(s)
        <3>1. i \in 1..Len(s) /\ i \in 1..Len(y)
            BY <1>3, <1>5, <2>1
        <3> QED
            BY <1>2, <1>3, <1>4, <3>1
    <2>2. CASE i > Len(s) /\ i <= Len(s) + Len(t)
        <3> DEFINE j == i - Len(s)
        <3>1. j \in 1..Len(t) /\ j \in 1..Len(longer) /\ i = Len(s) + j /\ i \in 1..Len(y)
            BY <1>1, <1>3, <1>5, <2>2
        <3> HIDE DEF j
        <3> QED
            BY <1>1, <1>2, <1>3, <1>4, <3>1
    <2>3. CASE i > Len(s) + Len(t)
        <3>1. i = Len(s) + Len(longer) /\ i = Len(y) + 1 /\ Len(longer) \in 1..Len(longer)
            <4>1. /\ Len(longer) = Len(t) + 1 /\ Len(x) = Len(s) + Len(longer)
                  /\ Len(y) = Len(s) + Len(t)
                BY <1>1, <1>2, <1>3, Zenon
            <4> QED
                BY <1>5, <2>3, <4>1
        <3> QED
            BY <1>1, <1>2, <1>4, <3>1
    <2> QED
        BY <1>5, <2>1, <2>2, <2>3
<1>8. x = z
    BY <1>2, <1>4, <1>6, <1>7, SameSegments
<1> QED
    BY <1>8 DEF x, y, z, longer, Both, EndStays

\* A path; where it is absolute, steps up beyond the root are dropped.
Path(a, s) == [abs |-> a, segs |-> s]
Ended(a, s, res) ==
    Path(a, IF (s # <<>> /\ s[Len(s)] = "") /\ ~(a /\ res = <<>>)
            THEN Append(res, "") ELSE res)

LEMMA PathIs ==
    ASSUME NEW p \in [abs : BOOLEAN, segs : Seq(Conversions!Segments)]
    PROVE  p = Path(p.abs, p.segs) /\ p.abs \in BOOLEAN /\ p.segs \in Seq(Conversions!Segments)
    BY DEF Path

LEMMA PathParts ==
    ASSUME NEW a, NEW s
    PROVE  Path(a, s).abs = a /\ Path(a, s).segs = s
    BY DEF Path

LEMMA LastSegment ==
    ASSUME NEW s \in Seq(Steps)
    PROVE  ~(s # <<>> /\ s[Len(s)] = "")
<1>1. s # <<>> => Len(s) \in 1..Len(s)
    OBVIOUS
<1>2. \A i \in 1..Len(s) : s[i] \in Steps
    OBVIOUS
<1> QED
    BY <1>1, <1>2, NamesApart

\* posixNormalize() of a path, with the separator at its end or without.
LEMMA NormalizeIs ==
    ASSUME NEW a \in BOOLEAN, NEW up \in BOOLEAN, up = ~a, NEW s
    PROVE  Conversions!Normalize(Path(a, s)) = Ended(a, s, Conversions!NormalizeString(s, up))
<1>1. Conversions!Normalize(Path(a, s)) = Ended(a, s, Conversions!NormalizeString(s, ~a))
    BY PathParts DEF Conversions!Normalize, Conversions!Last, Path, Ended
<1>2. CASE a
    <2>1. a = TRUE /\ up = FALSE
        BY <1>2
    <2> QED
        BY <1>1, <2>1
<1>3. CASE ~a
    <2>1. a = FALSE /\ up = TRUE
        BY <1>3
    <2> QED
        BY <1>1, <2>1
<1> QED
    BY <1>2, <1>3

LEMMA BareOf ==
    ASSUME NEW a, NEW s
    PROVE  Conversions!Bare(Path(a, s)) =
              Path(a, IF s # <<>> /\ s[Len(s)] = "" THEN SubSeq(s, 1, Len(s) - 1) ELSE s)
<1> DEFINE cut == IF s # <<>> /\ s[Len(s)] = "" THEN SubSeq(s, 1, Len(s) - 1) ELSE s
<1>1. Conversions!Bare(Path(a, s)) = [Path(a, s) EXCEPT !.segs = cut]
    BY PathParts DEF Conversions!Bare, Conversions!Last, Conversions!Front
<1> HIDE DEF cut
<1>2. [Path(a, s) EXCEPT !.segs = cut] = Path(a, cut)
    BY DEF Path
<1> QED
    BY <1>1, <1>2 DEF cut

LEMMA BareIs ==
    ASSUME NEW a, NEW s \in Seq(Steps)
    PROVE  /\ Conversions!Bare(Path(a, s)) = Path(a, s)
           /\ Conversions!Bare(Path(a, Append(s, ""))) = Path(a, s)
<1> DEFINE t == Append(s, "")
<1>1. /\ ~(s # <<>> /\ s[Len(s)] = "")
      /\ s \in Seq(Conversions!Segments) /\ "" \in Conversions!Segments
    BY LastSegment, StepsAreSegments DEF Conversions!Segments
<1>2. t # <<>> /\ t[Len(t)] = "" /\ SubSeq(t, 1, Len(t) - 1) = s
    BY <1>1, LongerEnds
<1> HIDE DEF t
<1>5. Conversions!Bare(Path(a, s)) = Path(a, s)
    BY <1>1, BareOf
<1>6. Conversions!Bare(Path(a, t)) = Path(a, s)
    BY <1>2, BareOf
<1> QED
    BY <1>5, <1>6 DEF t

\* What comes out of posixNormalize().
LEMMA Normalized ==
    ASSUME NEW a \in BOOLEAN, NEW up \in BOOLEAN, up = ~a, NEW s \in Seq(Conversions!Segments)
    PROVE  LET res == Conversions!NormalizeString(s, up)
           IN  /\ Normal(res, up)
               /\ \/ Conversions!Normalize(Path(a, s)) = Path(a, res)
                  \/ /\ Conversions!Normalize(Path(a, s)) = Path(a, Append(res, ""))
                     /\ ~(a /\ res = <<>>)
               /\ Conversions!Bare(Conversions!Normalize(Path(a, s))) = Path(a, res)
<1> DEFINE res == Conversions!NormalizeString(s, up)
<1>1. Normal(res, up)
    BY NormalizedIsNormal
<1>2. res \in Seq(Steps)
    BY <1>1, Normals
<1>3. Conversions!Normalize(Path(a, s)) = Ended(a, s, res)
    BY NormalizeIs, Zenon
<1> HIDE DEF res
<1>4. \/ Conversions!Normalize(Path(a, s)) = Path(a, res)
      \/ /\ Conversions!Normalize(Path(a, s)) = Path(a, Append(res, ""))
         /\ ~(a /\ res = <<>>)
    BY <1>3 DEF Ended
<1>5. Conversions!Bare(Conversions!Normalize(Path(a, s))) = Path(a, res)
    BY <1>2, <1>4, BareIs
<1> QED
    BY <1>1, <1>4, <1>5 DEF res

LEMMA BareNormalized ==
    ASSUME NEW a \in BOOLEAN, NEW up \in BOOLEAN, up = ~a, NEW s \in Seq(Conversions!Segments)
    PROVE  Conversions!Bare(Conversions!Normalize(Path(a, s)))
              = Path(a, Conversions!NormalizeString(s, up))
    BY Normalized

\* A path that is normal is left as it is, with its separator.
LEMMA Settled ==
    ASSUME NEW a \in BOOLEAN, NEW up \in BOOLEAN, up = ~a, NEW s, Normal(s, up)
    PROVE  /\ Conversions!Normalize(Path(a, s)) = Path(a, s)
           /\ ~(a /\ s = <<>>) =>
                 Conversions!Normalize(Path(a, Append(s, ""))) = Path(a, Append(s, ""))
<1> DEFINE t == Append(s, "")
<1>1. s \in Seq(Steps) /\ s \in Seq(Conversions!Segments) /\ "" \in Conversions!Segments
    BY Normals, StepsAreSegments DEF Conversions!Segments
<1>2. Conversions!NormalizeString(s, up) = s
    BY NormalStays
<1>3. Conversions!NormalizeString(t, up) = s
    BY <1>1, <1>2, SeparatorAddsNothing
<1>4. ~(s # <<>> /\ s[Len(s)] = "")
    BY <1>1, LastSegment
<1>5. t # <<>> /\ t[Len(t)] = ""
    BY <1>1, LongerEnds
<1> HIDE DEF t
<1>6. Conversions!Normalize(Path(a, s)) = Ended(a, s, s)
    BY <1>2, NormalizeIs, Zenon
<1>7. Conversions!Normalize(Path(a, t)) = Ended(a, t, s)
    BY <1>3, NormalizeIs, Zenon
<1>8. Conversions!Normalize(Path(a, s)) = Path(a, s)
    BY <1>4, <1>6 DEF Ended
<1>9. ~(a /\ s = <<>>) => Conversions!Normalize(Path(a, t)) = Path(a, t)
    BY <1>5, <1>7 DEF t, Ended
<1> QED
    BY <1>8, <1>9 DEF t

\* Normalising a second time changes nothing.
LEMMA NormalizesOnce ==
    ASSUME NEW p \in [abs : BOOLEAN, segs : Seq(Conversions!Segments)]
    PROVE  Conversions!Normalize(Conversions!Normalize(p)) = Conversions!Normalize(p)
<1> DEFINE a == p.abs  s == p.segs  up == ~a  res == Conversions!NormalizeString(s, up)
<1>1. /\ p = Path(a, s) /\ s \in Seq(Conversions!Segments)
      /\ a \in BOOLEAN /\ up \in BOOLEAN /\ up = ~a
    BY PathIs
<1> HIDE DEF a, s, up
<1>2. /\ Normal(res, up)
      /\ \/ Conversions!Normalize(Path(a, s)) = Path(a, res)
         \/ /\ Conversions!Normalize(Path(a, s)) = Path(a, Append(res, ""))
            /\ ~(a /\ res = <<>>)
    BY <1>1, Normalized
<1> HIDE DEF res
<1>3. /\ Conversions!Normalize(Path(a, res)) = Path(a, res)
      /\ ~(a /\ res = <<>>) =>
            Conversions!Normalize(Path(a, Append(res, ""))) = Path(a, Append(res, ""))
    BY <1>1, <1>2, Settled
<1> QED
    BY <1>1, <1>2, <1>3

JoinsTo(p, q, a, s, t) == Conversions!Join(p, q) = Conversions!Normalize(Path(a, Both(s, t)))

LEMMA JoinOf ==
    ASSUME NEW a, NEW s, NEW b, NEW t, NEW p, NEW q,
           Conversions!Normalize(p) = Path(a, s), Conversions!Normalize(q) = Path(b, t)
    PROVE  JoinsTo(p, q, a, s, t)
    BY PathParts DEF Conversions!Join, Path, Both, JoinsTo

LEMMA JoinSettled ==
    ASSUME NEW a, NEW s, NEW b, NEW t, Conversions!Normalize(Path(a, s)) = Path(a, s),
           Conversions!Normalize(Path(b, t)) = Path(b, t)
    PROVE  JoinsTo(Path(a, s), Path(b, t), a, s, t)
<1> DEFINE p == Path(a, s)  q == Path(b, t)
<1>1. Conversions!Normalize(p) = Path(a, s) /\ Conversions!Normalize(q) = Path(b, t)
    OBVIOUS
<1> HIDE DEF p, q
<1>2. JoinsTo(p, q, a, s, t)
    BY <1>1, JoinOf
<1> QED
    BY <1>2 DEF p, q

\* join() of a normal path and of a relative one that is normal, with a separator
\* at its end or without.
JoinMakes(a, s, t, res) ==
    /\ Conversions!Bare(Conversions!Join(Path(a, s), Path(FALSE, t))) = Path(a, res)
    /\ Conversions!Bare(Conversions!Join(Path(a, s), Path(FALSE, Append(t, "")))) = Path(a, res)

LEMMA JoinIs ==
    ASSUME NEW a \in BOOLEAN, NEW up \in BOOLEAN, up = ~a, NEW s, Normal(s, up),
           NEW t, Normal(t, TRUE)
    PROVE  JoinMakes(a, s, t, Conversions!NormalizeString(Both(s, t), up))
<1> DEFINE S == Conversions!Segments  longer == Append(t, "")
<1>1. FALSE \in BOOLEAN /\ TRUE \in BOOLEAN /\ TRUE = ~FALSE
    OBVIOUS
<1>2. /\ Conversions!Normalize(Path(a, s)) = Path(a, s)
      /\ Conversions!Normalize(Path(FALSE, t)) = Path(FALSE, t)
      /\ Conversions!Normalize(Path(FALSE, longer)) = Path(FALSE, longer)
    BY <1>1, Settled
<1>3. s \in Seq(S) /\ t \in Seq(S) /\ "" \in S
    <2>1. s \in Seq(Steps) /\ t \in Seq(Steps)
        BY Normals
    <2> QED
        BY <2>1, StepsAreSegments DEF Conversions!Segments
<1> HIDE DEF S, longer
<1>4. /\ Conversions!Join(Path(a, s), Path(FALSE, t)) = Conversions!Normalize(Path(a, Both(s, t)))
      /\ Conversions!Join(Path(a, s), Path(FALSE, longer))
            = Conversions!Normalize(Path(a, Both(s, longer)))
    <2>1. Conversions!Join(Path(a, s), Path(FALSE, t)) = Conversions!Normalize(Path(a, Both(s, t)))
        <3> DEFINE b == FALSE
        <3>1. Conversions!Normalize(Path(b, t)) = Path(b, t)
            BY <1>2
        <3> HIDE DEF b
        <3>2. JoinsTo(Path(a, s), Path(b, t), a, s, t)
            BY <1>2, <3>1, JoinSettled
        <3> QED
            BY <3>2 DEF b, JoinsTo
    <2>2. Conversions!Join(Path(a, s), Path(FALSE, longer))
             = Conversions!Normalize(Path(a, Both(s, longer)))
        <3> DEFINE b == FALSE
        <3>1. Conversions!Normalize(Path(b, longer)) = Path(b, longer)
            BY <1>2
        <3> HIDE DEF b
        <3>2. JoinsTo(Path(a, s), Path(b, longer), a, s, longer)
            BY <1>2, <3>1, JoinSettled
        <3> QED
            BY <3>2 DEF b, JoinsTo
    <2> QED
        BY <2>1, <2>2
<1>5. Both(s, t) \in Seq(S)
    BY <1>3, Joins DEF Both
<1>6. Both(s, longer) = Append(Both(s, t), "")
    <2>1. \A e \in S : EndStays(s, t, e)
        <3>1. s \in Seq(S) /\ t \in Seq(S)
            BY <1>3
        <3> QED
            BY <3>1, LongerJoins, Zenon
    <2> QED
        BY <1>3, <2>1 DEF longer, EndStays
<1>7. Conversions!NormalizeString(Append(Both(s, t), ""), up)
         = Conversions!NormalizeString(Both(s, t), up)
      /\ Append(Both(s, t), "") \in Seq(S)
    BY <1>5, SeparatorAddsNothing, Zenon DEF S
<1>8. Conversions!Bare(Conversions!Normalize(Path(a, Both(s, t))))
         = Path(a, Conversions!NormalizeString(Both(s, t), up))
    BY <1>5, BareNormalized DEF S
<1>9. Conversions!Bare(Conversions!Normalize(Path(a, Append(Both(s, t), ""))))
         = Path(a, Conversions!NormalizeString(Append(Both(s, t), ""), up))
    BY <1>7, BareNormalized DEF S
<1> QED
    BY <1>4, <1>6, <1>7, <1>8, <1>9 DEF longer, JoinMakes

\* The last segment goes back to where it was.
LEMMA EndsJoin ==
    ASSUME NEW up, NEW s, Normal(s, up), s # <<>>
    PROVE  /\ Normal(SubSeq(s, 1, Len(s) - 1), up)
           /\ Normal(<<s[Len(s)]>>, TRUE)
           /\ Both(SubSeq(s, 1, Len(s) - 1), <<s[Len(s)]>>) = s
<1> DEFINE n == Len(s)  head == Start(s, n - 1)  tail == <<s[n]>>
<1>1. /\ s \in Seq(Steps)
      /\ \A i \in 2..n : s[i] = ".." => s[i - 1] = ".."
      /\ up \/ \A i \in 1..n : s[i] # ".."
    BY Normals
<1>2. n \in Nat /\ n # 0
    BY <1>1
<1>3. n - 1 \in 0..n /\ n \in 1..n
    BY <1>2
<1>4. head \in Seq(Steps) /\ Len(head) = n - 1 /\ \A i \in 1..(n - 1) : head[i] = s[i]
    BY <1>1, <1>3, Starts
<1>5. s = Append(head, s[n])
    <2>1. Start(s, n) = Append(head, s[n])
        BY <1>1, <1>3, StartGrows
    <2> QED
        BY <1>1, <2>1, StartEnds
<1>6. s[n] \in Steps
    BY <1>1, <1>3
<1> HIDE DEF n, head
<1>7. Normal(head, up)
    <2>1. \A i \in 2..(n - 1) : i \in 2..n /\ i \in 1..(n - 1) /\ i - 1 \in 1..(n - 1)
        BY <1>2
    <2>2. \A i \in 1..(n - 1) : i \in 1..n
        BY <1>2
    <2>3. \A i \in 2..(n - 1) : head[i] = ".." => head[i - 1] = ".."
        BY <1>1, <1>4, <2>1
    <2>4. up \/ \A i \in 1..(n - 1) : head[i] # ".."
        BY <1>1, <1>4, <2>2
    <2> QED
        BY <1>4, <2>3, <2>4, Normals
<1>8. Normal(tail, TRUE)
    <2>1. tail \in Seq(Steps) /\ Len(tail) = 1
        BY <1>6
    <2>2. \A i \in 2..Len(tail) : FALSE
        BY <2>1
    <2> QED
        BY <2>1, <2>2, Normals
<1>9. Both(head, tail) = s
    <2> DEFINE x == s[n]
    <2>1. head \o <<x>> = Append(head, x)
        <3> HIDE DEF x
        <3> QED
            BY <1>4, <1>6 DEF x
    <2> QED
        BY <1>5, <2>1 DEF Both
<1> QED
    BY <1>7, <1>8, <1>9 DEF Start, head, n

\* dirname() and basename() of a path make up that path.
LEMMA PartsJoin ==
    ASSUME NEW p \in [abs : BOOLEAN, segs : Seq(Conversions!Segments)]
    PROVE  Conversions!Bare(Conversions!Join(Conversions!Dirname(p), Conversions!Basename(p)))
              = Conversions!Bare(Conversions!Normalize(p))
<1> DEFINE a == p.abs  s == p.segs  up == ~a  res == Conversions!NormalizeString(s, up)
<1>1. /\ p = Path(a, s) /\ s \in Seq(Conversions!Segments)
      /\ a \in BOOLEAN /\ up \in BOOLEAN /\ up = ~a
    BY PathIs
<1> HIDE DEF a, s, up
<1>2. Normal(res, up) /\ Conversions!Bare(Conversions!Normalize(p)) = Path(a, res)
    BY <1>1, Normalized
<1> HIDE DEF res
<1> DEFINE head == IF res = <<>> THEN <<>> ELSE SubSeq(res, 1, Len(res) - 1)
           tail == IF res = <<>> THEN <<>> ELSE <<res[Len(res)]>>
<1>3. Normal(head, up) /\ Normal(tail, TRUE) /\ Both(head, tail) = res
    <2>1. CASE res = <<>>
        <3>1. Normal(<<>>, up) /\ Normal(<<>>, TRUE)
            BY DEF Normal
        <3>2. Both(<<>>, <<>>) = <<>>
            BY DEF Both
        <3> QED
            BY <2>1, <3>1, <3>2
    <2>2. CASE res # <<>>
        BY <1>2, <2>2, EndsJoin
    <2> QED
        BY <2>1, <2>2
<1>4. Conversions!Dirname(p) = Path(a, head)
    <2>1. Conversions!Dirname(p) = [Path(a, res) EXCEPT !.segs = head]
        BY <1>2, PathParts DEF Conversions!Dirname, Conversions!Front
    <2> HIDE DEF head
    <2>2. [Path(a, res) EXCEPT !.segs = head] = Path(a, head)
        BY DEF Path
    <2> QED
        BY <2>1, <2>2
<1>5. Conversions!Basename(p) = Path(FALSE, tail)
    <2>1. Conversions!Basename(p) = [abs |-> FALSE, segs |-> tail]
        <3>1. Conversions!Bare(Conversions!Normalize(p)).segs = res
            BY <1>2, PathParts
        <3> QED
            BY <3>1 DEF Conversions!Basename, Conversions!Last
    <2> QED
        BY <2>1 DEF Path
<1> HIDE DEF head, tail
<1>6. Conversions!Bare(Conversions!Join(Path(a, head), Path(FALSE, tail)))
         = Path(a, Conversions!NormalizeString(res, up))
    <2>1. JoinMakes(a, head, tail, Conversions!NormalizeString(Both(head, tail), up))
        <3>1. a \in BOOLEAN /\ up \in BOOLEAN /\ up = ~a
            BY <1>1
        <3>2. Normal(head, up) /\ Normal(tail, TRUE)
            BY <1>3
        <3> QED
            BY <3>1, <3>2, JoinIs
    <2> QED
        BY <1>3, <2>1 DEF JoinMakes
<1>7. Conversions!NormalizeString(res, up) = res
    BY <1>2, NormalStays
<1> QED
    BY <1>2, <1>4, <1>5, <1>6, <1>7

\* An absolute path, once it is normal, has names only.
LEMMA AbsoluteNames ==
    ASSUME NEW s, Normal(s, FALSE)
    PROVE  s \in Seq(Names)
<1>1. s \in Seq(Steps) /\ \A i \in 1..Len(s) : s[i] # ".."
    BY Normals
<1>2. Len(s) \in Nat /\ \A i \in 1..Len(s) : s[i] \in Steps
    BY <1>1
<1>3. \A i \in 1..Len(s) : s[i] \in Names
    BY <1>1, <1>2 DEF Steps
<1>4. s = [i \in 1..Len(s) |-> s[i]]
    BY <1>1
<1> QED
    BY <1>2, <1>3, <1>4

LEMMA OneTooMany ==
    ASSUME NEW n \in Nat, NEW m \in Nat, NEW k \in 0..n, k <= m + 1
    PROVE  /\ k <= m \/ (k \in 1..k /\ k \in 1..n /\ k = m + 1)
           /\ \A i \in 1..k : k <= m => i \in 1..m
    OBVIOUS

\* r is a way from the one path to the other, with a separator at its end or without.
Relates(r, f, t) ==
    \E k \in 0..Len(f) :
       /\ k <= Len(t) /\ \A i \in 1..k : f[i] = t[i]
       /\ \/ r = Path(FALSE, Way(f, t, k))
          \/ r = Path(FALSE, Append(Way(f, t, k), ""))

\* posixRelative(), of what posixNormalize() made of the two paths.
LEMMA RelativeIs ==
    ASSUME NEW p, NEW q, NEW f \in Seq(Names), NEW t \in Seq(Names), NEW tt,
           Conversions!Normalize(p) = Path(TRUE, f),
           Conversions!Normalize(q) = Path(TRUE, tt), tt = t \/ tt = Append(t, "")
    PROVE  Relates(Conversions!Relative(p, q), f, t)
<1> DEFINE S == Conversions!Segments
           k == Len(Conversions!LongestCommonPrefix({f, tt}))
<1>1. Names \subseteq S /\ "" \in S
    BY DEF Conversions!Segments
<1> HIDE DEF S
<1>2. f \in Seq(S) /\ t \in Seq(S)
    BY <1>1, Wider
<1>3. Append(t, "") \in Seq(S)
    BY <1>1, <1>2, Longer
<1>4. tt \in Seq(S)
    BY <1>2, <1>3
<1>5. k \in 0..Len(f) /\ k <= Len(tt) /\ \A i \in 1..k : f[i] = tt[i]
    BY <1>2, <1>4, CommonPart
<1>6. Conversions!Relative(p, q) = Path(FALSE, Way(f, tt, k))
    <2>1. Conversions!Normalize(p).segs = f /\ Conversions!Normalize(q).segs = tt
        <3>1. Path(TRUE, f).segs = f /\ Path(TRUE, tt).segs = tt
            BY DEF Path
        <3> QED
            BY <3>1, Zenon
    <2> QED
        BY <2>1, Zenon DEF Conversions!Relative, Path, Way
<1> HIDE DEF k
<1>7. k <= Len(t) /\ \A i \in 1..k : f[i] = t[i]
    <2>1. CASE tt = t
        BY <1>5, <2>1
    <2>2. CASE tt = Append(t, "")
        <3>1. Grown(tt, t, "", S)
            BY <1>1, <1>2, <2>2, LongerGrown
        <3>2. Len(tt) = Len(t) + 1 /\ tt[Len(t) + 1] = "" /\ \A i \in 1..Len(t) : tt[i] = t[i]
            BY <3>1 DEF Grown
        <3>3. Len(t) \in Nat /\ Len(f) \in Nat
            BY <1>2, LengthIsNat
        <3>4. k <= Len(t) + 1
            BY <1>5, <3>2, Zenon
        <3>5. /\ k <= Len(t) \/ (k \in 1..k /\ k \in 1..Len(f) /\ k = Len(t) + 1)
              /\ \A i \in 1..k : k <= Len(t) => i \in 1..Len(t)
            BY <1>5, <3>3, <3>4, OneTooMany, Zenon
        <3>6. k <= Len(t)
            <4> SUFFICES ASSUME k \in 1..k, k \in 1..Len(f), k = Len(t) + 1 PROVE FALSE
                BY <3>5
            <4>1. f[k] = tt[k]
                BY <1>5, Zenon
            <4>2. f[k] \in Names
                BY NamesThere, Zenon
            <4>3. tt[k] = ""
                BY <3>2
            <4> QED
                BY <4>1, <4>2, <4>3, NamesApart
        <3> QED
            BY <1>5, <3>2, <3>5, <3>6, Zenon
    <2> QED
        BY <2>1, <2>2
<1>8. Way(f, Append(t, ""), k) = Append(Way(f, t, k), "")
    BY <1>5, <1>7, WayWithSeparator
<1> QED
    BY <1>5, <1>6, <1>7, <1>8 DEF Relates

\* From one absolute path, the relative path leads to the other.
LEMMA RelativeLeads ==
    ASSUME NEW r, NEW f \in Seq(Names), NEW t \in Seq(Names), Relates(r, f, t)
    PROVE  Conversions!Bare(Conversions!Join(Path(TRUE, f), r)) = Path(TRUE, t)
<1>0. PICK k \in 0..Len(f) :
         /\ k <= Len(t) /\ \A i \in 1..k : f[i] = t[i]
         /\ \/ r = Path(FALSE, Way(f, t, k))
            \/ r = Path(FALSE, Append(Way(f, t, k), ""))
    BY DEF Relates
<1> DEFINE w == Way(f, t, k)
<1>1. Normal(f, FALSE)
    BY NamesAreNormal
<1>2. Normal(w, TRUE) /\ Conversions!NormalizeString(Both(f, w), FALSE) = t
    BY <1>0, WayLeads DEF Both
<1>3. TRUE \in BOOLEAN /\ FALSE \in BOOLEAN /\ FALSE = ~TRUE
    OBVIOUS
<1> HIDE DEF w
<1>4. JoinMakes(TRUE, f, w, Conversions!NormalizeString(Both(f, w), FALSE))
    BY <1>1, <1>2, <1>3, JoinIs
<1> QED
    BY <1>0, <1>2, <1>4 DEF w, JoinMakes

\* From the first path to the second and along, of either package.
LEMMA RelativesLead ==
    ASSUME NEW p \in [abs : BOOLEAN, segs : Seq(Conversions!Segments)],
           NEW q \in [abs : BOOLEAN, segs : Seq(Conversions!Segments)], p.abs, q.abs
    PROVE  /\ Conversions!Bare(Conversions!Join(Conversions!Bare(Conversions!Normalize(p)),
                                                Conversions!NodeRelative(p, q)))
                 = Conversions!Bare(Conversions!Normalize(q))
           /\ Conversions!Bare(Conversions!Normalize(p)) = Conversions!Normalize(p) =>
                 Conversions!Bare(Conversions!Join(p, Conversions!Relative(p, q)))
                    = Conversions!Bare(Conversions!Normalize(q))
<1> DEFINE f == Conversions!NormalizeString(p.segs, FALSE)
           t == Conversions!NormalizeString(q.segs, FALSE)
<1>1. TRUE \in BOOLEAN /\ FALSE \in BOOLEAN /\ FALSE = ~TRUE
    OBVIOUS
<1>2. /\ p = Path(TRUE, p.segs) /\ p.segs \in Seq(Conversions!Segments)
      /\ q = Path(TRUE, q.segs) /\ q.segs \in Seq(Conversions!Segments)
    <2>1. p.abs = TRUE /\ q.abs = TRUE
        OBVIOUS
    <2> QED
        BY <2>1, PathIs
<1>3. Normal(f, FALSE) /\ Conversions!Bare(Conversions!Normalize(p)) = Path(TRUE, f)
    BY <1>1, <1>2, Normalized
<1>4. /\ Normal(t, FALSE) /\ Conversions!Bare(Conversions!Normalize(q)) = Path(TRUE, t)
      /\ \/ Conversions!Normalize(q) = Path(TRUE, t)
         \/ Conversions!Normalize(q) = Path(TRUE, Append(t, ""))
    BY <1>1, <1>2, Normalized
<1> HIDE DEF f, t
<1>5. f \in Seq(Names) /\ t \in Seq(Names)
    BY <1>3, <1>4, AbsoluteNames
<1>6. /\ Conversions!Normalize(Path(TRUE, f)) = Path(TRUE, f)
      /\ Conversions!Normalize(Path(TRUE, t)) = Path(TRUE, t)
    BY <1>1, <1>3, <1>4, Settled
<1>7. Conversions!Bare(Conversions!Join(Conversions!Bare(Conversions!Normalize(p)),
                                        Conversions!NodeRelative(p, q)))
         = Conversions!Bare(Conversions!Normalize(q))
    <2> DEFINE r == Conversions!Relative(Path(TRUE, f), Path(TRUE, t))
    <2>1. Conversions!NodeRelative(p, q) = r
        BY <1>3, <1>4 DEF Conversions!NodeRelative
    <2>2. Relates(r, f, t)
        BY <1>5, <1>6, RelativeIs
    <2> HIDE DEF r
    <2>3. Conversions!Bare(Conversions!Join(Path(TRUE, f), r)) = Path(TRUE, t)
        BY <1>5, <2>2, RelativeLeads
    <2> QED
        BY <1>3, <1>4, <2>1, <2>3
<1>8. ASSUME Conversions!Bare(Conversions!Normalize(p)) = Conversions!Normalize(p)
      PROVE  Conversions!Bare(Conversions!Join(p, Conversions!Relative(p, q)))
                = Conversions!Bare(Conversions!Normalize(q))
    <2> DEFINE r == Conversions!Relative(p, q)
    <2>1. Conversions!Normalize(p) = Path(TRUE, f)
        BY <1>3, <1>8
    <2>2. PICK tt : Conversions!Normalize(q) = Path(TRUE, tt) /\ (tt = t \/ tt = Append(t, ""))
        BY <1>4
    <2>3. Relates(r, f, t)
        BY <1>5, <2>1, <2>2, RelativeIs
    <2> HIDE DEF r
    <2>4. Conversions!Bare(Conversions!Join(Path(TRUE, f), r)) = Path(TRUE, t)
        BY <1>5, <2>3, RelativeLeads
    <2>5. Conversions!Join(p, r) = Conversions!Join(Path(TRUE, f), r)
        BY <1>6, <2>1 DEF Conversions!Join
    <2> QED
        BY <1>4, <2>4, <2>5 DEF r
<1> QED
    BY <1>7, <1>8

-----------------------------------------------------------------------------
\* Two paths, the second one absolute, and some bytes.
ConversionsInv ==
    /\ from \in [abs : BOOLEAN, segs : Seq(Conversions!Segments)]
    /\ to \in [abs : BOOLEAN, segs : Seq(Conversions!Segments)] /\ to.abs = TRUE
    /\ bytes \in Seq(SampleBytes)

LEMMA SegmentMore ==
    ASSUME NEW S, NEW p \in [abs : BOOLEAN, segs : Seq(S)], NEW s \in S
    PROVE  /\ [p EXCEPT !.segs = Append(@, s)] \in [abs : BOOLEAN, segs : Seq(S)]
           /\ [p EXCEPT !.segs = Append(@, s)].abs = p.abs
    OBVIOUS

LEMMA ConversionsAlways == Conversions!Spec => []ConversionsInv
<1>1. Conversions!Init => ConversionsInv
    <2> SUFFICES ASSUME Conversions!Init PROVE ConversionsInv
        OBVIOUS
    <2>1. <<>> \in Seq(Conversions!Segments) /\ <<>> \in Seq(SampleBytes)
        OBVIOUS
    <2>2. from \in [abs : BOOLEAN, segs : {<<>>}] /\ bytes = <<>>
          /\ to = [abs |-> TRUE, segs |-> <<>>]
        BY DEF Conversions!Init
    <2>3. from \in [abs : BOOLEAN, segs : Seq(Conversions!Segments)]
        BY <2>1, <2>2
    <2>4. to \in [abs : BOOLEAN, segs : Seq(Conversions!Segments)] /\ to.abs = TRUE
        BY <2>1, <2>2
    <2> QED
        BY <2>1, <2>2, <2>3, <2>4 DEF ConversionsInv
<1>2. ASSUME ConversionsInv, [Conversions!Next]_(Conversions!vars)
      PROVE  ConversionsInv'
    <2>1. CASE UNCHANGED Conversions!vars
        BY <1>2, <2>1 DEF ConversionsInv, Conversions!vars
    <2>2. CASE \E s \in Conversions!Segments : from' = [from EXCEPT !.segs = Append(@, s)]
               /\ UNCHANGED <<to, bytes>>
        <3> DEFINE S == Conversions!Segments
        <3>1. PICK s \in S : from' = [from EXCEPT !.segs = Append(@, s)]
            BY <2>2
        <3>2. from \in [abs : BOOLEAN, segs : Seq(S)]
            BY <1>2 DEF ConversionsInv
        <3> HIDE DEF S
        <3>3. from' \in [abs : BOOLEAN, segs : Seq(S)] /\ from'.abs = from.abs
            BY <3>1, <3>2, SegmentMore
        <3> QED
            BY <1>2, <2>2, <3>3 DEF ConversionsInv, S
    <2>3. CASE \E s \in Conversions!Segments : to' = [to EXCEPT !.segs = Append(@, s)]
               /\ UNCHANGED <<from, bytes>>
        <3> DEFINE S == Conversions!Segments
        <3>1. PICK s \in S : to' = [to EXCEPT !.segs = Append(@, s)]
            BY <2>3
        <3>2. to \in [abs : BOOLEAN, segs : Seq(S)]
            BY <1>2 DEF ConversionsInv
        <3> HIDE DEF S
        <3>3. to' \in [abs : BOOLEAN, segs : Seq(S)] /\ to'.abs = to.abs
            BY <3>1, <3>2, SegmentMore
        <3> QED
            BY <1>2, <2>3, <3>3 DEF ConversionsInv, S
    <2>4. CASE \E b \in SampleBytes : bytes' = Append(bytes, b) /\ UNCHANGED <<from, to>>
        BY <1>2, <2>4 DEF ConversionsInv
    <2> QED
        BY <1>2, <2>1, <2>2, <2>3, <2>4 DEF Conversions!Next
<1> QED
    BY <1>1, <1>2, PTL DEF Conversions!Spec

\* The conversions agree with each other, for every path and whatever the bytes: what
\* normalising, cutting and relating paths of packages/xf-fs and xf-reactnative-fs
\* do, and their Base64, fit together.
THEOREM ConversionsAgree == Conversions!Spec => []ConversionsInvert
<1>1. ConversionsInv => ConversionsInvert
    <2> SUFFICES ASSUME ConversionsInv PROVE ConversionsInvert
        OBVIOUS
    <2>1. Conversions!Normalize(Conversions!Normalize(from)) = Conversions!Normalize(from)
        BY NormalizesOnce DEF ConversionsInv
    <2>2. Conversions!Bare(Conversions!Join(Conversions!Dirname(from), Conversions!Basename(from)))
             = Conversions!Bare(Conversions!Normalize(from))
        BY PartsJoin DEF ConversionsInv
    <2>3. from.abs =>
             /\ Conversions!Bare(Conversions!Join(Conversions!Bare(Conversions!Normalize(from)),
                                                  Conversions!NodeRelative(from, to)))
                   = Conversions!Bare(Conversions!Normalize(to))
             /\ Conversions!Bare(Conversions!Normalize(from)) = Conversions!Normalize(from) =>
                   Conversions!Bare(Conversions!Join(from, Conversions!Relative(from, to)))
                      = Conversions!Bare(Conversions!Normalize(to))
        BY RelativesLead DEF ConversionsInv
    <2>4. Conversions!FromBase64(Conversions!ToBase64(bytes)) = bytes
        <3>1. SampleBytes \subseteq Octets
            BY ConversionsAssumption DEF Octets
        <3>2. bytes \in Seq(Octets)
            BY <3>1, Wider DEF ConversionsInv
        <3> QED
            BY <3>2, Base64Inverts
    <2> QED
        BY <2>1, <2>2, <2>3, <2>4 DEF ConversionsInvert, Conversions!ConversionsInvert
<1> QED
    BY <1>1, ConversionsAlways, PTL
===============================================================================
