------------------------------- MODULE MCFiles -------------------------------
(* What packages/xf-logger-file, xf-fs and xf-reactnative-fs do with files, side *)
(* by side, one of them per behaviour: the rotating tree, the file repositories, *)
(* the cache over them, and the conversions they rest on.                        *)
EXTENDS RotatingFileTree, TLC

CONSTANTS
    Callers, Temps, Mixes,
    textCache, bytesCache, Files, Dirs, Under, Renamed, MaxVersion, Silent, Halfway,
    Names, SampleBytes, MaxSegments, MaxLength

VARIABLES
    part,
    package, audited, mix, there, dir, temps, watching, life, todo, late, op, stays,
    disk, cache, pending, nextVersion, exposed,
    from, to, bytes

rotatingVars == vars
fileVars == <<package, audited, mix, there, dir, temps, watching, life, todo, late, op, stays>>
cacheVars == <<disk, cache, pending, nextVersion, exposed>>
conversionVars == <<from, to, bytes>>

ASSUME CachedAssumption ==
    /\ Under \in [Dirs -> SUBSET Files]
    /\ Renamed \in [Files -> Files]
    /\ MaxVersion \in Nat

\* What a segment is called, and what a byte may be.
ASSUME ConversionsAssumption ==
    /\ Names \cap {"", ".", ".."} = {}
    /\ SampleBytes \subseteq 0..255

CONSTANTS df, ef, folder

\* A directory with one file, and the path that file has once that is moved.
MCUnder == folder :> {df}
MCRenamed == [f \in {df, ef} |-> ef]

MCMixes ==
    { {"write", "delete", "copy", "move", "mkdir", "rmdir", "rmrf"},
      {"read", "exists", "stream", "walk", "write", "delete", "mkdir", "rmdir"},
      {"watch", "tempFile", "delete"} }

Symmetry == Permutations(Callers) \cup Permutations({textCache, bytesCache})

Plain == INSTANCE FileRepository WITH files <- there
Cached == INSTANCE CachedFileRepository WITH op <- pending
Conversions == INSTANCE FileConversions

MCInit ==
    /\ part \in {"rotating", "plain", "cached", "conversions"}
    /\ Init /\ Plain!Init /\ Cached!Init /\ Conversions!Init
    /\ part # "plain" =>
          package = "xf-fs" /\ ~audited /\ ~dir /\ there = {} /\ "walk" \in mix
    /\ part # "conversions" => ~from.abs

MCNext ==
    /\ UNCHANGED part
    /\ \/ part = "rotating" /\ Next /\ UNCHANGED <<fileVars, cacheVars, conversionVars>>
       \/ part = "plain" /\ Plain!Next /\ UNCHANGED <<rotatingVars, cacheVars, conversionVars>>
       \/ part = "cached" /\ Cached!Next
          /\ UNCHANGED <<rotatingVars, fileVars, conversionVars>>
       \/ part = "conversions" /\ Conversions!Next
          /\ UNCHANGED <<rotatingVars, fileVars, cacheVars>>

MCSpec == MCInit /\ [][MCNext]_<<part, rotatingVars, fileVars, cacheVars,
                              conversionVars>>

\* The properties of the instances; those of RotatingFileTree are in scope.
NoFileLost == Plain!NoFileLost
NothingOutlivesTerminate == Plain!NothingOutlivesTerminate
CallersKnowOutcome == Plain!CallersKnowOutcome
WalkSeesWhatStays == Plain!WalkSeesWhatStays
StaleOnlyIfExposed == Cached!StaleOnlyIfExposed
ConversionsInvert == Conversions!ConversionsInvert
=============================================================================
