---------------------------- MODULE FileRepository ----------------------------
(***************************************************************************)
(* The file repositories: FileRepository.ts and AuditedFileRepository.ts   *)
(* of packages/xf-fs, over node:fs, and of packages/xf-reactnative-fs,     *)
(* over RNFS.  Several callers run operations on one small tree: the file  *)
(* top, and the file sub in the directory dir.  Contents have no value:    *)
(* what counts is which files are there and which have been lost.          *)
(***************************************************************************)
EXTENDS Naturals, FiniteSets

CONSTANTS
    Callers,    \* each has one operation outstanding
    Temps,      \* bound of the model: the temporary files there may be
    Mixes       \* bound of the model: the kinds of operations that run together

VARIABLES
    package,    \* xf-fs or xf-reactnative-fs
    audited,    \* is it the AuditedFileRepository?
    mix,        \* the kinds of operations in this behaviour
    files,      \* the files on the disk
    dir,        \* is the directory dir there?
    temps,      \* [Temps -> how far the temporary file has come]
    watching,   \* openWatchers, by the caller that has asked for them
    life,       \* "up"; what terminate() goes through: "watchers", "temps"; "down"
    todo,       \* the handles that terminate() has still to close
    late,       \* history: handles registered after terminate() had listed their kind
    op,         \* [Callers -> the outstanding operation]
    stays       \* history: the entries in place since a walk has begun

disk == <<files, dir>>
handles == <<temps, watching, life, todo, late>>
vars == <<package, audited, mix, disk, handles, op, stays>>

Paths == {"top", "sub"}
Entries == files \cup (IF dir THEN {"dir"} ELSE {})

Idle == [kind |-> "idle"]

Init ==
    /\ package \in {"xf-fs", "xf-reactnative-fs"}
    /\ audited \in BOOLEAN
    /\ mix \in Mixes
    /\ dir \in BOOLEAN
    /\ files \in SUBSET (IF dir THEN Paths ELSE {"top"})
    /\ temps = [t \in Temps |-> "none"]
    /\ watching = {}
    /\ life = "up"
    /\ todo = {}
    /\ late = {}
    /\ op = [c \in Callers |-> Idle]
    /\ stays = [c \in Callers |-> {}]

\* read stands for readBytes, stat and list, write for append, stream for
\* readStream and writeStream, rmrf for the recursive rmdir.  walk starts above dir;
\* copy and move are of a file, onto a file or to where there is nothing.
Requests ==
    [kind : {"read", "write", "delete", "exists", "stream", "watch"}, src : Paths, dest : {"none"}]
    \cup [kind : {"copy", "move"}, src : Paths, dest : Paths]
    \cup [kind : {"delete", "mkdir", "rmdir", "rmrf"}, src : {"dir"}, dest : {"none"}]
    \cup [kind : {"walk", "tempFile"}, src : {"none"}, dest : {"none"}]

Call(c) ==
    /\ op[c] = Idle
    /\ life = "up"
    /\ \E r \in {q \in Requests : q.kind \in mix} :
        /\ r.kind = "watch" => c \notin watching
        /\ op' = [op EXCEPT ![c] =
                     [kind |-> r.kind, src |-> r.src, dest |-> r.dest, at |-> "call",
                      err |-> "none", lost |-> {}, got |-> {},
                      temp |-> {}, heard |-> {}]]
    /\ UNCHANGED <<package, audited, mix, disk, handles>>

\* The part that a file p plays in an operation: what it writes, replaces or deletes,
\* or is told to copy or move onto itself, or finds in the directory that it removes.
Part(o, p) ==
    CASE p = o.dest -> IF p = o.src THEN "itself" ELSE "target"
      [] p = o.src /\ p # o.dest -> "target"
      [] OTHER -> "inside"

\* The operation has discarded the files ps, or their content.
Loses(o, ps) == [o EXCEPT !.lost = @ \cup {Part(o, p) : p \in ps}]

Go(c, at) == op[c] # Idle /\ op[c].at = at /\ UNCHANGED <<package, audited, mix>>
Become(c, o) == op' = [op EXCEPT ![c] = o]

-----------------------------------------------------------------------------
(* How an operation ends. *)

\* translateError().  (Under React Native ENOTEMPTY does not arise: its rmdir()
\* throws the exception itself.)
Translate(e) ==
    CASE e = "ENOENT" -> "FileNotFoundException"
      [] e = "EACCES" -> "FileAccessDeniedException"
      [] e = "ENOTEMPTY" -> "DirectoryNotEmptyException"
      [] OTHER -> e

\* The audited operation calls its hook on success, onError() on failure, but
\* exists() and the streams know only success.
Ended(o) == [o EXCEPT !.at = "ended", !.src = "none", !.dest = "none", !.temp = {}]
Done(o) == IF audited THEN [o EXCEPT !.at = "hook"] ELSE Ended(o)
FailRaw(o, e) ==
    LET failed == [o EXCEPT !.err = e, !.got = {}]
    IN  IF audited /\ o.kind \notin {"exists", "stream"} THEN [failed EXCEPT !.at = "onError"]
        ELSE Ended(failed)
Fail(o, e) == FailRaw(o, Translate(e))

\* The success hook; when it throws, the operation has failed.
Hook(c) ==
    /\ Go(c, "hook")
    /\ LET o == [op[c] EXCEPT !.heard = @ \cup {"success"}]
       IN  \/ Become(c, Ended(o))
           \/ Become(c, FailRaw(o, "hook"))
    /\ UNCHANGED <<disk, handles>>

\* Mutant: the error of the hook takes the place of the one it was called for.
OnErrorMasks(c) ==
    /\ Go(c, "onError")
    /\ \E e \in {op[c].err, "hook"} :
        Become(c, Ended([op[c] EXCEPT !.heard = @ \cup {"error"}, !.err = e]))
    /\ UNCHANGED <<disk, handles>>

\* onError() may throw: that is swallowed.
OnError(c) ==
    /\ Go(c, "onError")
    /\ Become(c, Ended([op[c] EXCEPT !.heard = @ \cup {"error"}]))
    /\ UNCHANGED <<disk, handles>>

Return(c) ==
    /\ Go(c, "ended")
    /\ Become(c, Idle)
    /\ UNCHANGED <<disk, handles>>
-----------------------------------------------------------------------------
(* What the file system makes of an operation.  Each step is one of its calls. *)

Node == package = "xf-fs"
Native == package = "xf-reactnative-fs"

Parent(p) == p = "sub" => dir

\* Why node:fs or RNFS must refuse an operation that is one call.
Missing(o) ==
    \/ o.kind \in {"read", "copy", "move"} /\ o.src \notin files
    \/ o.kind = "delete" /\ o.src \notin Entries
    \/ o.kind = "write" /\ ~Parent(o.src)
    \/ o.kind \in {"copy", "move"} /\ ~Parent(o.dest)
    \/ o.kind = "rmdir" /\ ~dir

\* The operations that are one call: under React Native all those that overwrite
\* or remove something make several.
OneCall(o) ==
    \/ o.kind \in {"read", "write", "mkdir"}
    \/ o.kind = "delete" /\ o.src \in Paths
    \/ Node /\ o.kind \in {"copy", "move", "rmdir"}

\* Mutant: the directory need not be empty.
RmdirRecursive(o) == ~Missing(o)

\* rmdir() by node:fs wants an empty directory.
Possible(o) == ~Missing(o) /\ (o.kind = "rmdir" => "sub" \notin files)

\* A file that is copied onto itself stays as it is.
Succeeds(c) ==
    LET o == op[c]
        discarded == CASE o.kind \in {"write", "delete"} -> files \cap {o.src}
                       [] o.kind \in {"copy", "move"} -> (files \cap {o.dest}) \ {o.src}
                       [] OTHER -> files \ files'
    IN  /\ Go(c, "call")
        /\ OneCall(o)
        /\ Possible(o)
        /\ files' = CASE o.kind = "write"  -> files \cup {o.src}
                      [] o.kind = "copy"   -> files \cup {o.dest}
                      [] o.kind = "move"   -> (files \ {o.src}) \cup {o.dest}
                      [] o.kind = "delete" -> files \ {o.src}
                      [] o.kind = "rmdir"  -> files \ {"sub"}
                      [] OTHER -> files
        /\ dir' = IF o.kind = "mkdir" THEN TRUE ELSE IF o.kind = "rmdir" THEN FALSE ELSE dir
        /\ Become(c, Done(Loses(o, discarded)))
        /\ UNCHANGED handles

\* It is refused: what it needs is not there, or access is denied, or mkdir() by
\* node:fs finds the directory there.
Refused(c) ==
    LET o == op[c]
    IN  /\ Go(c, "call")
        /\ OneCall(o)
        /\ \/ Missing(o) /\ Become(c, Fail(o, "ENOENT"))
           \/ ~Missing(o) /\ ~Possible(o) /\ Become(c, Fail(o, "ENOTEMPTY"))
           \/ Become(c, Fail(o, "EACCES"))
           \/ Node /\ o.kind = "mkdir" /\ dir /\ Become(c, Fail(o, "EEXIST"))
        /\ UNCHANGED <<disk, handles>>

\* A write or a copy stops half-way: what the file held is lost.
Breaks(c) ==
    LET o == op[c]
        target == IF o.kind = "write" THEN o.src ELSE o.dest
    IN  /\ Go(c, "call")
        /\ OneCall(o)
        /\ o.kind = "write" \/ (o.kind = "copy" /\ o.src # o.dest)
        /\ Possible(o)
        /\ files' = files \cup {target}
        /\ Become(c, Fail(Loses(o, files \cap {target}), "EIO"))
        /\ UNCHANGED <<dir, handles>>

\* exists() never rejects under node:fs, and under React Native as RNFS does.
Exists(c) ==
    /\ Go(c, "call")
    /\ op[c].kind = "exists"
    /\ \/ Become(c, Done(op[c]))
       \/ Native /\ \E e \in {"ENOENT", "EACCES", "EIO"} : Become(c, FailRaw(op[c], e))
    /\ UNCHANGED <<disk, handles>>

\* A stream is opened later, by its reader or writer.
Stream(c) ==
    /\ Go(c, "call")
    /\ op[c].kind = "stream" /\ Node
    /\ Become(c, Done(op[c]))
    /\ UNCHANGED <<disk, handles>>

\* React Native has neither streams nor watchers.
Unsupported(c) ==
    /\ Go(c, "call")
    /\ op[c].kind \in {"stream", "watch"} /\ Native
    /\ Become(c, FailRaw(op[c], "unsupported"))
    /\ UNCHANGED <<disk, handles>>

\* move() by node:fs over a device boundary: rename() fails with EXDEV, and copyFile()
\* and unlink() follow ...
AcrossDevices(c) ==
    LET o == op[c]
        copied == Loses(o, files \cap {o.dest})
    IN  /\ Node
        /\ o.kind = "move"
        /\ \/ /\ Go(c, "call")
              /\ Possible(o) /\ o.src # o.dest
              /\ Become(c, [o EXCEPT !.at = "transfer"])
              /\ UNCHANGED files
           \/ /\ Go(c, "transfer")
              /\ Possible(o)
              /\ files' = files \cup {o.dest}
              /\ Become(c, [copied EXCEPT !.at = "unlink"]) \/ Become(c, FailRaw(copied, "EIO"))
           \/ /\ Go(c, "unlink")
              /\ o.src \in files
              /\ files' = files \ {o.src}
              /\ Become(c, Done(o))
        /\ UNCHANGED <<dir, handles>>

\* ... whose errors are not translated.
AcrossDevicesFails(c) ==
    LET o == op[c]
    IN  /\ Node
        /\ o.kind = "move"
        /\ \/ (Go(c, "transfer") \/ Go(c, "unlink")) /\ Become(c, FailRaw(o, "EACCES"))
           \/ Go(c, "transfer") /\ ~Possible(o) /\ Become(c, FailRaw(o, "ENOENT"))
           \/ Go(c, "unlink") /\ o.src \notin files /\ Become(c, FailRaw(o, "ENOENT"))
        /\ UNCHANGED <<disk, handles>>

\* copy() and move() of React Native: the target is removed first, when it is seen
\* to exist, be it the source itself, and the file is transferred after that.
Transfer(c) ==
    LET o == op[c]
        replaced == Loses(o, (files \cap {o.dest}) \ {o.src})
    IN  /\ Native
        /\ o.kind \in {"copy", "move"}
        /\ \/ /\ Go(c, "call")
              /\ Become(c, [o EXCEPT !.at = IF o.dest \in files THEN "unlink" ELSE "transfer"])
              /\ UNCHANGED files
           \/ /\ Go(c, "unlink")
              /\ o.dest \in files
              /\ files' = files \ {o.dest}
              /\ Become(c, [Loses(o, {o.dest}) EXCEPT !.at = "transfer"])
           \/ /\ Go(c, "transfer")
              /\ ~Missing(o)
              /\ files' = (IF o.kind = "move" THEN files \ {o.src} ELSE files) \cup {o.dest}
              /\ \/ Become(c, Done(replaced))
                 \/ o.kind = "copy" /\ Become(c, Fail(replaced, "EIO"))
        /\ UNCHANGED <<dir, handles>>

TransferFails(c) ==
    LET o == op[c]
    IN  /\ Native
        /\ o.kind \in {"copy", "move"}
        /\ \/ /\ Go(c, "unlink")
              /\ Become(c, Fail(o, IF o.dest \in files THEN "EACCES" ELSE "ENOENT"))
           \/ /\ Go(c, "transfer")
              /\ \E e \in {"EACCES", "EEXIST"} \cup (IF Missing(o) THEN {"ENOENT"} ELSE {}) :
                     Become(c, Fail(o, e))
        /\ UNCHANGED <<disk, handles>>

\* rmdir() of React Native looks into the directory first ...
RmdirLooks(c) ==
    LET o == op[c]
    IN  /\ Go(c, "call")
        /\ Native
        /\ o.kind = "rmdir"
        /\ \/ ~dir /\ Become(c, Fail(o, "ENOENT"))
           \/ dir /\ Become(c, IF "sub" \in files THEN FailRaw(o, "DirectoryNotEmptyException")
                               ELSE [o EXCEPT !.at = "unlink", !.got = files \cap {"sub"}])
           \/ Become(c, Fail(o, "EACCES"))
        /\ UNCHANGED <<disk, handles>>

\* ... and the call that removes it takes whatever is in it by then; so do delete()
\* of a directory and the recursive rmdir().  It may stop with part of it gone.
RemoveNative(c) ==
    LET o == op[c]
    IN  /\ Go(c, IF op[c].kind = "rmdir" THEN "unlink" ELSE "call")
        /\ Native
        /\ o.kind \in {"rmdir", "rmrf"} \/ (o.kind = "delete" /\ o.src = "dir")
        /\ \/ /\ dir
              /\ files' = files \ {"sub"}
              /\ dir' = FALSE
              /\ Become(c, Done(Loses(o, files \cap {"sub"})))
           \/ /\ dir
              /\ files' = files \ {"sub"}
              /\ dir' = dir
              /\ Become(c, Fail(Loses(o, files \cap {"sub"}), "EACCES"))
           \/ /\ Become(c, Fail(o, IF dir THEN "EACCES" ELSE "ENOENT"))
              /\ UNCHANGED disk
        /\ UNCHANGED handles

\* The recursive rmdir() of node:fs removes one entry after the other and does not
\* mind that there is none; its delete() refuses a directory.
RemoveNode(c) ==
    LET o == op[c]
    IN  /\ Node
        /\ \/ /\ Go(c, "call")
              /\ o.kind = "delete" /\ o.src = "dir"
              /\ Become(c, Fail(o, IF dir THEN "EACCES" ELSE "ENOENT"))
              /\ UNCHANGED disk
           \/ /\ Go(c, "call")
              /\ o.kind = "rmrf"
              /\ files' = files \ {"sub"}
              /\ LET gone == Loses(o, files \cap {"sub"})
                 IN  Become(c, [gone EXCEPT !.at = "unlink"]) \/ Become(c, Fail(gone, "EACCES"))
              /\ UNCHANGED dir
           \/ /\ Go(c, "unlink")
              /\ o.kind = "rmrf"
              /\ dir' = (dir /\ "sub" \in files)
              /\ Become(c, IF dir' THEN Fail(o, "ENOTEMPTY") ELSE Done(o))
              /\ UNCHANGED files
        /\ UNCHANGED handles

\* Mutant: the entries of the inner directory take the place of the others.
CollectedInner(got, entries) == entries

\* walkInto() pushes onto one array.
Collected(got, entries) == got \cup entries

\* walk() reads its directory and then, if dir was in it, that one.
Walk(c) ==
    LET o == op[c]
    IN  /\ \/ /\ Go(c, "call")
              /\ o.kind = "walk"
              /\ LET seen == [o EXCEPT !.got = Entries \ {"sub"}]
                 IN  Become(c, IF dir THEN [seen EXCEPT !.at = "inside"] ELSE Done(seen))
           \/ /\ Go(c, "inside")
              /\ Become(c, IF dir THEN Done([o EXCEPT !.got = Collected(@, files \cap {"sub"})])
                           ELSE Fail(o, "ENOENT"))
        /\ UNCHANGED <<disk, handles>>
-----------------------------------------------------------------------------
(* Watchers and temporary files, and terminate(). *)

\* watch() of node:fs asks this.exists(), whose hook may throw; then, on Linux, stat()
\* and the watcher itself want the file once more, with errors not translated.
Watch(c) ==
    LET o == op[c]
    IN  /\ \/ /\ Go(c, "call")
              /\ o.kind = "watch" /\ Node
              /\ \/ o.src \in files /\ Become(c, [o EXCEPT !.at = "register"])
                 \/ o.src \notin files /\ Become(c, FailRaw(o, "FileNotFoundException"))
                 \/ audited /\ Become(c, FailRaw(o, "hook"))
              /\ UNCHANGED handles
           \/ /\ Go(c, "register")
              /\ o.kind = "watch"
              /\ o.src \in files
              /\ Become(c, Done(o))
              /\ watching' = watching \cup {c}
              /\ late' = IF life = "up" THEN late ELSE late \cup {c}
              /\ UNCHANGED <<temps, life, todo>>
           \/ /\ Go(c, "register")
              /\ o.kind = "watch"
              /\ o.src \notin files
              /\ Become(c, FailRaw(o, "ENOENT"))
              /\ UNCHANGED handles
        /\ UNCHANGED disk

\* WatcherImpl.close(), by whoever holds the watcher.
WatcherClose(c) ==
    /\ c \in watching
    /\ watching' = watching \ {c}
    /\ UNCHANGED <<package, audited, mix, disk, temps, life, todo, late, op>>

\* tempFile(): the file is written, which may fail ...
TempFile(c) ==
    LET o == op[c]
    IN  /\ Go(c, "call")
        /\ o.kind = "tempFile"
        /\ \/ \E t \in Temps :
                 /\ temps[t] = "none"
                 /\ temps' = [temps EXCEPT ![t] = "made"]
                 /\ Become(c, [o EXCEPT !.at = "register", !.temp = {t}])
           \/ Become(c, FailRaw(o, "EACCES")) /\ UNCHANGED temps
        /\ UNCHANGED <<disk, watching, life, todo, late>>

\* ... and then its handle is registered.
TempRegister(c) ==
    LET o == op[c]
    IN  /\ Go(c, "register")
        /\ o.kind = "tempFile"
        /\ Become(c, Done(o))
        /\ temps' = [t \in Temps |-> IF t \in o.temp THEN "open" ELSE temps[t]]
        /\ late' = IF life \in {"up", "watchers"} THEN late ELSE late \cup o.temp
        /\ UNCHANGED <<disk, watching, life, todo>>

\* TempFileImpl.close(), by whoever holds the handle: it is no longer registered.
TempClose(t) ==
    /\ temps[t] = "open"
    /\ temps' = [temps EXCEPT ![t] = "closing"]
    /\ UNCHANGED <<package, audited, mix, disk, watching, life, todo, late, op>>

\* Its unlink() succeeds or fails; nobody hears which.
Unlinked(t) ==
    /\ temps[t] \in {"closing", "ending"}
    /\ \E how \in {"gone", "stuck"} : temps' = [temps EXCEPT ![t] = how]
    /\ todo' = IF temps[t] = "ending" THEN todo \ {t} ELSE todo
    /\ UNCHANGED <<package, audited, mix, disk, watching, life, late, op>>

Open == {t \in Temps : temps[t] = "open"}

\* terminate() goes through the watchers there are, then through the temporary files
\* there are by then, one after the other.
Terminate ==
    /\ life = "up"
    /\ mix \cap {"watch", "tempFile"} # {}     \* else it has nothing to do
    /\ life' = "watchers"
    /\ todo' = watching
    /\ UNCHANGED <<package, audited, mix, disk, temps, watching, late, op>>

TerminateWatcher(c) ==
    /\ life = "watchers"
    /\ c \in todo
    /\ watching' = watching \ {c}
    /\ todo' = todo \ {c}
    /\ UNCHANGED <<package, audited, mix, disk, temps, life, late, op>>

TerminateNext ==
    /\ todo = {}
    /\ \/ life = "watchers" /\ life' = "temps" /\ todo' = Open
       \/ life = "temps" /\ life' = "down" /\ todo' = {}
    /\ UNCHANGED <<package, audited, mix, disk, temps, watching, late, op>>

\* Mutant: the temporary file is taken off the list and not closed.
TerminateTempForgets(t) ==
    /\ life = "temps"
    /\ t \in todo
    /\ todo' = todo \ {t}
    /\ UNCHANGED <<package, audited, mix, disk, temps, watching, life, late, op>>

\* One that its holder has closed needs nothing more.
TerminateTemp(t) ==
    /\ life = "temps"
    /\ t \in todo
    /\ \A u \in Temps : temps[u] # "ending"
    /\ \/ temps[t] = "open" /\ temps' = [temps EXCEPT ![t] = "ending"] /\ todo' = todo
       \/ temps[t] # "open" /\ todo' = todo \ {t} /\ temps' = temps
    /\ UNCHANGED <<package, audited, mix, disk, watching, life, late, op>>
-----------------------------------------------------------------------------

Step(c) ==
    \/ Call(c)
    \/ Succeeds(c)
    \/ Refused(c)
    \/ Breaks(c)
    \/ Exists(c)
    \/ Stream(c)
    \/ Unsupported(c)
    \/ AcrossDevices(c)
    \/ AcrossDevicesFails(c)
    \/ Transfer(c)
    \/ TransferFails(c)
    \/ RmdirLooks(c)
    \/ RemoveNative(c)
    \/ RemoveNode(c)
    \/ Walk(c)
    \/ Watch(c)
    \/ WatcherClose(c)
    \/ TerminateWatcher(c)
    \/ TempFile(c)
    \/ TempRegister(c)
    \/ Hook(c)
    \/ OnError(c)
    \/ Return(c)

\* What has been there all the time while a walk was under way.
Stays ==
    stays' = [c \in Callers |->
                 IF op'[c].kind # "walk" THEN {}
                 ELSE IF op[c].kind # "walk" THEN Entries ELSE stays[c] \cap Entries']

Next ==
    /\ \/ \E c \in Callers : Step(c)
       \/ \E t \in Temps : TempClose(t) \/ Unlinked(t) \/ TerminateTemp(t)
       \/ Terminate
       \/ TerminateNext
    /\ Stays

Spec == Init /\ [][Next]_vars

-----------------------------------------------------------------------------

Over == {c \in Callers : op[c].kind # "idle" /\ op[c].at = "ended"}

\* What an operation is there to overwrite or to remove.
Meant(o) ==
    CASE o.kind \in {"write", "copy", "move"} -> {"target"}
      [] o.kind = "delete" -> IF Node THEN {"target"} ELSE {"target", "inside"}
      [] o.kind = "rmrf" -> {"inside"}
      [] OTHER -> {}

\* What it may lose beyond that, under React Native: copy() and move() unlink a file that
\* they are to put onto itself, and a rmdir() that is not recursive takes what has come
\* into the directory since it saw it empty.
Overlooked(o) ==
    CASE o.kind \in {"copy", "move"} /\ Native -> {"itself"}
      [] o.kind = "rmdir" /\ Native /\ o.got = {} -> {"inside"}
      [] OTHER -> {}

\* An operation discards no file but those it is meant to, or overlooks.  And one that has
\* rejected has discarded none, but for the cases the code leaves open: the hook for the
\* success threw; a write or a copy broke off half-way; a move across devices had made its
\* copy; copy() and move() of React Native had unlinked the target; the removal of a
\* directory stopped half-way.  (What is written to the source of a move across devices
\* between its copy and its unlink goes with the source: files have no content here.)
NoFileLost ==
    \A c \in Over :
        LET o == op[c]
        IN  /\ o.lost \subseteq Meant(o) \cup Overlooked(o)
            /\ o.err \notin {"none", "hook"} /\ o.lost # {} =>
                  \/ o.kind \in {"write", "copy"} /\ o.err = "EIO"
                  \/ o.kind = "move" /\ Node /\ o.err \in {"EIO", "EACCES", "ENOENT"}
                  \/ o.kind \in {"copy", "move"} /\ Native
                  \/ o.lost = {"inside"}

\* Once terminate() has returned no watcher and no temporary file is left open that
\* was registered before terminate() went through its kind.
NothingOutlivesTerminate == life = "down" => watching \cup Open \subseteq late

Untranslated == {"ENOENT", "EACCES", "ENOTEMPTY"}

\* Every error of the file system that has an exception of its own reaches the caller
\* as that exception, except out of the second half of a move across devices, out of
\* tempFile(), out of the late steps of watch() and, under React Native, out of exists(),
\* which translates none.  And the audit hears how each
\* operation that it listens to ended: of its success alone when it resolved, of its
\* failure when it did not, of both when the hook for the success threw.
CallersKnowOutcome ==
    \A c \in Over :
        /\ op[c].err \in Untranslated =>
              \/ op[c].kind \in {"tempFile", "watch"}
              \/ op[c].kind = "move" /\ Node
              \/ op[c].kind = "exists" /\ Native
        /\ audited =>
              IF op[c].kind \in {"exists", "stream"}
              THEN "success" \in op[c].heard <=> op[c].err \in {"none", "hook"}
              ELSE CASE op[c].err = "none" -> op[c].heard = {"success"}
                     [] op[c].err = "hook" ->
                           \/ op[c].heard = {"success", "error"}
                           \/ op[c].kind = "watch" /\ op[c].heard = {"error"}
                     [] OTHER -> op[c].heard = {"error"}

\* A walk that resolves has seen every entry that was there from its call to its
\* return, whatever came and went meanwhile; it makes no promise on the others.
WalkSeesWhatStays ==
    \A c \in Over : op[c].kind = "walk" /\ op[c].err = "none" => stays[c] \subseteq op[c].got
=============================================================================
