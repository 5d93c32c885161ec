------------------------ MODULE ServerBusinessProofs ------------------------
(***************************************************************************)
(* LayersOutliveRequests, AnswersMatchWork, PortReleased and               *)
(* ContentTypeTellsEncoding, for any number of requests, of calls of       *)
(* listen() and of media types.                                            *)
(***************************************************************************)
EXTENDS ServerBusiness, SequenceTheorems, TLAPS

\* What the start-point may still have to do, named by its first step.
FromSignal == <<"signal">>
FromStarted == <<"onStarted", "signal">>
FromBind == <<"bind", "onStarted", "signal">>
FromPlugins == <<"plugins", "bind", "onStarted", "signal">>
FromListen == <<"listen", "onStarted", "signal">>
FromRejected == <<"listenRejected">>
FromA == <<"A.init", "listen", "onStarted", "signal">>
FromB == <<"B.init", "A.init", "listen", "onStarted", "signal">>
FromR == <<"R.init", "B.init", "A.init", "listen", "onStarted", "signal">>

\* The shutdown: in its course the second close(), in B.terminate() ...
EndR == <<"R.terminate">>
EndStopped == <<"onStopped", "R.terminate">>
EndDrain == <<"drain", "onStopped", "R.terminate">>
EndClose == <<"close", "onStopped", "R.terminate">>
EndB == <<"B.terminate", "close", "onStopped", "R.terminate">>
EndA == <<"A.terminate", "B.terminate", "close", "onStopped", "R.terminate">>

\* ... and the first, of a start-point that closes the server itself.
FirstStopped == <<"onStopped", "A.terminate", "B.terminate", "close", "onStopped", "R.terminate">>
FirstDrain ==
    <<"drain", "onStopped", "A.terminate", "B.terminate", "close", "onStopped", "R.terminate">>
FirstClose ==
    <<"close", "onStopped", "A.terminate", "B.terminate", "close", "onStopped", "R.terminate">>

Up == {FromListen, FromPlugins, FromBind, FromStarted, FromSignal, FromRejected}

-----------------------------------------------------------------------------
(* The invariant of the program. *)

AllLayers == {"R", "B", "A"}
Statuses == {"made", "bound", "closing", "closed"}

\* Nobody waits for an answer of the instance that listen() made last.
Quiet == kind # "udp" => \A r \in Requests : InFlight(r) => Leaked(job[r].instance)

\* The last instance has closed, or there has never been one.
Closed ==
    /\ handle = 0
    /\ servers # <<>> => servers[Len(servers)] = "closed"
    /\ Quiet

Starting ==
    /\ servers = <<>> /\ handle = 0 /\ route = "none"
    /\ \/ todo = <<>>
       \/ todo = FromR /\ layers = {}
       \/ todo = FromB /\ layers = {"R"}
       \/ todo = FromA /\ layers = {"R", "B"}

Serving ==
    /\ layers = AllLayers /\ handle = Len(servers)
    /\ \/ todo \in Up /\ route = "none"
       \/ todo = FirstClose /\ route = "close first"
       \/ todo = FirstDrain /\ route = "close first" /\ handle # 0

\* XF.terminate() without a close() before.
Ending ==
    /\ "R" \in layers /\ handle = Len(servers)
    /\ route = "terminate only"
    /\ todo \in {EndA, EndB, EndClose, <<>>} \/ (todo = EndDrain /\ handle # 0)

Ended ==
    /\ Closed
    /\ route \in {"close first", "terminate only"}
    /\ todo \in {FirstStopped, EndA, EndB, EndClose, EndStopped, EndR, <<>>}

ProgramInv == Starting \/ Serving \/ Ending \/ Ended

-----------------------------------------------------------------------------
(* The invariant of the requests. *)

Steps == {"collect", "connected", "onRequest", "service.onRequest", "inner.onRequest", "parse",
          "handler", "inner.onResponse", "serialize", "service.onResponse", "onResponse", "send",
          "inner.onError", "service.onError", "onError"}
Hooks == {"inner.onError", "service.onError", "onError"}
Causes == {"none", "before", "parse", "work"}
Outcomes == {"200", "400", "413", "500", "none", "as the hook says"}

Flights == [at : Steps, style : {"raw", "wrap", "object", "nested"}, instance : Nat,
            err : {"none", "Error", "BadRequestException"}, cause : Causes, told : Seq(Hooks),
            worked : BOOLEAN, by : {"handler", "hook", "errorToResponse"},
            label : {"none", "encoding", "default", "other spelling"}]

Answers == [at : {"answered"}, told : Seq(Hooks), worked : BOOLEAN, cause : Causes,
            answer : Outcomes]

Jobs == {Idle} \cup Flights \cup Answers

\* The hooks that have been told, from the inside out, and how far out.
InOrder(t) == \A i, k \in DOMAIN t : i < k => Level(t[i]) < Level(t[k])
UpTo(t, n) == \A i \in DOMAIN t : Level(t[i]) <= n

\* No step of the request has failed, and its handler is through.
Fine(j) == j.told = <<>> /\ j.err = "none" /\ j.by = "handler"
Through(j) == Fine(j) /\ j.worked

\* A hook up to this level has answered for what failed.
Hooked(j, n) == j.by = "hook" /\ UpTo(j.told, n)

\* What has been told and worked by the time the request is at a step ...
SoundFlight(j) ==
    /\ InOrder(j.told)
    /\ j.style = "raw" => j.at \notin {"service.onRequest", "parse", "service.onResponse",
                                       "serialize", "service.onError"}
    /\ j.style = "wrap" => j.at \notin {"parse", "serialize"}
    /\ j.style # "nested" => j.at \notin {"inner.onRequest", "inner.onResponse", "inner.onError"}
    /\ j.at \in {"collect", "connected", "onRequest", "service.onRequest", "inner.onRequest",
                 "parse", "handler"} => Fine(j) /\ ~j.worked
    /\ j.at \in {"inner.onResponse", "serialize"} => Through(j)
    /\ j.at = "service.onResponse" => Through(j) \/ (j.style = "nested" /\ Hooked(j, 1))
    /\ j.at = "onResponse" => Through(j) \/ Hooked(j, 2)
    /\ j.at = "send" => Through(j) \/ j.by # "handler"
    /\ j.at = "inner.onError" => UpTo(j.told, 1) /\ j.err # "none"
    /\ j.at = "service.onError" => UpTo(j.told, 2) /\ j.err # "none"
    /\ j.at = "onError" => j.err # "none"
    /\ j.err # "none" /\ j.worked => j.cause = "work"

\* ... and when it is answered.
SoundAnswer(j) ==
    /\ InOrder(j.told)
    /\ j.answer = "200" => j.worked /\ j.told = <<>>
    /\ j.answer = "400" /\ j.worked => j.cause = "work"

Sound(j) == (j \in Flights => SoundFlight(j)) /\ (j \in Answers => SoundAnswer(j))

TypeInv ==
    /\ kind \in {"http", "tcp", "udp", "grpc"}
    /\ servers \in Seq(Statuses)
    /\ handle \in 0..Len(servers)
    /\ job \in [Requests -> Jobs]

JobsInv ==
    \A r \in Requests :
        /\ Sound(job[r])
        /\ InFlight(r) => job[r].instance \in DOMAIN servers

Inv == TypeInv /\ JobsInv /\ ProgramInv

-----------------------------------------------------------------------------
(* What is left to do. *)

LEMMA Starts ==
    /\ FromR # <<>> /\ Head(FromR) = "R.init" /\ Tail(FromR) = FromB
    /\ FromB # <<>> /\ Head(FromB) = "B.init" /\ Tail(FromB) = FromA
    /\ FromA # <<>> /\ Head(FromA) = "A.init" /\ Tail(FromA) = FromListen
    /\ FromListen # <<>> /\ Head(FromListen) = "listen" /\ Tail(FromListen) = FromStarted
    /\ FromPlugins # <<>> /\ Head(FromPlugins) = "plugins" /\ Tail(FromPlugins) = FromBind
    /\ FromBind # <<>> /\ Head(FromBind) = "bind" /\ Tail(FromBind) = FromStarted
    /\ FromStarted # <<>> /\ Head(FromStarted) = "onStarted" /\ Tail(FromStarted) = FromSignal
    /\ FromSignal # <<>> /\ Head(FromSignal) = "signal"
    /\ FromRejected # <<>> /\ Head(FromRejected) = "listenRejected"
<1> USE DEF FromR, FromB, FromA, FromListen, FromPlugins, FromBind, FromStarted, FromSignal,
            FromRejected
<1>1. /\ FromR # <<>> /\ Head(FromR) = "R.init" /\ Tail(FromR) = FromB
      /\ FromB # <<>> /\ Head(FromB) = "B.init" /\ Tail(FromB) = FromA
      /\ FromA # <<>> /\ Head(FromA) = "A.init" /\ Tail(FromA) = FromListen
    OBVIOUS
<1>2. FromListen # <<>> /\ Head(FromListen) = "listen" /\ Tail(FromListen) = FromStarted
    OBVIOUS
<1>4. /\ FromPlugins # <<>> /\ Head(FromPlugins) = "plugins" /\ Tail(FromPlugins) = FromBind
      /\ FromBind # <<>> /\ Head(FromBind) = "bind" /\ Tail(FromBind) = FromStarted
    OBVIOUS
<1>3. /\ FromStarted # <<>> /\ Head(FromStarted) = "onStarted" /\ Tail(FromStarted) = FromSignal
      /\ FromSignal # <<>> /\ Head(FromSignal) = "signal"
      /\ FromRejected # <<>> /\ Head(FromRejected) = "listenRejected"
    OBVIOUS
<1> QED
    BY <1>1, <1>2, <1>3, <1>4

LEMMA Ends ==
    /\ FirstClose # <<>> /\ Head(FirstClose) = "close" /\ Tail(FirstClose) = FirstStopped
    /\ FirstDrain # <<>> /\ Head(FirstDrain) = "drain" /\ Tail(FirstDrain) = FirstStopped
    /\ FirstStopped # <<>> /\ Head(FirstStopped) = "onStopped" /\ Tail(FirstStopped) = EndA
    /\ EndA # <<>> /\ Head(EndA) = "A.terminate" /\ Tail(EndA) = EndB
    /\ EndB # <<>> /\ Head(EndB) = "B.terminate" /\ Tail(EndB) = EndClose
    /\ EndClose # <<>> /\ Head(EndClose) = "close" /\ Tail(EndClose) = EndStopped
    /\ EndDrain # <<>> /\ Head(EndDrain) = "drain" /\ Tail(EndDrain) = EndStopped
    /\ EndStopped # <<>> /\ Head(EndStopped) = "onStopped" /\ Tail(EndStopped) = EndR
    /\ EndR # <<>> /\ Head(EndR) = "R.terminate" /\ Tail(EndR) = <<>>
<1> USE DEF FirstClose, FirstDrain, FirstStopped, EndA, EndB, EndClose, EndDrain, EndStopped, EndR
<1>1. /\ FirstClose # <<>> /\ Head(FirstClose) = "close" /\ Tail(FirstClose) = FirstStopped
      /\ FirstDrain # <<>> /\ Head(FirstDrain) = "drain" /\ Tail(FirstDrain) = FirstStopped
    OBVIOUS
<1>2. /\ FirstStopped # <<>> /\ Head(FirstStopped) = "onStopped" /\ Tail(FirstStopped) = EndA
      /\ EndA # <<>> /\ Head(EndA) = "A.terminate" /\ Tail(EndA) = EndB
      /\ EndB # <<>> /\ Head(EndB) = "B.terminate" /\ Tail(EndB) = EndClose
    OBVIOUS
<1>3. /\ EndClose # <<>> /\ Head(EndClose) = "close" /\ Tail(EndClose) = EndStopped
      /\ EndDrain # <<>> /\ Head(EndDrain) = "drain" /\ Tail(EndDrain) = EndStopped
    OBVIOUS
<1>4. /\ EndStopped # <<>> /\ Head(EndStopped) = "onStopped" /\ Tail(EndStopped) = EndR
      /\ EndR # <<>> /\ Head(EndR) = "R.terminate" /\ Tail(EndR) = <<>>
    OBVIOUS
<1> QED
    BY <1>1, <1>2, <1>3, <1>4

Names == {"bind", "onStarted", "signal", "plugins", "listenRejected", "drain", "close",
          "onStopped", "A.terminate", "B.terminate", "R.terminate"}

\* The first close() is not the second.
LEMMA Distinct ==
    FirstClose # EndClose /\ FirstDrain # EndDrain /\ FirstStopped # EndStopped
<1>1. FirstStopped # EndStopped
    BY Ends
<1> QED
    BY <1>1, Ends

LEMMA HeadAndTail ==
    ASSUME NEW S, NEW t \in Seq(S), t # <<>>
    PROVE  <<Head(t)>> \o Tail(t) = t
<1>1. Len(t) \in Nat /\ Len(t) > 0 /\ Head(t) = t[1]
    OBVIOUS
<1>2. 1 \in 1..Len(t) /\ Len(t) \in 1..Len(t)
    BY <1>1
<1>3. SubSeq(t, 1, Len(t)) = <<t[1]>> \o SubSeq(t, 2, Len(t))
    BY <1>2, SubSeqRecursiveFirst
<1> QED
    BY <1>1, <1>3, SubSeqFull, TailIsSubSeq

LEMMA NamesConcat ==
    \A s, t, u \in Seq(Names) : (s \o t) \o u = s \o (t \o u)
<1> SUFFICES ASSUME NEW s \in Seq(Names), NEW t \in Seq(Names), NEW u \in Seq(Names)
             PROVE  (s \o t) \o u = s \o (t \o u)
    OBVIOUS
<1> QED
    BY ConcatAssociative, SMTT(60)

\* What listen(), close() and the signal put in front of what was left to do.
LEMMA Insertions ==
    /\ <<>> \o <<"bind">> \o FromStarted = FromBind
    /\ <<"plugins">> \o <<"bind">> \o FromStarted = FromPlugins
    /\ <<"drain">> \o FirstStopped = FirstDrain
    /\ <<"drain">> \o EndStopped = EndDrain
    /\ <<>> \o FirstStopped = FirstStopped
    /\ <<>> \o EndStopped = EndStopped
    /\ <<"close", "onStopped">> \o EndA = FirstClose
    /\ <<>> \o EndA = EndA
<1>1. /\ FromStarted \in Seq(Names) /\ FromBind \in Seq(Names) /\ FromPlugins \in Seq(Names)
      /\ FirstDrain \in Seq(Names) /\ EndDrain \in Seq(Names) /\ FirstStopped \in Seq(Names)
      /\ EndStopped \in Seq(Names) /\ FirstClose \in Seq(Names) /\ EndA \in Seq(Names)
    <2>1. FromStarted \in Seq(Names) /\ FromBind \in Seq(Names) /\ FromPlugins \in Seq(Names)
        BY DEF FromStarted, FromBind, FromPlugins, Names
    <2>2. FirstDrain \in Seq(Names)
        BY DEF FirstDrain, Names
    <2>3. FirstStopped \in Seq(Names)
        BY DEF FirstStopped, Names
    <2>4. FirstClose \in Seq(Names)
        BY DEF FirstClose, Names
    <2>5. EndDrain \in Seq(Names) /\ EndStopped \in Seq(Names)
        BY DEF EndDrain, EndStopped, Names
    <2>6. EndA \in Seq(Names)
        BY DEF EndA, Names
    <2> QED
        BY <2>1, <2>2, <2>3, <2>4, <2>5, <2>6
<1>2. /\ <<"bind">> \o FromStarted = FromBind /\ <<"plugins">> \o FromBind = FromPlugins
      /\ <<"drain">> \o FirstStopped = FirstDrain /\ <<"drain">> \o EndStopped = EndDrain
      /\ <<"onStopped">> \o EndA = FirstStopped /\ <<"close">> \o FirstStopped = FirstClose
    <2>1. <<"bind">> \o FromStarted = FromBind /\ <<"plugins">> \o FromBind = FromPlugins
        BY <1>1, Starts, HeadAndTail, Zenon
    <2>2. <<"drain">> \o FirstStopped = FirstDrain /\ <<"drain">> \o EndStopped = EndDrain
        BY <1>1, Ends, HeadAndTail, Zenon
    <2>3. <<"onStopped">> \o EndA = FirstStopped /\ <<"close">> \o FirstStopped = FirstClose
        BY <1>1, Ends, HeadAndTail, Zenon
    <2> QED
        BY <2>1, <2>2, <2>3
<1>3. /\ <<"bind">> \in Seq(Names) /\ <<"plugins">> \in Seq(Names) /\ <<"close">> \in Seq(Names)
      /\ <<"onStopped">> \in Seq(Names)
    BY DEF Names
<1>4. <<>> \o <<"bind">> = <<"bind">>
    BY <1>3, ConcatEmptySeq
<1>5. (<<"plugins">> \o <<"bind">>) \o FromStarted = <<"plugins">> \o (<<"bind">> \o FromStarted)
    BY <1>1, <1>3, NamesConcat, SMTT(30)
<1>6. <<"close", "onStopped">> = <<"close">> \o <<"onStopped">>
    <2>1. <<"close", "onStopped">> \in Seq(Names) /\ <<"close", "onStopped">> # <<>>
        BY DEF Names
    <2>2. Head(<<"close", "onStopped">>) = "close" /\ Tail(<<"close", "onStopped">>) = <<"onStopped">>
        OBVIOUS
    <2> QED
        BY <2>1, <2>2, HeadAndTail, Zenon
<1>7. (<<"close">> \o <<"onStopped">>) \o EndA = <<"close">> \o (<<"onStopped">> \o EndA)
    BY <1>1, <1>3, NamesConcat, SMTT(30)
<1>8. <<>> \o FirstStopped = FirstStopped /\ <<>> \o EndStopped = EndStopped /\ <<>> \o EndA = EndA
    BY <1>1, ConcatEmptySeq
<1> QED
    BY <1>2, <1>4, <1>5, <1>6, <1>7, <1>8, Zenon

\* Each first step, and what there is to do when it is taken.
LEMMA TodoOf ==
    ASSUME ProgramInv, todo # <<>>
    PROVE  /\ Head(todo) = "R.init" => todo = FromR
           /\ Head(todo) = "B.init" => todo = FromB
           /\ Head(todo) = "A.init" => todo = FromA
           /\ Head(todo) = "listen" => todo = FromListen
           /\ Head(todo) = "plugins" => todo = FromPlugins
           /\ Head(todo) = "bind" => todo = FromBind
           /\ Head(todo) = "onStarted" => todo = FromStarted
           /\ Head(todo) = "signal" => todo = FromSignal
           /\ Head(todo) = "listenRejected" => todo = FromRejected
           /\ Head(todo) = "close" => todo \in {FirstClose, EndClose}
           /\ Head(todo) = "drain" => todo \in {FirstDrain, EndDrain}
           /\ Head(todo) = "onStopped" => todo \in {FirstStopped, EndStopped}
           /\ Head(todo) = "A.terminate" => todo = EndA
           /\ Head(todo) = "B.terminate" => todo = EndB
           /\ Head(todo) = "R.terminate" => todo = EndR
<1>1. todo \in Up \cup {FromR, FromB, FromA, FirstClose, FirstDrain, FirstStopped,
                       EndA, EndB, EndClose, EndDrain, EndStopped, EndR}
    BY DEF ProgramInv, Starting, Serving, Ending, Ended
<1> QED
    BY <1>1, Starts, Ends DEF Up

\* How far the start-point has come, told from what it has still to do.
LEMMA Where ==
    ASSUME ProgramInv
    PROVE  /\ todo \in {FromR, FromB, FromA} => Starting
           /\ todo \in Up => Serving /\ route = "none"
           /\ todo \in {FirstClose, FirstDrain} => Serving /\ route = "close first"
           /\ todo \in {EndA, EndB, EndClose} => Ending \/ Ended
           /\ todo = EndDrain => Ending
           /\ todo \in {FirstStopped, EndStopped, EndR} => Ended
<1> DEFINE starts == {"R.init", "B.init", "A.init"}
           ups == {"listen", "plugins", "bind", "onStarted", "signal", "listenRejected"}
<1>1. /\ FromR # <<>> /\ FromB # <<>> /\ FromA # <<>>
      /\ FirstClose # <<>> /\ FirstDrain # <<>> /\ FirstStopped # <<>>
      /\ EndA # <<>> /\ EndB # <<>> /\ EndClose # <<>> /\ EndDrain # <<>> /\ EndStopped # <<>>
      /\ EndR # <<>> /\ \A t \in Up : t # <<>> /\ Head(t) \in ups
    BY Starts, Ends DEF Up
<1>2. Starting => todo = <<>> \/ Head(todo) \in starts
    BY Starts DEF Starting
<1>3. Serving => \/ todo \in Up /\ route = "none"
                 \/ todo \in {FirstClose, FirstDrain} /\ route = "close first"
    BY DEF Serving
<1>4. Ending => todo = <<>> \/ Head(todo) \in {"A.terminate", "B.terminate", "close", "drain"}
    BY Ends DEF Ending
<1>5. Ended => todo = <<>> \/ Head(todo) \in {"A.terminate", "B.terminate", "close", "onStopped",
                                              "R.terminate"}
    BY Ends DEF Ended
<1>a. /\ FirstClose \notin {EndA, EndB, EndDrain, EndStopped, EndR, FirstStopped}
      /\ FirstDrain \notin {EndA, EndB, EndClose, EndStopped, EndR, FirstStopped}
    BY Ends
<1>b. FirstClose # EndClose /\ FirstDrain # EndDrain
    BY Distinct
<1>6. ASSUME Ending, todo \in {FirstClose, FirstDrain} PROVE FALSE
    <2>1. todo \in {EndA, EndB, EndClose, EndDrain, <<>>}
        BY <1>6 DEF Ending
    <2> QED
        BY <2>1, <1>1, <1>6, <1>a, <1>b
<1>7. ASSUME Ended, todo \in {FirstClose, FirstDrain} PROVE FALSE
    <2>1. todo \in {FirstStopped, EndA, EndB, EndClose, EndStopped, EndR, <<>>}
        BY <1>7 DEF Ended
    <2> QED
        BY <2>1, <1>1, <1>7, <1>a, <1>b
<1>8. ASSUME Serving, todo \in {FromR, FromB, FromA, EndA, EndB, EndClose, EndDrain, FirstStopped,
                                EndStopped, EndR}
      PROVE  FALSE
    <2>1. Head(todo) \notin ups
        BY <1>8, Starts, Ends
    <2>2. todo \in {FirstClose, FirstDrain}
        BY <1>1, <1>3, <1>8, <2>1
    <2>3. Head(todo) \in {"close", "drain"}
        BY <2>2, Ends
    <2>4. todo \in {EndClose, EndDrain}
        BY <1>8, <2>3, Starts, Ends
    <2> QED
        BY <2>2, <2>4, <1>a, <1>b
<1>9. todo \in {FromR, FromB, FromA} => Starting
    BY <1>1, <1>4, <1>5, <1>8, Starts DEF ProgramInv
<1>10. todo \in Up => Serving /\ route = "none"
    <2>1. ASSUME todo \in Up PROVE Serving
        BY <1>1, <1>2, <1>4, <1>5, <2>1 DEF ProgramInv
    <2>2. ASSUME todo \in Up PROVE todo \notin {FirstClose, FirstDrain}
        BY <1>1, <2>2, Ends
    <2> QED
        BY <2>1, <2>2, <1>3
<1>11. todo \in {FirstClose, FirstDrain} => Serving /\ route = "close first"
    <2>1. ASSUME todo \in {FirstClose, FirstDrain} PROVE Serving
        BY <1>1, <1>2, <1>6, <1>7, <2>1, Ends DEF ProgramInv
    <2>2. ASSUME todo \in Up PROVE todo \notin {FirstClose, FirstDrain}
        BY <1>1, <2>2, Ends
    <2> QED
        BY <2>1, <2>2, <1>3
<1>12. todo \in {EndA, EndB, EndClose, EndDrain, FirstStopped, EndStopped, EndR} =>
           todo # <<>> /\ ~Starting /\ ~Serving
    BY <1>1, <1>2, <1>8, Ends
<1>13. todo = EndDrain => ~Ended
    BY <1>1, <1>5, Ends
<1>14. todo \in {FirstStopped, EndStopped, EndR} => ~Ending
    BY <1>1, <1>4, Ends
<1> QED
    BY <1>9, <1>10, <1>11, <1>12, <1>13, <1>14 DEF ProgramInv

LEMMA LayerOfFacts ==
    /\ DOMAIN LayerOf = {"R.init", "B.init", "A.init", "A.terminate", "B.terminate", "R.terminate"}
    /\ LayerOf["R.init"] = "R" /\ LayerOf["B.init"] = "B" /\ LayerOf["A.init"] = "A"
    /\ LayerOf["R.terminate"] = "R" /\ LayerOf["B.terminate"] = "B" /\ LayerOf["A.terminate"] = "A"
BY DEF LayerOf, Rises, Falls

-----------------------------------------------------------------------------
(* The start-point keeps the invariant. *)

\* Requests do not notice a step that leaves them alone and the instances there.
LEMMA JobsStay ==
    ASSUME TypeInv, JobsInv, UNCHANGED job, Len(servers) <= Len(servers'),
           servers' \in Seq(Statuses)
    PROVE  JobsInv'
<1>1. DOMAIN servers \subseteq DOMAIN servers'
    BY DEF TypeInv
<1> QED
    BY <1>1 DEF JobsInv, InFlight

LEMMA QuietStays ==
    ASSUME TypeInv, JobsInv, Quiet, UNCHANGED <<job, kind>>, Len(servers) <= Len(servers'),
           servers' \in Seq(Statuses)
    PROVE  Quiet'
<1>1. ASSUME NEW r \in Requests, InFlight(r), job[r].instance < Len(servers)
      PROVE  job[r].instance < Len(servers')
    BY <1>1 DEF TypeInv, JobsInv
<1> QED
    BY <1>1 DEF Quiet, Leaked, InFlight

LEMMA LayerInv == ASSUME Inv, Layer PROVE Inv'
<1>1. UNCHANGED <<kind, route, servers, handle, crashed, job>> /\ todo' = Tail(todo)
    BY DEF Layer
<1>2. TypeInv' /\ JobsInv' /\ (Quiet => Quiet')
    BY <1>1 DEF Inv, TypeInv, JobsInv, InFlight, Quiet, Leaked
<1>3. PICK step \in DOMAIN LayerOf :
          /\ todo # <<>> /\ Head(todo) = step
          /\ layers' = IF step \in Rises THEN layers \cup {LayerOf[step]} ELSE layers \ {LayerOf[step]}
    BY DEF Layer, At
<1>4. CASE step \in Rises
    <2>a. /\ step = "R.init" => todo = FromR
          /\ step = "B.init" => todo = FromB
          /\ step = "A.init" => todo = FromA
        BY <1>3, TodoOf DEF Inv
    <2>b. layers' = layers \cup {LayerOf[step]} /\ step \in {"R.init", "B.init", "A.init"}
        BY <1>3, <1>4 DEF Rises
    <2>1. \/ todo = FromR /\ layers' = layers \cup {"R"}
          \/ todo = FromB /\ layers' = layers \cup {"B"}
          \/ todo = FromA /\ layers' = layers \cup {"A"}
        BY <2>a, <2>b, LayerOfFacts
    <2>2. Starting /\ Len(servers) = 0
        BY <2>1, Where DEF Inv, Starting
    <2>3. \/ todo' = FromB /\ layers' = {"R"}
          \/ todo' = FromA /\ layers' = {"R", "B"}
          \/ todo' = FromListen /\ layers' = AllLayers
        BY <1>1, <2>1, <2>2, Starts DEF Starting, AllLayers
    <2> QED
        BY <1>1, <1>2, <2>2, <2>3 DEF Inv, ProgramInv, Starting, Serving, Up
<1>5. CASE step \in Falls
    <2>a. /\ step = "A.terminate" => todo = EndA
          /\ step = "B.terminate" => todo = EndB
          /\ step = "R.terminate" => todo = EndR
        BY <1>3, TodoOf DEF Inv
    <2>b. layers' = layers \ {LayerOf[step]} /\ step \in {"A.terminate", "B.terminate", "R.terminate"}
        BY <1>3, <1>5 DEF Falls, Rises
    <2>1. \/ todo = EndA /\ layers' = layers \ {"A"}
          \/ todo = EndB /\ layers' = layers \ {"B"}
          \/ todo = EndR
        BY <2>a, <2>b, LayerOfFacts
    <2>2. (Ending /\ todo \in {EndA, EndB}) \/ Ended
        BY <2>1, Where DEF Inv, Starting
    <2>3. (todo = EndA => todo' = EndB) /\ (todo = EndB => todo' = EndClose) /\ (todo = EndR => todo' = <<>>)
        BY <1>1, Ends
    <2>4. CASE Ending /\ todo \in {EndA, EndB}
        BY <1>1, <1>2, <2>1, <2>3, <2>4, Ends DEF Inv, ProgramInv, Ending
    <2>5. CASE Ended
        BY <1>1, <1>2, <2>1, <2>3, <2>5 DEF Inv, ProgramInv, Ended, Closed
    <2> QED
        BY <2>2, <2>4, <2>5
<1> QED
    BY <1>3, <1>4, <1>5 DEF LayerOf

LEMMA RegisterInv == ASSUME Inv, Register PROVE Inv'
BY DEF Register, program, Inv, TypeInv, JobsInv, InFlight, ProgramInv, Starting, Serving, Ending,
       Ended, Closed, Quiet, Leaked

LEMMA RejectsInv == ASSUME Inv, Rejects PROVE Inv'
<1>1. UNCHANGED <<kind, route, servers, handle, crashed, job>>
    BY DEF Rejects
<1>2. TypeInv' /\ JobsInv' /\ (Quiet => Quiet')
    BY <1>1 DEF Inv, TypeInv, JobsInv, InFlight, Quiet, Leaked
<1>3. PICK step \in DOMAIN LayerOf \cup {"plugins", "bind", "onStarted", "onStopped"} :
          /\ todo # <<>> /\ Head(todo) = step
          /\ layers' = IF step \in Falls THEN layers \ {LayerOf[step]} ELSE layers
          /\ todo' = IF step \in {"plugins", "bind", "onStarted"} THEN <<"listenRejected">> ELSE <<>>
    BY DEF Rejects, At
<1>4. CASE step \in {"plugins", "bind", "onStarted"}
    <2>a. todo \in {FromPlugins, FromBind, FromStarted}
        BY <1>3, <1>4, TodoOf DEF Inv
    <2>1. todo' = FromRejected /\ layers' = layers
        BY <1>3, <1>4 DEF FromRejected, Falls
    <2>2. Serving /\ route = "none"
        BY <2>a, Where DEF Inv, Up
    <2> QED
        BY <1>1, <1>2, <2>1, <2>2 DEF Inv, ProgramInv, Serving, Up
<1>5. CASE step \in Rises
    <2>a. /\ step = "R.init" => todo = FromR
          /\ step = "B.init" => todo = FromB
          /\ step = "A.init" => todo = FromA
        BY <1>3, TodoOf DEF Inv
    <2>1. step \in {"R.init", "B.init", "A.init"} /\ todo' = <<>>
        BY <1>3, <1>5 DEF Rises
    <2>2. Starting
        BY <2>a, <2>1, Where DEF Inv
    <2> QED
        BY <1>1, <1>2, <2>1, <2>2 DEF Inv, ProgramInv, Starting
<1>6. CASE step \in Falls \cup {"onStopped"}
    <2>a. /\ step = "A.terminate" => todo = EndA
          /\ step = "B.terminate" => todo = EndB
          /\ step = "R.terminate" => todo = EndR
          /\ step = "onStopped" => todo \in {EndStopped, FirstStopped}
        BY <1>3, TodoOf DEF Inv
    <2>b. step \in {"A.terminate", "B.terminate", "R.terminate", "onStopped"} /\ todo' = <<>>
        BY <1>3, <1>6 DEF Falls
    <2>c. step \in {"A.terminate", "B.terminate"} => ("R" \in layers => "R" \in layers')
        BY <1>3, LayerOfFacts DEF Falls
    <2>1. todo \in {EndA, EndB} => ("R" \in layers => "R" \in layers')
        BY <1>3, <2>b, <2>c, Ends
    <2>2. (Ending /\ todo \in {EndA, EndB}) \/ Ended
        BY <2>a, <2>b, Where DEF Inv
    <2>4. CASE Ending /\ todo \in {EndA, EndB}
        BY <1>1, <1>2, <2>1, <2>b, <2>4 DEF Inv, ProgramInv, Ending
    <2>5. CASE Ended
        BY <1>1, <1>2, <2>b, <2>5 DEF Inv, ProgramInv, Ended, Closed
    <2> QED
        BY <2>2, <2>4, <2>5
<1> QED
    BY <1>3, <1>4, <1>5, <1>6 DEF LayerOf

LEMMA RetryInv == ASSUME Inv, Retry PROVE Inv'
<1>1. UNCHANGED <<kind, route, layers, servers, handle, crashed, job>> /\ todo' = FromListen
    BY DEF Retry, FromListen
<1>2. todo = FromRejected
    BY TodoOf DEF Inv, Retry, At
<1>3. Serving /\ route = "none"
    BY <1>2, Where DEF Inv, Up
<1>4. TypeInv' /\ JobsInv'
    BY <1>1 DEF Inv, TypeInv, JobsInv, InFlight
<1> QED
    BY <1>1, <1>3, <1>4 DEF Inv, ProgramInv, Serving, Up

LEMMA ListenInv == ASSUME Inv, Listen PROVE Inv'
<1>1. /\ UNCHANGED <<kind, route, layers, crashed, job>>
      /\ servers' = Append(servers, "made") /\ handle' = Len(servers) + 1
    BY DEF Listen
<1>2. todo = FromListen
    BY TodoOf DEF Inv, Listen, At
<1>3. Serving /\ route = "none"
    BY <1>2, Where DEF Inv, Up
<1>4. todo' \in {FromPlugins, FromBind}
    BY <1>2, Starts, Insertions DEF Listen
<1>5. servers' \in Seq(Statuses) /\ Len(servers') = Len(servers) + 1 /\ Len(servers) \in Nat
    BY <1>1, AppendProperties DEF Inv, TypeInv, Statuses
<1>6. TypeInv' /\ JobsInv'
    BY <1>1, <1>5, JobsStay DEF Inv, TypeInv
<1> QED
    BY <1>1, <1>3, <1>4, <1>5, <1>6 DEF Inv, ProgramInv, Serving, Up

LEMMA MountInv == ASSUME Inv, Mount PROVE Inv'
<1>1. UNCHANGED <<kind, route, layers, servers, handle, crashed, job>> /\ todo' = Tail(todo)
    BY DEF Mount
<1>2. todo = FromPlugins
    BY TodoOf DEF Inv, Mount, At
<1>3. Serving /\ route = "none" /\ todo' = FromBind
    BY <1>1, <1>2, Where, Starts DEF Inv, Up
<1>4. TypeInv' /\ JobsInv'
    BY <1>1 DEF Inv, TypeInv, JobsInv, InFlight
<1> QED
    BY <1>1, <1>3, <1>4 DEF Inv, ProgramInv, Serving, Up

\* An instance that changes its status is still there, and so are the others.
LEMMA StatusTypes ==
    ASSUME TypeInv, NEW status \in Statuses,
           servers' = [servers EXCEPT ![handle] = status]
    PROVE  /\ servers' \in Seq(Statuses) /\ Len(servers') = Len(servers)
           /\ handle # 0 => servers'[handle] = status
<1>1. servers \in [1..Len(servers) -> Statuses] /\ Len(servers) \in Nat
    BY DEF TypeInv
<1>2. servers' \in [1..Len(servers) -> Statuses]
    BY <1>1
<1>3. servers' \in Seq(Statuses)
    BY <1>1, <1>2, IsASeq
<1>4. Len(servers') = Len(servers)
    BY <1>1, <1>2, <1>3, LenProperties
<1>5. handle # 0 => handle \in 1..Len(servers)
    BY <1>1 DEF TypeInv
<1> QED
    BY <1>1, <1>3, <1>4, <1>5

LEMMA BindInv == ASSUME Inv, Bind PROVE Inv'
<1>1. /\ UNCHANGED <<kind, route, layers, handle, crashed, job>> /\ todo' = Tail(todo)
      /\ servers' = [servers EXCEPT ![handle] = "bound"]
    BY DEF Bind
<1>2. todo = FromBind
    BY TodoOf DEF Inv, Bind, At
<1>3. Serving /\ route = "none" /\ todo' = FromStarted
    BY <1>1, <1>2, Where, Starts DEF Inv, Up
<1>4. servers' \in Seq(Statuses) /\ Len(servers') = Len(servers) /\ Len(servers) \in Nat
    BY <1>1, StatusTypes DEF Inv, Statuses, TypeInv
<1>5. TypeInv' /\ JobsInv'
    BY <1>1, <1>4, JobsStay DEF Inv, TypeInv
<1> QED
    BY <1>1, <1>3, <1>4, <1>5 DEF Inv, ProgramInv, Serving, Up

LEMMA HookInv == ASSUME Inv, Hook PROVE Inv'
<1>1. UNCHANGED <<kind, route, layers, servers, handle, crashed, job>> /\ todo' = Tail(todo)
    BY DEF Hook
<1>2. TypeInv' /\ JobsInv' /\ (Quiet => Quiet')
    BY <1>1 DEF Inv, TypeInv, JobsInv, InFlight, Quiet, Leaked
<1>3. todo \in {FromStarted, FirstStopped, EndStopped}
    BY TodoOf DEF Inv, Hook, At
<1>4. CASE todo = FromStarted
    <2>1. Serving /\ route = "none" /\ todo' = FromSignal
        BY <1>1, <1>4, Where, Starts DEF Inv, Up
    <2> QED
        BY <1>1, <1>2, <2>1 DEF Inv, ProgramInv, Serving, Up
<1>5. CASE todo \in {FirstStopped, EndStopped}
    <2>1. Ended /\ todo' \in {EndA, EndR}
        BY <1>1, <1>5, Where, Ends DEF Inv
    <2> QED
        BY <1>1, <1>2, <2>1 DEF Inv, ProgramInv, Ended, Closed
<1> QED
    BY <1>3, <1>4, <1>5

LEMMA SignalInv == ASSUME Inv, Signal PROVE Inv'
<1>1. UNCHANGED <<kind, layers, servers, handle, crashed, job>>
    BY DEF Signal
<1>2. TypeInv' /\ JobsInv'
    BY <1>1 DEF Inv, TypeInv, JobsInv, InFlight
<1>3. todo = FromSignal
    BY TodoOf DEF Inv, Signal, At
<1>4. Serving
    BY <1>3, Where DEF Inv, Up
<1>5. \/ route' = "close first" /\ todo' = FirstClose
      \/ route' = "terminate only" /\ todo' = EndA
    BY Insertions DEF Signal, EndA
<1> QED
    BY <1>1, <1>2, <1>4, <1>5 DEF Inv, ProgramInv, Serving, Ending, AllLayers

\* Where no instance was made no request is in flight.
LEMMA NothingMade == Inv /\ Len(servers) = 0 => Quiet /\ servers = <<>>
<1> SUFFICES ASSUME Inv, Len(servers) = 0
             PROVE  Quiet /\ servers = <<>>
    OBVIOUS
<1>1. DOMAIN servers = {} /\ servers = <<>>
    BY DEF Inv, TypeInv
<1>2. \A r \in Requests : ~InFlight(r)
    BY <1>1 DEF Inv, JobsInv
<1> QED
    BY <1>1, <1>2 DEF Quiet

LEMMA CloseInv == ASSUME Inv, Close PROVE Inv'
<1>1. UNCHANGED <<kind, route, layers, handle, crashed, job>>
    BY DEF Close
<1>2. todo \in {FirstClose, EndClose}
    BY TodoOf DEF Inv, Close, At
<1>3. CASE handle = 0
    <2>1. servers' = servers /\ todo' = <<>> \o Tail(todo)
        BY <1>3 DEF Close
    <2>2. todo' = IF todo = FirstClose THEN FirstStopped ELSE EndStopped
        BY <1>2, <2>1, Ends, Insertions
    <2>3. TypeInv' /\ JobsInv' /\ (Quiet => Quiet')
        BY <1>1, <2>1 DEF Inv, TypeInv, JobsInv, InFlight, Quiet, Leaked
    <2>4. Closed /\ route \in {"close first", "terminate only"}
        <3>1. CASE Serving /\ todo = FirstClose
            BY <1>3, <3>1, Where, NothingMade DEF Inv, Serving, Closed
        <3>2. CASE Ending
            BY <1>3, <3>2, NothingMade DEF Ending, Closed
        <3>3. CASE Ended
            BY <3>3 DEF Ended
        <3> QED
            BY <1>2, <3>1, <3>2, <3>3, Where DEF Inv
    <2> QED
        BY <1>1, <2>1, <2>2, <2>3, <2>4 DEF Inv, ProgramInv, Ended, Closed
<1>4. CASE handle # 0
    <2>1. servers' = [servers EXCEPT ![handle] = "closing"] /\ todo' = <<"drain">> \o Tail(todo)
        BY <1>4 DEF Close
    <2>2. (todo = FirstClose => todo' = FirstDrain) /\ (todo = EndClose => todo' = EndDrain)
        BY <1>2, <2>1, Ends, Insertions
    <2>3. servers' \in Seq(Statuses) /\ Len(servers') = Len(servers) /\ Len(servers) \in Nat
        BY <2>1, StatusTypes DEF Inv, Statuses, TypeInv
    <2>4. TypeInv' /\ JobsInv'
        BY <1>1, <2>3, JobsStay DEF Inv, TypeInv
    <2>5. CASE todo = FirstClose
        BY <1>1, <1>4, <2>2, <2>3, <2>4, <2>5, Where DEF Inv, ProgramInv, Serving
    <2>6. CASE todo = EndClose
        BY <1>1, <1>4, <2>2, <2>3, <2>4, <2>6, Where DEF Inv, ProgramInv, Ending, Ended, Closed
    <2> QED
        BY <1>2, <2>5, <2>6
<1> QED
    BY <1>3, <1>4

-----------------------------------------------------------------------------
(* What becomes of a request. *)

\* The request j is in flight; a step makes k of it.
Follows(j, k) ==
    /\ k \in Jobs /\ Sound(k)
    /\ k \in Answers \/ (k \in Flights /\ k.instance = j.instance)

LEMMA Kinds ==
    /\ \A j \in Flights : j \notin Answers /\ j.at \notin {"idle", "answered"}
    /\ \A j \in Answers : j \notin Flights /\ j.at = "answered"
    /\ Idle \notin Flights /\ Idle \notin Answers /\ Idle.at = "idle"
<1>1. \A j \in Flights : j.at \notin {"idle", "answered"}
    BY DEF Flights, Steps
<1>2. \A j \in Answers : j.at = "answered"
    BY DEF Answers
<1>3. Idle.at = "idle"
    BY DEF Idle
<1> QED
    BY <1>1, <1>2, <1>3

LEMMA Flying ==
    ASSUME TypeInv, JobsInv, NEW r \in Requests
    PROVE  /\ InFlight(r) <=> job[r] \in Flights
           /\ job[r] \in Jobs /\ Sound(job[r])
           /\ InFlight(r) => SoundFlight(job[r]) /\ job[r].instance \in DOMAIN servers
BY Kinds DEF TypeInv, JobsInv, Jobs, InFlight, Sound

\* An answer that goes with what was told and done.
LEMMA AnsweredSound ==
    ASSUME NEW j \in Flights, SoundFlight(j), NEW answer \in Outcomes,
           answer = "200" => j.worked /\ j.told = <<>>,
           answer = "400" /\ j.worked => j.cause = "work"
    PROVE  Follows(j, Answered(j, answer))
<1>1. Answered(j, answer) \in Answers
    BY DEF Answered, Answers, Flights
<1>2. SoundAnswer(Answered(j, answer))
    BY DEF Answered, SoundAnswer, SoundFlight
<1> QED
    BY <1>1, <1>2, Kinds DEF Follows, Sound, Jobs

\* One request steps and the program does not.
LEMMA RequestSteps ==
    ASSUME Inv, NEW r \in Requests, InFlight(r), NEW k, Put(r, k), Follows(job[r], k)
    PROVE  Inv'
<1>1. UNCHANGED <<kind, todo, route, layers, servers, handle>> /\ job' = [job EXCEPT ![r] = k]
    BY DEF Put, program
<1>2. k \in Jobs /\ Sound(k)
    BY DEF Follows
<1>3. job' \in [Requests -> Jobs] /\ job'[r] = k /\ \A q \in Requests \ {r} : job'[q] = job[q]
    BY <1>1, <1>2 DEF Inv, TypeInv
<1>4. TypeInv'
    BY <1>1, <1>3 DEF Inv, TypeInv
<1>5. InFlight(r)' => job'[r].instance = job[r].instance
    BY <1>3, Kinds DEF InFlight, Follows
<1>6. JobsInv'
    <2>1. ASSUME NEW q \in Requests, q # r
          PROVE  /\ Sound(job[q])'
                 /\ InFlight(q)' => job'[q].instance \in DOMAIN servers'
        BY <1>1, <1>3, <2>1 DEF Inv, JobsInv, InFlight
    <2>2. Sound(job[r])'
        BY <1>2, <1>3
    <2>3. InFlight(r)' => job'[r].instance \in DOMAIN servers'
        BY <1>1, <1>5, Flying DEF Inv
    <2> QED
        BY <2>1, <2>2, <2>3 DEF JobsInv
<1>7. Quiet => Quiet'
    BY <1>1, <1>3, <1>5 DEF Quiet, Leaked, InFlight
<1>8. ProgramInv'
    BY <1>1, <1>7 DEF Inv, ProgramInv, Starting, Serving, Ending, Ended, Closed
<1> QED
    BY <1>4, <1>6, <1>8 DEF Inv

LEMMA DrainedInv == ASSUME Inv, Drained PROVE Inv'
<1> DEFINE On(r) == InFlight(r) /\ job[r].instance = handle
           Channel(r) == On(r) /\ job[r].at = "connected"
<1>1. /\ UNCHANGED <<kind, route, layers, crashed>> /\ todo' = Tail(todo) /\ handle' = 0
      /\ servers' = [servers EXCEPT ![handle] = "closed"]
      /\ job' = [r \in Requests |-> IF Channel(r) THEN Answered(job[r], "none") ELSE job[r]]
      /\ \A r \in Requests : On(r) => kind = "udp" \/ (kind = "http" /\ Channel(r))
    BY DEF Drained
<1>2. todo \in {FirstDrain, EndDrain}
    BY TodoOf DEF Inv, Drained, At
<1>3. handle = Len(servers) /\ handle # 0 /\ route \in {"close first", "terminate only"}
    <2>1. CASE todo = FirstDrain
        BY <2>1, Where, Distinct, Ends, Starts DEF Inv, Serving, Up
    <2>2. CASE todo = EndDrain
        BY <2>2, Where, Ends DEF Inv, Ending
    <2> QED
        BY <1>2, <2>1, <2>2
<1>4. todo' \in {FirstStopped, EndStopped}
    BY <1>1, <1>2, Ends
<1>5. servers' \in Seq(Statuses) /\ Len(servers') = Len(servers) /\ servers'[Len(servers')] = "closed"
    BY <1>1, <1>3, StatusTypes DEF Inv, Statuses
<1>6. ASSUME NEW r \in Requests
      PROVE  /\ job'[r] \in Jobs /\ Sound(job'[r])
             /\ InFlight(r)' => InFlight(r) /\ job'[r] = job[r] /\ ~Channel(r)
    <2>1. CASE Channel(r)
        <3>1. Follows(job[r], job'[r]) /\ job'[r].at = "answered"
            BY <1>1, <2>1, Flying, AnsweredSound DEF Inv, Answered, Outcomes
        <3> QED
            BY <3>1 DEF Follows, InFlight
    <2>2. CASE ~Channel(r)
        BY <1>1, <2>2, Flying DEF Inv, InFlight
    <2> QED
        BY <2>1, <2>2
<1>7. TypeInv'
    <2>1. job' \in [Requests -> Jobs]
        BY <1>1, <1>6
    <2>2. Len(servers') \in Nat
        BY <1>5
    <2>3. handle' \in 0..Len(servers')
        BY <1>1, <2>2
    <2>4. kind' \in {"http", "tcp", "udp", "grpc"}
        BY <1>1 DEF Inv, TypeInv
    <2> QED
        BY <1>5, <2>1, <2>3, <2>4 DEF TypeInv
<1>8. JobsInv'
    BY <1>5, <1>6, Flying DEF Inv, JobsInv, TypeInv
<1>9. Quiet'
    <2> SUFFICES ASSUME kind # "udp", NEW r \in Requests, InFlight(r)'
                 PROVE  job'[r].instance < Len(servers')
        BY <1>1 DEF Quiet, Leaked
    <2>1. InFlight(r) /\ job'[r] = job[r] /\ ~On(r)
        BY <1>1, <1>6
    <2>2. DOMAIN servers = 1..Len(servers) /\ Len(servers) \in Nat
        BY DEF Inv, TypeInv
    <2>3. job[r].instance \in DOMAIN servers /\ job[r].instance # handle
        BY <2>1, Flying DEF Inv
    <2> QED
        <3>1. \A n \in Nat : \A i \in 1..n : i # n => i < n
            OBVIOUS
        <3> QED
            BY <1>3, <1>5, <2>1, <2>2, <2>3, <3>1, Zenon
<1> QED
    BY <1>1, <1>3, <1>4, <1>5, <1>7, <1>8, <1>9 DEF Inv, ProgramInv, Ended, Closed

-----------------------------------------------------------------------------
(* The steps of the requests. *)

\* The step behind each step of a path.
LEMMA AfterFacts ==
    ASSUME NEW j
    PROVE  /\ j.style = "raw" =>
                  /\ j.at = "onRequest" => After(j) = "handler"
                  /\ j.at = "handler" => After(j) = "onResponse"
                  /\ j.at = "onResponse" => After(j) = "send"
           /\ j.style = "wrap" =>
                  /\ j.at = "onRequest" => After(j) = "service.onRequest"
                  /\ j.at = "service.onRequest" => After(j) = "handler"
                  /\ j.at = "handler" => After(j) = "service.onResponse"
                  /\ j.at = "service.onResponse" => After(j) = "onResponse"
                  /\ j.at = "onResponse" => After(j) = "send"
           /\ j.style = "object" =>
                  /\ j.at = "onRequest" => After(j) = "service.onRequest"
                  /\ j.at = "service.onRequest" => After(j) = "parse"
                  /\ j.at = "parse" => After(j) = "handler"
                  /\ j.at = "handler" => After(j) = "service.onResponse"
                  /\ j.at = "service.onResponse" => After(j) = "serialize"
                  /\ j.at = "serialize" => After(j) = "onResponse"
                  /\ j.at = "onResponse" => After(j) = "send"
           /\ j.style = "nested" =>
                  /\ j.at = "onRequest" => After(j) = "service.onRequest"
                  /\ j.at = "service.onRequest" => After(j) = "inner.onRequest"
                  /\ j.at = "inner.onRequest" => After(j) = "parse"
                  /\ j.at = "parse" => After(j) = "handler"
                  /\ j.at = "handler" => After(j) = "inner.onResponse"
                  /\ j.at = "inner.onResponse" => After(j) = "serialize"
                  /\ j.at = "serialize" => After(j) = "service.onResponse"
                  /\ j.at = "service.onResponse" => After(j) = "onResponse"
                  /\ j.at = "onResponse" => After(j) = "send"
<1>1. ASSUME j.style = "raw"
      PROVE  /\ j.at = "onRequest" => After(j) = "handler"
             /\ j.at = "handler" => After(j) = "onResponse"
             /\ j.at = "onResponse" => After(j) = "send"
    BY <1>1 DEF After, Path
<1>2. ASSUME j.style = "wrap"
      PROVE  /\ j.at = "onRequest" => After(j) = "service.onRequest"
             /\ j.at = "service.onRequest" => After(j) = "handler"
             /\ j.at = "handler" => After(j) = "service.onResponse"
             /\ j.at = "service.onResponse" => After(j) = "onResponse"
             /\ j.at = "onResponse" => After(j) = "send"
    BY <1>2 DEF After, Path
<1>3. ASSUME j.style = "object"
      PROVE  /\ j.at = "onRequest" => After(j) = "service.onRequest"
             /\ j.at = "service.onRequest" => After(j) = "parse"
             /\ j.at = "parse" => After(j) = "handler"
             /\ j.at = "handler" => After(j) = "service.onResponse"
             /\ j.at = "service.onResponse" => After(j) = "serialize"
             /\ j.at = "serialize" => After(j) = "onResponse"
             /\ j.at = "onResponse" => After(j) = "send"
    BY <1>3 DEF After, Path
<1>4. ASSUME j.style = "nested"
      PROVE  /\ j.at = "onRequest" => After(j) = "service.onRequest"
             /\ j.at = "service.onRequest" => After(j) = "inner.onRequest"
             /\ j.at = "inner.onRequest" => After(j) = "parse"
             /\ j.at = "parse" => After(j) = "handler"
             /\ j.at = "handler" => After(j) = "inner.onResponse"
             /\ j.at = "inner.onResponse" => After(j) = "serialize"
             /\ j.at = "serialize" => After(j) = "service.onResponse"
             /\ j.at = "service.onResponse" => After(j) = "onResponse"
             /\ j.at = "onResponse" => After(j) = "send"
    BY <1>4 DEF After, Path
<1> QED
    BY <1>1, <1>2, <1>3, <1>4

\* Hooks up to the first level are among those up to the second.
LEMMA UpToGrows ==
    ASSUME NEW t \in Seq(Hooks), UpTo(t, 1)
    PROVE  UpTo(t, 2)
BY DEF UpTo, Hooks, Level

\* A request that goes on to another step, with what it has told and done.
LEMMA GoesOn ==
    ASSUME NEW j \in Flights, NEW k \in Flights, k.instance = j.instance, SoundFlight(k)
    PROVE  Follows(j, k)
BY Kinds DEF Follows, Sound, Jobs

\* A request that goes on to a step before or behind the handler.
LEMMA StepResolvesInv == ASSUME Inv, NEW r \in Requests, StepResolves(r) PROVE Inv'
<1> DEFINE j == job[r]
<1>1. InFlight(r) /\ j \in Flights /\ SoundFlight(j)
    BY Flying DEF Inv, StepResolves, Go
<1>2. j.style \in {"raw", "wrap", "object", "nested"}
    BY <1>1 DEF Flights
<1> HIDE DEF j
<1>3. CASE j.at = "collect" /\ Put(r, [j EXCEPT !.at = "onRequest"])
    <2> DEFINE k == [j EXCEPT !.at = "onRequest"]
    <2>1. k \in Flights
        BY <1>1 DEF Flights, Steps
    <2>2. /\ k.at = "onRequest" /\ k.style = j.style /\ k.instance = j.instance /\ k.err = j.err
          /\ k.cause = j.cause /\ k.told = j.told /\ k.worked = j.worked /\ k.by = j.by
        BY <1>1 DEF Flights
    <2> HIDE DEF k
    <2>3. SoundFlight(k)
        BY <1>1, <1>3, <2>2 DEF SoundFlight, Fine
    <2>4. Follows(j, k)
        BY <1>1, <2>1, <2>2, <2>3, GoesOn
    <2> QED
        BY <1>1, <1>3, <2>4, RequestSteps DEF j, k
<1>4. CASE /\ j.at \in {"onRequest", "service.onRequest", "inner.onRequest", "inner.onResponse",
                        "service.onResponse", "onResponse"}
           /\ Put(r, [j EXCEPT !.at = After(j), !.label = "none"])
    <2> DEFINE k == [j EXCEPT !.at = After(j), !.label = "none"]
    <2>1. /\ j.at = "onRequest" => After(j) \in {"handler", "service.onRequest"}
          /\ j.at = "service.onRequest" => After(j) \in {"handler", "parse", "inner.onRequest"}
          /\ j.at = "inner.onRequest" => After(j) = "parse"
          /\ j.at = "inner.onResponse" => After(j) = "serialize"
          /\ j.at = "service.onResponse" =>
                 After(j) = "onResponse" \/ (After(j) = "serialize" /\ j.style = "object")
          /\ j.at = "onResponse" => After(j) = "send"
          /\ After(j) = "service.onRequest" => j.style # "raw"
          /\ After(j) \in {"parse", "serialize"} => j.style \in {"object", "nested"}
          /\ After(j) = "inner.onRequest" => j.style = "nested"
        BY <1>1, <1>2, <1>4, AfterFacts DEF SoundFlight
    <2>2. k \in Flights
        BY <1>1, <1>4, <2>1 DEF Flights, Steps
    <2>3. /\ k.at = After(j) /\ k.style = j.style /\ k.instance = j.instance /\ k.err = j.err
          /\ k.cause = j.cause /\ k.told = j.told /\ k.worked = j.worked /\ k.by = j.by
        BY <1>1 DEF Flights
    <2> HIDE DEF k
    <2>4. Through(j) => Through(k)
        BY <2>3 DEF Through, Fine
    <2>5. Fine(j) /\ ~j.worked => Fine(k) /\ ~k.worked
        BY <2>3 DEF Fine
    <2>6. Hooked(j, 1) => Hooked(k, 2)
        BY <1>1, <2>3, UpToGrows DEF Hooked, Flights
    <2>7. Hooked(j, 2) => k.by # "handler"
        BY <2>3 DEF Hooked
    <2>8. SoundFlight(k)
        BY <1>1, <1>2, <1>4, <2>1, <2>3, <2>4, <2>5, <2>6, <2>7 DEF SoundFlight
    <2>9. Follows(j, k)
        BY <1>1, <2>2, <2>3, <2>8, GoesOn
    <2> QED
        BY <1>1, <1>4, <2>9, RequestSteps DEF j, k
<1>5. CASE j.at = "handler" /\ Put(r, [j EXCEPT !.at = After(j), !.worked = TRUE])
    <2> DEFINE k == [j EXCEPT !.at = After(j), !.worked = TRUE]
    <2>1. \/ After(j) = "onResponse" /\ j.style = "raw"
          \/ After(j) = "service.onResponse" /\ j.style \in {"wrap", "object"}
          \/ After(j) = "inner.onResponse" /\ j.style = "nested"
        BY <1>2, <1>5, AfterFacts
    <2>2. k \in Flights
        BY <1>1, <1>5, <2>1 DEF Flights, Steps
    <2>3. /\ k.at = After(j) /\ k.style = j.style /\ k.instance = j.instance /\ k.err = j.err
          /\ k.told = j.told /\ k.worked = TRUE /\ k.by = j.by
        BY <1>1 DEF Flights
    <2> HIDE DEF k
    <2>4. Through(k)
        BY <1>1, <1>5, <2>3 DEF SoundFlight, Through, Fine
    <2>5. SoundFlight(k)
        BY <1>1, <1>5, <2>1, <2>3, <2>4 DEF SoundFlight, Through, Fine
    <2>6. Follows(j, k)
        BY <1>1, <2>2, <2>3, <2>5, GoesOn
    <2> QED
        BY <1>1, <1>5, <2>6, RequestSteps DEF j, k
<1> QED
    BY <1>3, <1>4, <1>5 DEF StepResolves, j

\* One more hook, further out than those before.
LEMMA OneMore ==
    ASSUME NEW t \in Seq(Hooks), InOrder(t), NEW h \in Hooks, NEW n \in Nat, UpTo(t, n),
           n < Level(h)
    PROVE  /\ Append(t, h) \in Seq(Hooks) /\ InOrder(Append(t, h))
           /\ UpTo(Append(t, h), Level(h))
<1> DEFINE u == Append(t, h)
<1>1. /\ u \in Seq(Hooks) /\ Len(u) = Len(t) + 1 /\ u[Len(u)] = h
      /\ \A i \in 1..Len(t) : u[i] = t[i]
      /\ DOMAIN u = 1..Len(u) /\ DOMAIN t = 1..Len(t) /\ Len(t) \in Nat
    OBVIOUS
<1> HIDE DEF u
<1>2. \A g \in Hooks : Level(g) \in Nat
    BY DEF Hooks, Level
<1>3. \A i \in 1..Len(u) : i \in 1..Len(t) \/ i = Len(u)
    BY <1>1
<1>4. \A i \in 1..Len(t) : Level(u[i]) <= n /\ Level(u[i]) \in Nat
    BY <1>1, <1>2 DEF UpTo
<1>5. UpTo(u, Level(h))
    <2> SUFFICES ASSUME NEW i \in 1..Len(u) PROVE Level(u[i]) <= Level(h)
        BY <1>1 DEF UpTo
    <2>1. CASE i = Len(u)
        BY <1>1, <1>2, <2>1
    <2>2. CASE i \in 1..Len(t)
        BY <1>2, <1>4, <2>2
    <2> QED
        BY <1>3, <2>1, <2>2
<1>6. InOrder(u)
    <2> SUFFICES ASSUME NEW i \in 1..Len(u), NEW k \in 1..Len(u), i < k
                 PROVE  Level(u[i]) < Level(u[k])
        BY <1>1 DEF InOrder
    <2>1. i \in 1..Len(t)
        BY <1>1
    <2>2. CASE k = Len(u)
        BY <1>1, <1>2, <1>4, <2>1, <2>2
    <2>3. CASE k \in 1..Len(t)
        BY <1>1, <2>1, <2>3 DEF InOrder
    <2> QED
        BY <1>3, <2>2, <2>3
<1> QED
    BY <1>1, <1>5, <1>6 DEF u

\* A step that fails tells one hook, further out than all that have been told.
LEMMA ThrownFollows ==
    ASSUME NEW j \in Flights, SoundFlight(j), NEW e \in {"Error", "BadRequestException"},
           NEW cause \in Causes,
           j.at \in {"onRequest", "service.onRequest", "inner.onRequest", "parse", "handler",
                     "inner.onResponse", "serialize", "service.onResponse", "onResponse",
                     "inner.onError", "service.onError"},
           j.worked => cause = "work"
    PROVE  Follows(j, Thrown(j, e, cause))
<1> DEFINE c == Catcher(j)
           k == [j EXCEPT !.at = c, !.err = e, !.cause = cause, !.told = Append(@, c),
                          !.label = "none"]
<1>1. /\ c \in Hooks
      /\ c = "inner.onError" => j.style = "nested" /\ j.at \in {"parse", "handler", "serialize",
                                                               "inner.onResponse"}
      /\ c = "service.onError" =>
             j.style # "raw" /\ j.at \notin {"onResponse", "service.onError"}
    <2>1. CASE j.at \in {"inner.onRequest", "inner.onError"}
        BY <2>1 DEF Catcher, Hooks, SoundFlight
    <2>2. CASE j.at \notin {"inner.onRequest", "inner.onError"}
        BY <2>2 DEF Catcher, Hooks
    <2> QED
        BY <2>1, <2>2
<1>2. PICK n \in Nat : UpTo(j.told, n) /\ n < Level(c)
    <2>1. Fine(j) => UpTo(j.told, 0)
        BY DEF Fine, UpTo
    <2>2. Through(j) => UpTo(j.told, 0)
        BY <2>1 DEF Through
    <2>3. CASE c = "inner.onError"
        <3>1. UpTo(j.told, 0)
            BY <1>1, <2>1, <2>2, <2>3 DEF SoundFlight
        <3> QED
            BY <2>3, <3>1 DEF Level
    <2>4. CASE c = "service.onError"
        <3>1. UpTo(j.told, 0) \/ UpTo(j.told, 1)
            BY <1>1, <2>1, <2>2, <2>4 DEF SoundFlight, Hooked
        <3> QED
            BY <2>4, <3>1 DEF Level
    <2>5. CASE c = "onError"
        <3>1. UpTo(j.told, 0) \/ UpTo(j.told, 1) \/ UpTo(j.told, 2)
            BY <2>1, <2>2 DEF SoundFlight, Hooked
        <3> QED
            BY <2>5, <3>1 DEF Level
    <2> QED
        BY <1>1, <2>3, <2>4, <2>5 DEF Hooks
<1>3. Append(j.told, c) \in Seq(Hooks) /\ InOrder(Append(j.told, c)) /\ UpTo(Append(j.told, c), Level(c))
    <2>1. j.told \in Seq(Hooks) /\ InOrder(j.told)
        BY DEF Flights, SoundFlight
    <2> HIDE DEF c
    <2> QED
        BY <1>1, <1>2, <2>1, OneMore
<1> HIDE DEF c
<1>4. k \in Flights
    BY <1>1, <1>3 DEF Flights, Steps, Hooks
<1>5. /\ k.at = c /\ k.style = j.style /\ k.instance = j.instance /\ k.err = e /\ k.cause = cause
      /\ k.told = Append(j.told, c) /\ k.worked = j.worked /\ k.by = j.by
    BY DEF Flights
<1> HIDE DEF k
<1>6. SoundFlight(k)
    BY <1>1, <1>3, <1>5 DEF SoundFlight, Hooks, Level
<1>7. Follows(j, k)
    BY <1>4, <1>5, <1>6, GoesOn
<1> QED
    BY <1>7 DEF Thrown, c, k

LEMMA StepThrowsInv == ASSUME Inv, NEW r \in Requests, StepThrows(r) PROVE Inv'
<1>1. InFlight(r) /\ job[r] \in Flights /\ SoundFlight(job[r])
    BY Flying DEF Inv, StepThrows, Go
<1>2. PICK e \in {"Error", "BadRequestException"} : Put(r, Thrown(job[r], e, CauseOf(job[r].at)))
    BY DEF StepThrows, Errors
<1>3. CauseOf(job[r].at) \in Causes /\ (job[r].worked => CauseOf(job[r].at) = "work")
    BY <1>1 DEF CauseOf, Causes, SoundFlight
<1>4. Follows(job[r], Thrown(job[r], e, CauseOf(job[r].at)))
    BY <1>1, <1>3, ThrownFollows DEF StepThrows
<1> QED
    BY <1>1, <1>2, <1>4, RequestSteps

LEMMA ParseInv == ASSUME Inv, NEW r \in Requests, Parse(r) PROVE Inv'
<1> DEFINE j == job[r]
           k == [j EXCEPT !.at = After(j)]
<1>1. InFlight(r) /\ j \in Flights /\ SoundFlight(j) /\ j.at = "parse"
    BY Flying DEF Inv, Parse, Go
<1>2. PICK e \in ParseOutcomes : Put(r, IF e = "none" THEN k ELSE Thrown(j, e, "parse"))
    BY DEF Parse, CauseOf
<1>3. e \in {"Error", "BadRequestException", "none"}
    BY DEF ParseOutcomes
<1>4. CASE e = "none"
    <2>1. j.style \in {"object", "nested"} /\ After(j) = "handler"
        BY <1>1, AfterFacts DEF SoundFlight, Flights
    <2> HIDE DEF j
    <2>2. k \in Flights
        BY <1>1, <2>1 DEF Flights, Steps
    <2>3. /\ k.at = "handler" /\ k.style = j.style /\ k.instance = j.instance /\ k.err = j.err
          /\ k.told = j.told /\ k.worked = j.worked /\ k.by = j.by
        BY <1>1, <2>1 DEF Flights
    <2> HIDE DEF k
    <2>4. SoundFlight(k)
        BY <1>1, <2>1, <2>3 DEF SoundFlight, Fine
    <2>5. Follows(j, k)
        BY <1>1, <2>2, <2>3, <2>4, GoesOn
    <2> QED
        BY <1>1, <1>2, <1>4, <2>5, RequestSteps DEF j, k
<1>5. CASE e # "none"
    <2>1. ~j.worked /\ "parse" \in Causes
        BY <1>1 DEF SoundFlight, Causes
    <2>2. Follows(j, Thrown(j, e, "parse"))
        BY <1>1, <1>3, <1>5, <2>1, ThrownFollows
    <2> QED
        BY <1>1, <1>2, <1>5, <2>2, RequestSteps
<1> QED
    BY <1>4, <1>5

\* An encoded body goes out under the lower-case header, when that comes last.
LEMMA LabelledLower ==
    ASSUME NEW h \in Headers, NEW t \in Types, NEW in, ~OtherLast(h)
    PROVE  Sent([headers |-> [h EXCEPT !.lower = t], body |-> Bytes(in)])
               = [label |-> t, in |-> in]
<1> DEFINE g == [h EXCEPT !.lower = t]
           res == [headers |-> g, body |-> Bytes(in)]
<1>1. g.lower = t /\ t # NoType /\ ~OtherLast(g)
    BY NoTypeAssumption DEF OtherLast, Headers
<1>2. res.headers = g /\ res.body.is = "bytes" /\ res.body.in = in /\ ~IsObject(res.body)
    BY DEF Bytes, IsObject
<1> HIDE DEF res, g
<1>3. Sent(res) = [label |-> t, in |-> in]
    BY <1>1, <1>2 DEF Sent
<1> QED
    BY <1>3 DEF res, g

\* What serializeResponseBody() and sendResponse() make of a body.
LEMMA NeverWrong ==
    ASSUME NEW o \in Options, NEW h \in Headers, NEW body \in {Nothing, Objekt, Text}
    PROVE  LabelOf(o, h, Sent(Serialized(o, [headers |-> h, body |-> body])))
               \in {"none", "encoding", "default", "other spelling"}
<1> DEFINE res == [headers |-> h, body |-> body]
           sent == Sent(Serialized(o, res))
<1>1. o.default \in Types /\ o.default # NoType /\ h.lower \in Types \cup {NoType}
    BY NoTypeAssumption DEF Options, Headers
<1>2. CASE body \in {Nothing, Text}
    <2>1. ~IsObject(body) /\ body.is \notin {"bytes", "stream"}
        BY <1>2 DEF IsObject, Nothing, Text
    <2>2. sent.in = NoType
        BY <2>1 DEF Serialized, Sent
    <2> QED
        BY <2>2 DEF LabelOf
<1>3. CASE body = Objekt /\ ~OtherLast(h)
    <2> DEFINE type == IF h.lower = NoType THEN o.default ELSE h.lower
    <2>1. IsObject(body) /\ type \in Types
        BY <1>1, <1>3 DEF IsObject, Objekt
    <2>4. CASE type \in o.serializers
        <3>1. Serialized(o, res) = [headers |-> [h EXCEPT !.lower = type], body |-> Bytes(type)]
            BY <2>1, <2>4 DEF Serialized, MediaTypeOf
        <3>2. Sent([headers |-> [h EXCEPT !.lower = type], body |-> Bytes(type)])
                  = [label |-> type, in |-> type]
            BY <1>1, <1>3, LabelledLower
        <3>3. sent.label = type /\ sent.in = type
            BY <3>1, <3>2
        <3> QED
            BY <3>3 DEF LabelOf
    <2>5. CASE type \notin o.serializers
        <3>1. Serialized(o, res) = [headers |-> [h EXCEPT !.lower = o.default], body |-> Bytes(Json)]
            BY <2>1, <2>5 DEF Serialized, MediaTypeOf
        <3>2. Sent([headers |-> [h EXCEPT !.lower = o.default], body |-> Bytes(Json)])
                  = [label |-> o.default, in |-> Json]
            BY <1>1, <1>3, LabelledLower
        <3>3. sent.label = o.default
            BY <3>1, <3>2
        <3> QED
            BY <3>3 DEF LabelOf
    <2> QED
        BY <2>4, <2>5
<1>4. CASE OtherLast(h)
    BY <1>4 DEF LabelOf
<1> QED
    BY <1>2, <1>3, <1>4

LEMMA SerializeInv == ASSUME Inv, NEW r \in Requests, Serialize(r) PROVE Inv'
<1> DEFINE j == job[r]
<1>1. InFlight(r) /\ j \in Flights /\ SoundFlight(j) /\ j.at = "serialize"
    BY Flying DEF Inv, Serialize, Go
<1>2. PICK label \in Labels : Put(r, [j EXCEPT !.at = After(j), !.label = label])
    BY DEF Serialize
<1>3. label \in {"none", "encoding", "default", "other spelling"}
    <2>1. PICK o \in Options, h \in Headers, body \in {Nothing, Objekt, Text} :
              label = LabelOf(o, h, Sent(Serialized(o, [headers |-> h, body |-> body])))
        BY DEF Labels
    <2> QED
        BY <2>1, NeverWrong
<1>4. \/ After(j) = "onResponse" /\ j.style = "object"
      \/ After(j) = "service.onResponse" /\ j.style = "nested"
    <2>1. j.style \in {"object", "nested"}
        BY <1>1 DEF SoundFlight, Flights
    <2> QED
        BY <1>1, <2>1, AfterFacts
<1> DEFINE k == [j EXCEPT !.at = After(j), !.label = label]
<1> HIDE DEF j
<1>5. k \in Flights
    BY <1>1, <1>3, <1>4 DEF Flights, Steps
<1>6. /\ k.at = After(j) /\ k.style = j.style /\ k.instance = j.instance /\ k.err = j.err
      /\ k.cause = j.cause /\ k.told = j.told /\ k.worked = j.worked /\ k.by = j.by
    BY <1>1 DEF Flights
<1> HIDE DEF k
<1>7. SoundFlight(k)
    BY <1>1, <1>4, <1>6 DEF SoundFlight, Through, Fine
<1>8. Follows(j, k)
    BY <1>1, <1>5, <1>6, <1>7, GoesOn
<1> QED
    BY <1>1, <1>2, <1>8, RequestSteps DEF j, k

LEMMA ServiceErrorSettlesInv == ASSUME Inv, NEW r \in Requests, ServiceErrorSettles(r) PROVE Inv'
<1> DEFINE j == job[r]
           next == IF j.at = "inner.onError" THEN "service.onResponse" ELSE "onResponse"
           k == [j EXCEPT !.at = next, !.err = "none", !.cause = "none", !.by = "hook"]
<1>1. InFlight(r) /\ j \in Flights /\ SoundFlight(j) /\ j.at \in {"inner.onError", "service.onError"}
    BY Flying DEF Inv, ServiceErrorSettles, Go
<1>2. CASE Put(r, k)
    <2> HIDE DEF j
    <2>1. k \in Flights
        BY <1>1 DEF Flights, Steps, Causes
    <2>2. /\ k.at = next /\ k.style = j.style /\ k.instance = j.instance /\ k.err = "none"
          /\ k.told = j.told /\ k.worked = j.worked /\ k.by = "hook"
        BY <1>1 DEF Flights
    <2> HIDE DEF k
    <2>3. j.at = "inner.onError" => Hooked(k, 1) /\ k.style = "nested"
        BY <1>1, <2>2 DEF SoundFlight, Hooked, Flights
    <2>4. j.at = "service.onError" => Hooked(k, 2)
        BY <1>1, <2>2 DEF SoundFlight, Hooked
    <2>5. SoundFlight(k)
        BY <1>1, <2>2, <2>3, <2>4 DEF SoundFlight
    <2>6. Follows(j, k)
        BY <1>1, <2>1, <2>2, <2>5, GoesOn
    <2> QED
        BY <1>1, <1>2, <2>6, RequestSteps DEF j, k
<1>3. ASSUME NEW e \in {"Error", "BadRequestException"}, NEW cause \in Causes,
             j.worked => cause = "work", Put(r, Thrown(j, e, cause))
      PROVE  Inv'
    <2>1. Follows(j, Thrown(j, e, cause))
        BY <1>1, <1>3, ThrownFollows
    <2> QED
        BY <1>1, <1>3, <2>1, RequestSteps
<1>4. CASE Put(r, Thrown(j, j.err, j.cause))
    <2>1. j.err \in {"Error", "BadRequestException"} /\ j.cause \in Causes
          /\ (j.worked => j.cause = "work")
        BY <1>1 DEF SoundFlight, Flights
    <2> QED
        BY <1>3, <1>4, <2>1
<1>5. ASSUME NEW e \in Errors, Put(r, Thrown(j, e, CauseOf(j.at))) PROVE Inv'
    <2>1. CauseOf(j.at) = "work" /\ "work" \in Causes /\ e \in {"Error", "BadRequestException"}
        BY <1>1 DEF CauseOf, Causes, Errors
    <2> QED
        BY <1>3, <1>5, <2>1
<1> QED
    BY <1>2, <1>4, <1>5 DEF ServiceErrorSettles

LEMMA CrashInv == ASSUME Inv, NEW r, Crash(r) PROVE Inv'
BY DEF Crash, program, Inv, TypeInv, JobsInv, InFlight, ProgramInv, Starting, Serving, Ending,
       Ended, Closed, Quiet, Leaked

LEMMA ServerErrorSettlesInv == ASSUME Inv, NEW r \in Requests, ServerErrorSettles(r) PROVE Inv'
<1> DEFINE j == job[r]
           hooked == [j EXCEPT !.at = "send", !.err = "none", !.cause = "none", !.by = "hook"]
           told == [j EXCEPT !.at = "send", !.by = "errorToResponse"]
           worse == [j EXCEPT !.cause = "work"]
<1>1. InFlight(r) /\ j \in Flights /\ SoundFlight(j) /\ j.at = "onError"
    BY Flying DEF Inv, ServerErrorSettles, Go
<1>2. CASE Put(r, hooked) \/ Put(r, told)
    <2> HIDE DEF j
    <2>1. PICK k \in {hooked, told} : Put(r, k)
        BY <1>2
    <2>2. k \in Flights
        BY <1>1 DEF Flights, Steps, Causes
    <2>3. /\ k.at = "send" /\ k.style = j.style /\ k.instance = j.instance /\ k.told = j.told
          /\ k.worked = j.worked /\ k.by # "handler" /\ (k.err = "none" \/ k.cause = j.cause)
        BY <1>1 DEF Flights
    <2>4. k.err # "none" => k.err = j.err
        BY <1>1 DEF Flights
    <2> HIDE DEF hooked, told
    <2>5. SoundFlight(k)
        BY <1>1, <2>3, <2>4 DEF SoundFlight
    <2>6. Follows(j, k)
        BY <1>1, <2>2, <2>3, <2>5, GoesOn
    <2> QED
        BY <1>1, <2>1, <2>6, RequestSteps DEF j
<1>3. CASE Put(r, Answered(j, "none"))
    <2>1. Follows(j, Answered(j, "none"))
        BY <1>1, AnsweredSound DEF Outcomes
    <2> QED
        BY <1>1, <1>3, <2>1, RequestSteps
<1>4. ASSUME NEW e \in Errors, Put(r, Answered(worse, Status(e))) PROVE Inv'
    <2>1. Status(e) \in Outcomes \ {"200"}
        BY DEF Status, Outcomes
    <2> HIDE DEF j
    <2>2. /\ worse \in Flights /\ worse.at = "onError" /\ worse.style = j.style
          /\ worse.instance = j.instance /\ worse.told = j.told /\ worse.worked = j.worked
          /\ worse.err = j.err /\ worse.cause = "work"
        BY <1>1 DEF Flights, Causes
    <2> HIDE DEF worse
    <2>3. SoundFlight(worse)
        BY <1>1, <2>2 DEF SoundFlight
    <2>4. Follows(worse, Answered(worse, Status(e)))
        BY <2>1, <2>2, <2>3, AnsweredSound
    <2>5. Follows(j, Answered(worse, Status(e)))
        BY <2>2, <2>4 DEF Follows
    <2> QED
        BY <1>1, <1>4, <2>5, RequestSteps DEF j
<1>5. \/ Put(r, hooked) \/ Put(r, told) \/ Put(r, Answered(j, "none"))
      \/ \E e \in Errors : Put(r, Answered(worse, Status(e)))
      \/ Crash(r)
    BY DEF ServerErrorSettles
<1> QED
    BY <1>2, <1>3, <1>4, <1>5, CrashInv

LEMMA FastifyAnswersInv == ASSUME Inv, NEW r \in Requests, FastifyAnswers(r) PROVE Inv'
<1>1. InFlight(r) /\ job[r] \in Flights /\ SoundFlight(job[r])
    BY Flying DEF Inv, FastifyAnswers, Go
<1>2. PICK status \in {"413", "500"} : Put(r, Answered(job[r], status))
    BY DEF FastifyAnswers
<1>3. Follows(job[r], Answered(job[r], status))
    BY <1>1, AnsweredSound DEF Outcomes
<1> QED
    BY <1>1, <1>2, <1>3, RequestSteps

LEMMA SendInv == ASSUME Inv, NEW r \in Requests, Send(r) PROVE Inv'
<1> DEFINE j == job[r]
           answer == CASE j.by = "handler" -> "200"
                       [] j.by = "errorToResponse" -> Status(j.err)
                       [] OTHER -> "as the hook says"
<1>1. InFlight(r) /\ j \in Flights /\ SoundFlight(j) /\ j.at = "send"
    BY Flying DEF Inv, Send, Go
<1>2. \/ answer = "200" /\ j.by = "handler"
      \/ answer = "400" /\ j.err = "BadRequestException"
      \/ answer \in {"500", "as the hook says"}
    BY <1>1 DEF Status, Flights
<1>3. Put(r, Answered(j, answer))
    BY DEF Send
<1> HIDE DEF answer
<1>4. answer = "200" => j.worked /\ j.told = <<>>
    BY <1>1, <1>2 DEF SoundFlight, Through, Fine
<1>5. answer = "400" /\ j.worked => j.cause = "work"
    BY <1>1, <1>2 DEF SoundFlight
<1>6. Follows(j, Answered(j, answer))
    BY <1>1, <1>2, <1>4, <1>5, AnsweredSound DEF Outcomes
<1> QED
    BY <1>1, <1>3, <1>6, RequestSteps

\* What a step leaves without an answer.
LEMMA NoReplyInv == ASSUME Inv, NEW r \in Requests, NoReply(r) \/ Disconnect(r) PROVE Inv'
<1>1. InFlight(r) /\ job[r] \in Flights /\ SoundFlight(job[r])
    BY Flying DEF Inv, NoReply, Disconnect, Go
<1>2. Follows(job[r], Answered(job[r], "none"))
    BY <1>1, AnsweredSound DEF Outcomes
<1>3. Put(r, Answered(job[r], "none")) \/ Crash(r)
    BY DEF NoReply, Disconnect
<1> QED
    BY <1>1, <1>2, <1>3, RequestSteps, CrashInv

LEMMA ArriveInv == ASSUME Inv, NEW r \in Requests, Arrive(r) PROVE Inv'
<1>1. PICK i \in Bound, at \in {"collect", "connected", "onRequest"},
           style \in {"raw", "wrap", "object", "nested"} :
          job' = [job EXCEPT ![r] =
             [at |-> at, style |-> style, instance |-> i, err |-> "none", cause |-> "none",
              told |-> <<>>, worked |-> FALSE, by |-> "handler", label |-> "none"]]
    <2>1. DOMAIN Path = {"raw", "wrap", "object", "nested"}
        BY DEF Path
    <2>2. Styles[r] \subseteq {"raw", "wrap", "object", "nested"}
        BY <2>1, StylesAssumption, Zenon
    <2> QED
        BY <2>2 DEF Arrive, Inv, TypeInv
<1>2. UNCHANGED <<kind, todo, route, layers, servers, handle>>
    BY DEF Arrive, program
<1> DEFINE k == [at |-> at, style |-> style, instance |-> i, err |-> "none", cause |-> "none",
                 told |-> <<>>, worked |-> FALSE, by |-> "handler", label |-> "none"]
<1>3. i \in DOMAIN servers /\ i \in Nat /\ servers[i] = "bound"
    BY DEF Bound, Inv, TypeInv
<1>4. k \in Flights
    BY <1>3 DEF Flights, Steps, Causes
<1>5. Sound(k)
    <2>1. SoundFlight(k)
        BY DEF SoundFlight, Fine, InOrder
    <2> QED
        BY <1>4, <2>1, Kinds DEF Sound
<1>6. k \in Jobs /\ k.instance = i
    BY <1>4 DEF Jobs
<1> HIDE DEF k
<1>7. job' \in [Requests -> Jobs] /\ job'[r] = k /\ \A q \in Requests \ {r} : job'[q] = job[q]
    BY <1>1, <1>6 DEF Inv, TypeInv, k
<1>8. TypeInv'
    BY <1>2, <1>7 DEF Inv, TypeInv
<1>9. JobsInv'
    <2>1. ASSUME NEW q \in Requests, q # r
          PROVE  Sound(job[q])' /\ (InFlight(q)' => job'[q].instance \in DOMAIN servers')
        BY <1>2, <1>7, <2>1 DEF Inv, JobsInv, InFlight
    <2>2. Sound(job[r])' /\ job'[r].instance \in DOMAIN servers'
        BY <1>2, <1>3, <1>5, <1>6, <1>7
    <2> QED
        BY <2>1, <2>2 DEF JobsInv
<1>10. Closed => Quiet'
    <2> SUFFICES ASSUME Closed
                 PROVE  Quiet'
        OBVIOUS
    <2>1. Leaked(i)
        BY <1>3 DEF Closed, Leaked, Inv, TypeInv
    <2> QED
        BY <1>2, <1>6, <1>7, <2>1 DEF Closed, Quiet, Leaked, InFlight
<1>11. ProgramInv'
    BY <1>2, <1>10 DEF Inv, ProgramInv, Starting, Serving, Ending, Ended, Closed
<1> QED
    BY <1>8, <1>9, <1>11 DEF Inv

-----------------------------------------------------------------------------
LEMMA InitInv == Init => Inv
<1> SUFFICES ASSUME Init
             PROVE  Inv
    OBVIOUS
<1>1. /\ kind \in {"http", "tcp", "udp", "grpc"} /\ servers = <<>> /\ handle = 0
      /\ job = [r \in Requests |-> Idle] /\ layers = {} /\ route = "none" /\ todo = FromR
    BY DEF Init, FromR
<1>2. servers \in Seq(Statuses) /\ Len(servers) = 0
    BY <1>1
<1>3. TypeInv
    BY <1>1, <1>2 DEF TypeInv, Jobs
<1>4. JobsInv
    BY <1>1, Kinds DEF JobsInv, Sound, InFlight
<1>5. ProgramInv
    BY <1>1 DEF ProgramInv, Starting
<1> QED
    BY <1>3, <1>4, <1>5 DEF Inv

LEMMA NextInv == Inv /\ [Next]_vars => Inv'
<1> SUFFICES ASSUME Inv, [Next]_vars
             PROVE  Inv'
    OBVIOUS
<1>1. CASE Program
    BY <1>1, LayerInv, RegisterInv, RejectsInv, RetryInv, ListenInv, MountInv, BindInv, HookInv,
       SignalInv, CloseInv, DrainedInv DEF Program
<1>2. ASSUME NEW r \in Requests, Arrive(r) \/ Step(r) \/ Disconnect(r) PROVE Inv'
    BY <1>2, ArriveInv, StepResolvesInv, StepThrowsInv, ParseInv, SerializeInv,
       ServiceErrorSettlesInv, ServerErrorSettlesInv, FastifyAnswersInv, SendInv, NoReplyInv
       DEF Step
<1>3. CASE UNCHANGED vars
    BY <1>3 DEF vars, program, Inv, TypeInv, JobsInv, InFlight, ProgramInv, Starting, Serving,
                Ending, Ended, Closed, Quiet, Leaked
<1> QED
    BY <1>1, <1>2, <1>3 DEF Next

\* The start-point and the requests in flight keep their invariant, from listen() on.
THEOREM ServerInv == Spec => []Inv
BY InitInv, NextInv, PTL DEF Spec

\* However many requests and listen() calls there are, a request that is in flight
\* finds the repositories up, and every layer when the server is closed first.
THEOREM LayersStay == Spec => []LayersOutliveRequests
<1>1. Inv => LayersOutliveRequests
    <2> SUFFICES ASSUME Inv, NEW r \in Requests,
                        InFlight(r), kind # "udp", ~Leaked(job[r].instance)
                 PROVE  /\ "R" \in layers
                        /\ route # "terminate only" => layers = {"R", "B", "A"}
        BY DEF LayersOutliveRequests
    <2>1. ~Quiet
        BY DEF Quiet
    <2>2. servers # <<>>
        BY <2>1, NothingMade DEF Inv, TypeInv
    <2>3. Serving \/ Ending
        BY <2>1, <2>2 DEF Inv, ProgramInv, Starting, Ended, Closed
    <2> QED
        BY <2>3 DEF Serving, Ending, AllLayers
<1> QED
    BY <1>1, ServerInv, PTL

\* Every answer tells what became of its handler, whichever steps throw and however the
\* handler was registered.
THEOREM AnswersTell == Spec => []AnswersMatchWork
<1>1. Inv => AnswersMatchWork
    <2> SUFFICES ASSUME Inv, NEW r \in Requests, job[r].at = "answered"
                 PROVE  /\ job[r].answer = "200" => job[r].worked /\ job[r].told = <<>>
                        /\ job[r].answer = "400" /\ job[r].worked => job[r].cause = "work"
                        /\ InOrder(job[r].told)
        BY DEF AnswersMatchWork, InOrder
    <2>1. job[r] \in Answers
        BY Kinds DEF Inv, TypeInv, Jobs
    <2>2. SoundAnswer(job[r])
        BY <2>1 DEF Inv, JobsInv, Sound
    <2> QED
        BY <2>1, <2>2 DEF SoundAnswer, Answers
<1> QED
    BY <1>1, ServerInv, PTL

\* A start-point that has come to its end has released its port.
THEOREM PortIsReleased == Spec => []PortReleased
<1>1. Inv => PortReleased
    <2> SUFFICES ASSUME Inv, todo = <<>>, "R" \notin layers, NEW i \in Bound
                 PROVE  Leaked(i)
        BY DEF PortReleased
    <2>1. i \in 1..Len(servers) /\ servers[i] = "bound" /\ Len(servers) \in Nat
        BY DEF Bound, Inv, TypeInv
    <2>2. ~Serving
        BY Starts, Ends DEF Serving, Up
    <2>3. servers = <<>> \/ servers[Len(servers)] = "closed"
        BY <2>2 DEF Inv, ProgramInv, Starting, Ending, Ended, Closed
    <2> QED
        BY <2>1, <2>3 DEF Leaked
<1> QED
    BY <1>1, ServerInv, PTL

\* The content-type of an answer is the encoding of its body, for all media types and
\* whatever the service is constructed with, but for the fallback and the second spelling
\* of the header named there.
THEOREM ContentTypeTells == Spec => []ContentTypeTellsEncoding
<1>1. Inv => ContentTypeTellsEncoding
    BY Flying DEF Inv, ContentTypeTellsEncoding, Flights
<1> QED
    BY <1>1, ServerInv, PTL
=============================================================================
