---------------------------- MODULE ObserverPools ----------------------------
(***************************************************************************)
(* The observers of packages/xf and packages/xf-react-view: the classes    *)
(* ObservableBusiness and ObservableScheduleBusiness, ObservableView and   *)
(* ObservableRepository, ObservableReactView, and ObservableState-         *)
(* MachineBusiness over StateMachineBusiness.  Everything is synchronous,  *)
(* and an observer may itself register, remove, publish or throw: the      *)
(* fan-outs under way form a stack.  An observer goes by its number; Map   *)
(* visits them in that order, those added on the way included.             *)
(***************************************************************************)
EXTENDS Naturals, Sequences, SequencesExt, FiniteSetsExt

CONSTANTS
    Values,      \* what the state may be
    Legal,       \* the transition table of the machine, pairs of values
    MaxIds,      \* bound of the model: how many observers are ever registered
    MaxDepth     \* bound of the model: how deep fan-outs are nested

VARIABLES
    class,       \* which of the classes it is
    state,       \* the state, or what notify() was last given
    observers,   \* the whole-state observers
    listeners,   \* the transition observers of the machine
    nextId,      \* the next number
    stack,       \* the fan-outs under way, the innermost last
    heard,       \* history: the value each observer has heard last
    owed,        \* history: the observers that there were when the state last changed
                 \* and that have heard nothing since
    cut,         \* history: has a fan-out ended by an exception since the outermost began?
    nested       \* history: has an observer published?

vars == <<class, state, observers, listeners, nextId, stack, heard, owed, cut, nested>>
registry == <<class, observers, listeners, nextId>>

Ids == 1..MaxIds
Unheard == [value |-> {}]
Value(v) == [value |-> {v}]

\* Are the exceptions of an observer caught?
Isolated == class = "business"
Machine == class = "machine"

Init ==
    /\ class \in {"business", "view", "react", "machine"}
    /\ state \in Values
    /\ observers = {} /\ listeners = {} /\ nextId = 1
    /\ stack = <<>>
    /\ heard = [i \in Ids |-> Unheard]
    /\ owed = {}
    /\ cut = FALSE /\ nested = FALSE

\* The caller's code runs, at the top or in an observer.
Running == stack # <<>> => Last(stack).inside

Replace(frame) == stack' = Append(Front(stack), frame)

\* observe(): with runOnObserve the observer is called at once, which is isolated.
Observe ==
    /\ Running
    /\ nextId \in Ids
    /\ observers' = observers \cup {nextId}
    /\ nextId' = nextId + 1
    /\ heard' \in {heard} \cup (IF Isolated THEN {[heard EXCEPT ![nextId] = Value(state)]} ELSE {})
    /\ UNCHANGED <<class, listeners, state, stack, owed, cut, nested>>

ObserveTransition ==
    /\ Running
    /\ Machine
    /\ nextId \in Ids
    /\ listeners' = listeners \cup {nextId}
    /\ nextId' = nextId + 1
    /\ UNCHANGED <<class, observers, state, stack, heard, owed, cut, nested>>

\* remove(id), removeTransition(id)
RemoveObserver(i) ==
    /\ Running
    /\ i \in observers \cup listeners
    /\ observers' = observers \ {i}
    /\ listeners' = listeners \ {i}
    /\ UNCHANGED <<class, nextId, state, stack, heard, owed, cut, nested>>

Terminate ==
    /\ Running
    /\ observers' = {} /\ listeners' = {}
    /\ UNCHANGED <<class, nextId, state, stack, heard, owed, cut, nested>>

\* A fan-out begins with the value v; at is the observer visited last.
Begin(pool, v) ==
    /\ Len(stack) < MaxDepth
    /\ stack' = Append(stack, [pool |-> pool, at |-> 0, inside |-> FALSE, value |-> v])
    /\ state' = v
    /\ owed' = IF v = state THEN owed ELSE observers
    /\ cut' = (stack # <<>> /\ cut)
    /\ nested' = (stack # <<>>)

\* notify(): by the state machine of the state it has, by the others of a new one too.
Notify(v) ==
    /\ Running
    /\ Machine => v = state
    /\ Begin("state", v)
    /\ UNCHANGED <<registry, heard>>

\* transition(event), to the state the table gives; an event that it does not know
\* throws and changes nothing.
Transition(v) ==
    /\ Running
    /\ Machine
    /\ <<state, v>> \in Legal
    /\ Begin("transition", v)
    /\ UNCHANGED <<registry, heard>>

\* Mutant: a fan-out begun by an observer visits nobody: one is under way.
AheadOutermost ==
    IF Len(stack) > 1 THEN {}
    ELSE {i \in (IF Last(stack).pool = "state" THEN observers ELSE listeners) : i > Last(stack).at}

\* Those the innermost fan-out has still to visit.
Ahead ==
    {i \in (IF Last(stack).pool = "state" THEN observers ELSE listeners) : i > Last(stack).at}

\* The next observer is called: with the state there is by now, only the React view
\* with the snapshot it was given.
Visit ==
    /\ stack # <<>> /\ ~Last(stack).inside
    /\ Ahead # {}
    /\ LET i == Min(Ahead)
           v == IF class = "react" THEN Last(stack).value ELSE state
       IN  /\ Replace([Last(stack) EXCEPT !.at = i, !.inside = TRUE])
           /\ heard' = IF i \in observers THEN [heard EXCEPT ![i] = Value(v)] ELSE heard
           /\ owed' = owed \ {i}
    /\ UNCHANGED <<registry, state, cut, nested>>

Returns ==
    /\ stack # <<>> /\ Last(stack).inside
    /\ Replace([Last(stack) EXCEPT !.inside = FALSE])
    /\ UNCHANGED <<registry, state, heard, owed, cut, nested>>

\* The observer throws: caught, or it ends the fan-out and whoever published hears it.
Throws ==
    /\ stack # <<>> /\ Last(stack).inside
    /\ IF Isolated
       THEN Replace([Last(stack) EXCEPT !.inside = FALSE]) /\ cut' = cut
       ELSE stack' = Front(stack) /\ cut' = TRUE
    /\ UNCHANGED <<registry, state, heard, owed, nested>>

\* The fan-out is over; after the transition observers come those of the state.
Ends ==
    /\ stack # <<>> /\ ~Last(stack).inside
    /\ IF Ahead = {} /\ Last(stack).pool = "transition"
       THEN Replace([Last(stack) EXCEPT !.pool = "state", !.at = 0])
       ELSE Ahead = {} /\ stack' = Front(stack)
    /\ UNCHANGED <<registry, state, heard, owed, cut, nested>>

Next ==
    \/ Observe
    \/ ObserveTransition
    \/ \E i \in Ids : RemoveObserver(i)
    \/ Terminate
    \/ \E v \in Values : Notify(v) \/ Transition(v)
    \/ Visit
    \/ Returns
    \/ Throws
    \/ Ends

Spec == Init /\ [][Next]_vars

-----------------------------------------------------------------------------

\* When the outermost call returns, every observer that is registered has heard the
\* state there is, however the calls were nested and whoever came and went: unless an
\* observer has thrown where nobody catches it, or, in the React view, an observer has
\* published itself, for the outer fan-out then goes on with the older snapshot.
TellsEveryone ==
    stack = <<>> /\ ~cut /\ ~(class = "react" /\ nested) =>
        \A i \in observers : heard[i] = Value(state) \/ (heard[i] = Unheard /\ i \notin owed)
=============================================================================
