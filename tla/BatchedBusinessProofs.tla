----------------------- MODULE BatchedBusinessProofs -----------------------
(***************************************************************************)
(* Proofs about BatchedBusiness, for every number of items, maxSize,       *)
(* policy and timer setting.                                               *)
(***************************************************************************)
EXTENDS BatchedBusiness, SequenceTheorems, TLAPS

-----------------------------------------------------------------------------
(***************************************************************************)
(* Increasing sequences: adding a larger element at the end, and cutting a *)
(* piece out of the middle, keep them increasing.                          *)
(***************************************************************************)
Below(s, n) == \A i \in 1..Len(s) : s[i] < n

LEMMA IncreasingAppend ==
    ASSUME NEW s \in Seq(Nat), NEW n \in Nat, Increasing(s), Below(s, n)
    PROVE  Increasing(s \o <<n>>) /\ Below(s \o <<n>>, n + 1)
  <1>1. <<n>> \in Seq(Nat) /\ Len(<<n>>) = 1 /\ <<n>>[1] = n
    OBVIOUS
  <1>2. /\ Len(s) \in Nat
        /\ Len(s \o <<n>>) = Len(s) + 1
        /\ \A i \in 1..(Len(s) + 1) : (s \o <<n>>)[i] = IF i <= Len(s) THEN s[i] ELSE n
    BY <1>1, ConcatProperties
  <1>3. \A i \in 1..Len(s) : s[i] \in Nat
    BY ElementOfSeq
  <1>4. QED
    BY <1>2, <1>3 DEF Increasing, Below

LEMMA NatConcat ==
    \A s, t, u \in Seq(Nat) : (s \o t) \o u = s \o (t \o u)
  <1>1. ASSUME NEW s \in Seq(Nat), NEW t \in Seq(Nat), NEW u \in Seq(Nat)
        PROVE  (s \o t) \o u = s \o (t \o u)
    BY ConcatAssociative, SMTT(60)
  <1>2. QED
    BY <1>1

LEMMA IncreasingCut ==
    ASSUME NEW a \in Seq(Nat), NEW b \in Seq(Nat), NEW c \in Seq(Nat), NEW n,
           Increasing((a \o b) \o c), Below((a \o b) \o c, n)
    PROVE  Increasing(a \o c) /\ Below(a \o c, n)
  <1>1. /\ Len(a) \in Nat /\ Len(b) \in Nat /\ Len(c) \in Nat
        /\ a \o b \in Seq(Nat) /\ Len(a \o b) = Len(a) + Len(b)
        /\ \A i \in 1..(Len(a) + Len(b)) : (a \o b)[i] = IF i <= Len(a) THEN a[i] ELSE b[i - Len(a)]
    BY ConcatProperties
  <1>2. /\ Len((a \o b) \o c) = Len(a) + Len(b) + Len(c)
        /\ \A i \in 1..(Len(a) + Len(b) + Len(c)) :
              ((a \o b) \o c)[i] = IF i <= Len(a) + Len(b) THEN (a \o b)[i] ELSE c[i - (Len(a) + Len(b))]
    BY <1>1, ConcatProperties
  <1>3. /\ Len(a \o c) = Len(a) + Len(c)
        /\ \A i \in 1..(Len(a) + Len(c)) : (a \o c)[i] = IF i <= Len(a) THEN a[i] ELSE c[i - Len(a)]
    BY ConcatProperties
  <1> DEFINE at(i) == IF i <= Len(a) THEN i ELSE i + Len(b)
  <1>4. ASSUME NEW i \in 1..Len(a \o c)
        PROVE  at(i) \in 1..Len((a \o b) \o c) /\ (a \o c)[i] = ((a \o b) \o c)[at(i)]
    BY <1>1, <1>2, <1>3
  <1>5. \A i, j \in 1..Len(a \o c) : i < j => at(i) < at(j)
    BY <1>1, <1>3
  <1> HIDE DEF at
  <1>6. QED
    BY <1>4, <1>5 DEF Increasing, Below

-----------------------------------------------------------------------------
(***************************************************************************)
(* What the helpers of the model do to the three stores of items.          *)
(***************************************************************************)
LEMMA ItemsAreNat == Item \subseteq Nat /\ Seq(Item) \subseteq Seq(Nat)
  <1>1. Item \subseteq Nat
    BY BatchAssumption DEF Item
  <1>2. QED
    BY <1>1, SeqMonotonic

LEMMA FlightFacts ==
    ASSUME TypeOK, SingleFlight
    PROVE  /\ FlightItems \in Seq(Item)
           /\ ~flushing => FlightItems = <<>>
           /\ \A b \in inFlight : FlightItems = b /\ inFlight = {b}
  <1>1. ~flushing => FlightItems = <<>>
    BY DEF SingleFlight, FlightItems
  <1>2. \A b \in inFlight : FlightItems = b /\ inFlight = {b}
    BY DEF SingleFlight, FlightItems
  <1>3. FlightItems \in Seq(Item)
    <2>1. CASE inFlight = {}
      BY <2>1, EmptySeq DEF FlightItems
    <2>2. CASE inFlight # {}
      BY <2>2, <1>2 DEF TypeOK
    <2>3. QED
      BY <2>1, <2>2
  <1>4. QED
    BY <1>1, <1>2, <1>3

\* The pipeline is made of three sequences of items.
LEMMA PipelineTypes ==
    ASSUME TypeOK, SingleFlight
    PROVE  /\ delivered \in Seq(Nat) /\ FlightItems \in Seq(Nat) /\ buffer \in Seq(Nat)
           /\ delivered \o FlightItems \in Seq(Nat)
           /\ Pipeline = (delivered \o FlightItems) \o buffer
           /\ Pipeline \in Seq(Nat)
  <1>1. delivered \in Seq(Nat) /\ FlightItems \in Seq(Nat) /\ buffer \in Seq(Nat)
    BY FlightFacts, ItemsAreNat DEF TypeOK
  <1>2. delivered \o FlightItems \in Seq(Nat)
    BY <1>1, ConcatProperties
  <1>3. QED
    BY <1>1, <1>2, ConcatProperties DEF Pipeline

\* The options of a setup have their types.
LEMMA OptionsTypes ==
    ASSUME TypeOK
    PROVE  /\ options.timed \in BOOLEAN
           /\ options.policy \in {"lose", "retain", "reintroduce"}
  <1>1. options \in Options
    BY BatchAssumption DEF TypeOK
  <1>2. QED
    BY <1>1 DEF Options

\* A flush on b takes all of b or leaves it where it is.
LEMMA FlushOnFacts ==
    ASSUME TypeOK, SingleFlight, NEW b \in Seq(Item), FlushOn(b)
    PROVE  /\ buffer' \in Seq(Item) /\ flushing' \in BOOLEAN /\ inFlight' \subseteq Seq(Item)
           /\ SingleFlight'
           /\ \/ buffer' = b /\ inFlight' = inFlight
              \/ buffer' = <<>> /\ inFlight = {} /\ inFlight' = {b}
  <1>1. CASE flushing \/ b = <<>>
    BY <1>1 DEF FlushOn, TypeOK, SingleFlight
  <1>2. CASE ~(flushing \/ b = <<>>)
    <2>1. buffer' = <<>> /\ flushing' = TRUE /\ inFlight' = inFlight \cup {b} /\ inFlight = {}
      BY <1>2 DEF FlushOn, SingleFlight
    <2>2. QED
      BY <2>1, EmptySeq DEF TypeOK, SingleFlight
  <1>3. QED
    BY <1>1, <1>2

\* ... so the pipeline is what it was with b for the buffer.
LEMMA FlushOnPipeline ==
    ASSUME TypeOK, SingleFlight, NEW b \in Seq(Item), FlushOn(b), delivered' = delivered
    PROVE  Pipeline' = (delivered \o FlightItems) \o b
  <1>1. CASE buffer' = b /\ inFlight' = inFlight
    BY <1>1 DEF Pipeline, FlightItems
  <1>2. CASE buffer' = <<>> /\ inFlight = {} /\ inFlight' = {b}
    <2>1. FlightItems = <<>> /\ FlightItems' = b
      BY <1>2 DEF FlightItems
    <2>2. delivered \in Seq(Nat) /\ b \in Seq(Nat) /\ delivered \o b \in Seq(Nat)
      BY PipelineTypes, ItemsAreNat, ConcatProperties
    <2>3. Pipeline' = (delivered \o b) \o <<>>
      BY <1>2, <2>1 DEF Pipeline
    <2>4. Pipeline' = delivered \o b
      BY <2>2, <2>3, ConcatEmptySeq
    <2>5. delivered \o FlightItems = delivered
      BY <2>1, <2>2, ConcatEmptySeq
    <2>6. QED
      BY <2>4, <2>5
  <1>3. QED
    BY <1>1, <1>2, FlushOnFacts

-----------------------------------------------------------------------------
\* Typing and the single-flight discipline are inductive together.
TypeInv == TypeOK /\ SingleFlight

LEMMA TypeInvInit == Init => TypeInv
  <1> SUFFICES ASSUME Init PROVE TypeInv
    OBVIOUS
  <1>1. buffer \in Seq(Item) /\ delivered \in Seq(Item)
    BY EmptySeq DEF Init
  <1>2. QED
    <2>1. 1 \in 1..(MaxItems + 1) /\ 0 \in 0..(MaxItems + 1)
      BY BatchAssumption
    <2>2. "new" \in Phases
      BY DEF Phases
    <2>3. QED
      BY <1>1, <2>1, <2>2 DEF Init, TypeInv, TypeOK, SingleFlight

\* The catch block keeps the buffer and the dropped items well typed.
LEMMA RecoverTypes ==
    ASSUME TypeInv, NEW b \in inFlight, Recover(b)
    PROVE  buffer' \in Seq(Item) /\ dropped' \subseteq Item
  <1>1. b \in Seq(Item) /\ buffer \in Seq(Item) /\ dropped \subseteq Item
    BY DEF TypeInv, TypeOK
  <1>2. Items(b) \subseteq Item
    BY <1>1, ElementOfSeq DEF Items
  <1>3. CASE options.policy = "retain"
    BY <1>1, <1>3, ConcatProperties DEF Recover
  <1>4. CASE options.policy = "lose"
    BY <1>1, <1>2, <1>4 DEF Recover
  <1>5. CASE options.policy = "reintroduce"
    BY <1>1, <1>5, ConcatProperties DEF Recover
  <1>6. QED
    BY <1>3, <1>4, <1>5, OptionsTypes DEF TypeInv

\* Settling the only flush leaves none, and the flag down.
LEMMA SettleTypes ==
    ASSUME TypeInv, NEW b \in inFlight, Settle(b)
    PROVE  /\ SingleFlight' /\ inFlight' = {} /\ flushing' = FALSE
           /\ timer' \in BOOLEAN /\ phase' \in Phases
           /\ nextItem' \in 1..(MaxItems + 1) /\ cut' \in 0..(MaxItems + 1)
           /\ options' \in Setups
  <1>1. inFlight' = {} /\ flushing' = FALSE /\ SingleFlight'
    BY DEF TypeInv, SingleFlight, Settle
  <1>2. timer' \in BOOLEAN /\ nextItem' \in 1..(MaxItems + 1) /\ cut' \in 0..(MaxItems + 1)
    BY DEF TypeInv, TypeOK, Settle
  <1>3. phase' \in Phases
    BY DEF TypeInv, TypeOK, Settle, Phases
  <1>4. options' \in Setups
    BY DEF TypeInv, TypeOK, Settle
  <1>5. QED
    BY <1>1, <1>2, <1>3, <1>4

LEMMA TypeInvStep == TypeInv /\ [Next]_vars => TypeInv'
  <1> SUFFICES ASSUME TypeInv, [Next]_vars PROVE TypeInv'
    OBVIOUS
  <1> USE DEF TypeInv
  <1>1. CASE Start
    <2>1. "running" \in Phases
      BY DEF Phases
    <2>2. QED
      BY <1>1, <2>1, OptionsTypes DEF Start, TypeOK, SingleFlight
  <1>2. CASE Add
    <2>1. nextItem \in Item /\ nextItem' \in 1..(MaxItems + 1)
      BY <1>2, BatchAssumption DEF Add, TypeOK, Item
    <2>2. Append(buffer, nextItem) \in Seq(Item)
      BY <2>1, AppendProperties DEF TypeOK
    <2>3. CASE FlushOn(Append(buffer, nextItem))
      BY <1>2, <2>1, <2>2, <2>3, FlushOnFacts DEF Add, TypeOK
    <2>4. CASE buffer' = Append(buffer, nextItem) /\ UNCHANGED <<flushing, inFlight>>
      BY <1>2, <2>1, <2>2, <2>4 DEF Add, TypeOK, SingleFlight
    <2>5. QED
      BY <1>2, <2>3, <2>4 DEF Add
  <1>3. CASE ManualFlush \/ Tick
    <2>1. FlushOn(buffer) /\ UNCHANGED <<timer, phase, nextItem, delivered, dropped, cut, options>>
      BY <1>3 DEF ManualFlush, Tick
    <2>2. /\ buffer' \in Seq(Item) /\ flushing' \in BOOLEAN /\ inFlight' \subseteq Seq(Item)
          /\ SingleFlight'
      BY <2>1, FlushOnFacts DEF TypeOK
    <2>3. QED
      BY <2>1, <2>2 DEF TypeOK
  <1>4. ASSUME NEW b \in inFlight,
               FlushResolves(b) \/ FlushCompleteThrows(b) \/ FlushRejects(b)
        PROVE  TypeInv'
    <2>1. Settle(b)
      BY <1>4 DEF FlushResolves, FlushCompleteThrows, FlushRejects
    <2>2. buffer' \in Seq(Item) /\ dropped' \subseteq Item
      BY <1>4, RecoverTypes DEF FlushResolves, FlushCompleteThrows, FlushRejects, TypeOK
    <2>3. delivered' \in Seq(Item)
      <3>1. b \in Seq(Item) /\ delivered \in Seq(Item)
        BY DEF TypeOK
      <3>2. QED
        BY <1>4, <3>1, ConcatProperties DEF FlushResolves, FlushCompleteThrows, FlushRejects
    <2>4. QED
      BY <2>1, <2>2, <2>3, SettleTypes DEF TypeOK
  <1>5. CASE Clear
    <2>1. Items(buffer) \subseteq Item
      BY ElementOfSeq DEF Items, TypeOK
    <2>2. buffer' \in Seq(Item)
      BY <1>5, EmptySeq DEF Clear
    <2>3. QED
      BY <1>5, <2>1, <2>2 DEF Clear, TypeOK, SingleFlight
  <1>6. CASE Terminate
    <2>1. nextItem \in 0..(MaxItems + 1) /\ "stopping" \in Phases
      BY BatchAssumption DEF TypeOK, Phases
    <2>2. QED
      BY <1>6, <2>1 DEF Terminate, TypeOK, SingleFlight
  <1>7. CASE TerminateDrain
    <2>1. buffer \in Seq(Item) /\ FlushOn(buffer)
      BY <1>7 DEF TerminateDrain, TypeOK
    <2>2. QED
      BY <1>7, <2>1, FlushOnFacts DEF TerminateDrain, TypeOK, Phases
  <1>8. CASE UNCHANGED vars
    BY <1>8 DEF vars, TypeOK, SingleFlight
  <1>9. QED
    BY <1>1, <1>2, <1>3, <1>4, <1>5, <1>6, <1>7, <1>8 DEF Next

LEMMA TypeInvAlways == Spec => []TypeInv
  BY TypeInvInit, TypeInvStep, PTL DEF Spec

\* Every reachable state is well typed.
THEOREM BatchedTypeOK == Spec => []TypeOK
  <1>1. TypeInv => TypeOK
    BY DEF TypeInv
  <1>2. QED
    BY <1>1, TypeInvAlways, PTL

\* The flush callback is never invoked while another call of it is pending,
\* and the flag is up exactly while one is (line 68, lines 127-147).
THEOREM FlushNeverConcurrent == Spec => []SingleFlight
  <1>1. TypeInv => SingleFlight
    BY DEF TypeInv
  <1>2. QED
    BY <1>1, TypeInvAlways, PTL

-----------------------------------------------------------------------------
(***************************************************************************)
(* Order.  Increasing(Pipeline) alone is not inductive: a new item must be *)
(* above everything in the pipeline.                                       *)
(***************************************************************************)
OrderInv == Increasing(Pipeline) /\ Below(Pipeline, nextItem)

KeepsOrder ==
    \/ options.policy = "lose"
    \/ options.policy = "retain" /\ ~options.completeThrows

\* Settling empties the flight.
LEMMA SettledPipeline ==
    ASSUME TypeInv, TypeInv', NEW b \in inFlight, Settle(b)
    PROVE  FlightItems' = <<>> /\ FlightItems = b /\ b \in Seq(Nat) /\ Pipeline' = delivered' \o buffer'
  <1>1. FlightItems = b /\ b \in Seq(Item)
    <2>1. FlightItems = b
      BY FlightFacts DEF TypeInv
    <2>2. QED
      BY <2>1 DEF TypeInv, TypeOK
  <1>2. FlightItems' = <<>>
    BY SettleTypes DEF FlightItems
  <1>3. Pipeline' = (delivered' \o <<>>) \o buffer'
    BY <1>2 DEF Pipeline
  <1>4. delivered' \o <<>> = delivered'
    BY ConcatEmptySeq DEF TypeInv, TypeOK
  <1>5. QED
    BY <1>1, <1>2, <1>3, <1>4, ItemsAreNat

LEMMA OrderStep ==
    ASSUME KeepsOrder, TypeInv, TypeInv', OrderInv, [Next]_vars
    PROVE  OrderInv'
  <1> USE DEF TypeInv
  <1>0. nextItem \in Nat
    BY BatchAssumption DEF TypeOK
  <1>1. CASE Add
    <2> DEFINE b == Append(buffer, nextItem)
    <2>1. nextItem \in Item
      BY <1>1, BatchAssumption DEF Add, TypeOK, Item
    <2>2. b \in Seq(Item) /\ b = buffer \o <<nextItem>>
      BY <2>1, AppendProperties, AppendIsConcat DEF TypeOK
    <2>3. delivered' = delivered /\ nextItem' = nextItem + 1
      BY <1>1 DEF Add
    <2>4. Pipeline' = (delivered \o FlightItems) \o b
      <3>1. CASE FlushOn(b)
        BY <2>2, <2>3, <3>1, FlushOnPipeline
      <3>2. CASE buffer' = b /\ UNCHANGED <<flushing, inFlight>>
        BY <2>3, <3>2 DEF Pipeline, FlightItems
      <3>3. QED
        BY <1>1, <3>1, <3>2 DEF Add
    <2>5. Pipeline' = Pipeline \o <<nextItem>>
      <3>1. <<nextItem>> \in Seq(Nat)
        BY <1>0
      <3>2. /\ delivered \o FlightItems \in Seq(Nat) /\ buffer \in Seq(Nat)
            /\ Pipeline = (delivered \o FlightItems) \o buffer
        BY PipelineTypes
      <3>3. ((delivered \o FlightItems) \o buffer) \o <<nextItem>>
               = (delivered \o FlightItems) \o (buffer \o <<nextItem>>)
        BY <3>1, <3>2, NatConcat
      <3> HIDE DEF b
      <3>4. QED
        BY <2>2, <2>4, <3>2, <3>3
    <2>6. QED
      BY <1>0, <2>3, <2>5, PipelineTypes, IncreasingAppend DEF OrderInv
  <1>2. CASE ManualFlush \/ Tick \/ TerminateDrain
    <2>1. FlushOn(buffer) /\ buffer \in Seq(Item) /\ delivered' = delivered /\ nextItem' = nextItem
      BY <1>2 DEF ManualFlush, Tick, TerminateDrain, TypeOK
    <2>2. Pipeline' = Pipeline
      BY <2>1, FlushOnPipeline, PipelineTypes
    <2>3. QED
      BY <2>1, <2>2 DEF OrderInv
  <1>3. ASSUME NEW b \in inFlight, FlushResolves(b) PROVE OrderInv'
    <2>1. Settle(b) /\ delivered' = delivered \o b /\ buffer' = buffer /\ nextItem' = nextItem
      BY <1>3 DEF FlushResolves, Settle
    <2>2. Pipeline' = Pipeline
      BY <2>1, SettledPipeline, PipelineTypes
    <2>3. QED
      BY <2>1, <2>2 DEF OrderInv
  <1>4. ASSUME NEW b \in inFlight, FlushRejects(b) PROVE OrderInv'
    <2>1. Settle(b) /\ Recover(b) /\ delivered' = delivered /\ nextItem' = nextItem
      BY <1>4 DEF FlushRejects, Settle
    <2>t. /\ delivered \in Seq(Nat) /\ b \in Seq(Nat) /\ buffer \in Seq(Nat)
          /\ Pipeline = (delivered \o b) \o buffer
          /\ Pipeline' = delivered' \o buffer'
      BY <2>1, SettledPipeline, PipelineTypes
    <2>2. CASE options.policy = "retain"
      <3>1. Pipeline' = delivered \o (b \o buffer)
        BY <2>1, <2>t, <2>2 DEF Recover
      <3>2. Pipeline' = Pipeline
        BY <2>t, <3>1, NatConcat
      <3>3. QED
        BY <2>1, <3>2 DEF OrderInv
    <2>3. CASE options.policy = "lose"
      <3>1. Pipeline' = delivered \o buffer
        BY <2>1, <2>t, <2>3 DEF Recover
      <3>2. Increasing((delivered \o b) \o buffer) /\ Below((delivered \o b) \o buffer, nextItem)
        BY <2>t, Zenon DEF OrderInv
      <3>3. Increasing(delivered \o buffer) /\ Below(delivered \o buffer, nextItem)
        BY <2>t, <3>2, IncreasingCut
      <3>4. QED
        BY <2>1, <3>1, <3>3 DEF OrderInv
    <2>4. QED
      BY <2>2, <2>3 DEF KeepsOrder
  <1>5. ASSUME NEW b \in inFlight, FlushCompleteThrows(b) PROVE OrderInv'
    <2>1. options.policy = "lose"
      BY <1>5 DEF FlushCompleteThrows, KeepsOrder
    <2>2. Settle(b) /\ delivered' = delivered \o b /\ buffer' = buffer /\ nextItem' = nextItem
      BY <1>5, <2>1 DEF FlushCompleteThrows, Settle, Recover
    <2>3. Pipeline' = Pipeline
      BY <2>2, SettledPipeline, PipelineTypes
    <2>4. QED
      BY <2>2, <2>3 DEF OrderInv
  <1>6. CASE Clear
    <2>1. buffer' = <<>> /\ delivered' = delivered /\ inFlight' = inFlight /\ nextItem' = nextItem
      BY <1>6 DEF Clear
    <2>2. Pipeline' = (delivered \o FlightItems) \o <<>>
      BY <2>1 DEF Pipeline, FlightItems
    <2>3. Pipeline = ((delivered \o FlightItems) \o buffer) \o <<>>
      BY PipelineTypes, ConcatEmptySeq
    <2>4. <<>> \in Seq(Nat)
      BY EmptySeq
    <2>5. QED
      BY <2>1, <2>2, <2>3, <2>4, PipelineTypes, IncreasingCut DEF OrderInv
  <1>7. CASE Start \/ Terminate \/ UNCHANGED vars
    <2>1. UNCHANGED <<buffer, inFlight, delivered, nextItem>>
      BY <1>7 DEF Start, Terminate, vars
    <2>2. QED
      BY <2>1 DEF OrderInv, Pipeline, FlightItems
  <1>8. QED
    BY <1>1, <1>2, <1>3, <1>4, <1>5, <1>6, <1>7 DEF Next

\* Nothing changes the options of a batcher.
LEMMA OptionsStay == [Next]_vars => options' = options
  BY DEF Next, vars, Start, Add, ManualFlush, Tick, FlushResolves, FlushCompleteThrows,
         FlushRejects, Settle, Clear, Terminate, TerminateDrain

LEMMA OptionsFixed == [Next]_vars => (KeepsOrder' <=> KeepsOrder)
  BY OptionsStay DEF KeepsOrder

\* Items are delivered in the order of their add, each at most once: with
\* 'lose' always, with 'retain' as long as onFlushComplete does not throw
\* (lines 16-18 and 137-141).
THEOREM DeliveryInOrder == Spec => []DeliveredInOrder
  <1> DEFINE Inv == KeepsOrder => OrderInv
  <1>1. Init => Inv
    <2> SUFFICES ASSUME Init PROVE OrderInv
      OBVIOUS
    <2>1. <<>> \o <<>> = <<>>
      BY EmptySeq, ConcatEmptySeq
    <2>2. Pipeline = <<>>
      BY <2>1 DEF Init, Pipeline, FlightItems
    <2>3. QED
      BY <2>2 DEF OrderInv, Increasing, Below
  <1>2. TypeInv /\ TypeInv' /\ Inv /\ [Next]_vars => Inv'
    BY OrderStep, OptionsFixed
  <1>3. Inv => DeliveredInOrder
    BY DEF OrderInv, DeliveredInOrder, KeepsOrder
  <1> HIDE DEF Inv
  <1>4. QED
    BY <1>1, <1>2, <1>3, TypeInvAlways, PTL DEF Spec

-----------------------------------------------------------------------------
(***************************************************************************)
(* Where the items are.  As sets, what was delivered, what is in flight,   *)
(* what is buffered and what was given up split the items added so far.    *)
(***************************************************************************)
Flying == Items(FlightItems)

Splits(d, f, b, x, n) ==
    /\ d \cap f = {} /\ d \cap b = {} /\ d \cap x = {}
    /\ f \cap b = {} /\ f \cap x = {} /\ b \cap x = {}
    /\ d \cup f \cup b \cup x = 1..(n - 1)

SplitInv == Splits(Items(delivered), Flying, Items(buffer), dropped, nextItem)

LEMMA ItemsOfEmpty == Items(<<>>) = {}
  BY DEF Items

LEMMA ItemsOfConcat ==
    ASSUME NEW s \in Seq(Nat), NEW t \in Seq(Nat)
    PROVE  Items(s \o t) = Items(s) \cup Items(t)
  <1>1. /\ Len(s) \in Nat /\ Len(t) \in Nat /\ Len(s \o t) = Len(s) + Len(t)
        /\ \A i \in 1..(Len(s) + Len(t)) : (s \o t)[i] = IF i <= Len(s) THEN s[i] ELSE t[i - Len(s)]
    BY ConcatProperties
  <1>2. ASSUME NEW i \in 1..Len(s \o t) PROVE (s \o t)[i] \in Items(s) \cup Items(t)
    <2>1. CASE i <= Len(s)
      BY <1>1, <2>1 DEF Items
    <2>2. CASE ~(i <= Len(s))
      <3>1. i - Len(s) \in 1..Len(t) /\ (s \o t)[i] = t[i - Len(s)]
        BY <1>1, <2>2
      <3>2. QED
        BY <3>1 DEF Items
    <2>3. QED
      BY <2>1, <2>2
  <1>3. ASSUME NEW i \in 1..Len(s) PROVE s[i] \in Items(s \o t)
    <2>1. i \in 1..Len(s \o t) /\ (s \o t)[i] = s[i]
      BY <1>1
    <2>2. QED
      BY <2>1 DEF Items
  <1>4. ASSUME NEW i \in 1..Len(t) PROVE t[i] \in Items(s \o t)
    <2>1. /\ i + Len(s) \in 1..Len(s \o t) /\ ~(i + Len(s) <= Len(s))
          /\ (i + Len(s)) - Len(s) = i
      BY <1>1
    <2>2. (s \o t)[i + Len(s)] = t[i]
      BY <1>1, <2>1
    <2>3. QED
      BY <2>1, <2>2 DEF Items
  <1>5. /\ \A e \in Items(s \o t) : e \in Items(s) \cup Items(t)
        /\ \A e \in Items(s) : e \in Items(s \o t)
        /\ \A e \in Items(t) : e \in Items(s \o t)
    BY <1>2, <1>3, <1>4, Zenon DEF Items
  <1>6. QED
    BY <1>5, Zenon

\* An item is one of a batch in flight if it flies.
LEMMA FlyingItems ==
    ASSUME TypeInv, NEW i
    PROVE  i \in Flying <=> \E b \in inFlight : i \in Items(b)
  <1>1. CASE inFlight = {}
    BY <1>1, ItemsOfEmpty DEF Flying, FlightItems
  <1>2. CASE inFlight # {}
    BY <1>2, FlightFacts DEF Flying, TypeInv
  <1>3. QED
    BY <1>1, <1>2

\* A flush on b moves the items of b as a whole, or not at all.
LEMMA FlushOnSplit ==
    ASSUME TypeInv, TypeInv', NEW b \in Seq(Item), FlushOn(b), NEW d, NEW x, NEW n,
           Splits(d, Flying, Items(b), x, n)
    PROVE  Splits(d, Flying', Items(buffer'), x, n)
  <1>1. CASE buffer' = b /\ inFlight' = inFlight
    BY <1>1 DEF Flying, FlightItems
  <1>2. CASE buffer' = <<>> /\ inFlight = {} /\ inFlight' = {b}
    <2>1. Flying = {} /\ Flying' = Items(b) /\ Items(buffer') = {}
      BY <1>2, ItemsOfEmpty DEF Flying, FlightItems
    <2>2. QED
      BY <2>1 DEF Splits
  <1>3. QED
    BY <1>1, <1>2, FlushOnFacts DEF TypeInv

\* When the flight of b is over nothing flies.
LEMMA SettledSplit ==
    ASSUME TypeInv, TypeInv', NEW b \in inFlight, Settle(b)
    PROVE  /\ Flying = Items(b) /\ Flying' = {}
           /\ b \in Seq(Nat) /\ delivered \in Seq(Nat) /\ buffer \in Seq(Nat)
  BY SettledPipeline, PipelineTypes, ItemsOfEmpty DEF Flying, TypeInv

LEMMA SplitStep ==
    ASSUME ~options.completeThrows, TypeInv, TypeInv', SplitInv, [Next]_vars
    PROVE  SplitInv'
  <1>0. nextItem \in Nat \ {0} /\ buffer \in Seq(Item) /\ buffer \in Seq(Nat)
    BY BatchAssumption, ItemsAreNat DEF TypeInv, TypeOK
  <1>1. CASE Add
    <2> DEFINE b == Append(buffer, nextItem)
    <2>1. nextItem \in Item
      BY <1>1, BatchAssumption DEF Add, TypeInv, TypeOK, Item
    <2>2. b \in Seq(Item) /\ b = buffer \o <<nextItem>> /\ <<nextItem>> \in Seq(Nat)
      BY <1>0, <2>1, AppendProperties, AppendIsConcat
    <2>3. Items(<<nextItem>>) = {nextItem}
      BY DEF Items
    <2>4. Items(b) = Items(buffer) \cup {nextItem}
      BY <1>0, <2>2, <2>3, ItemsOfConcat
    <2>5. delivered' = delivered /\ dropped' = dropped /\ nextItem' = nextItem + 1
      BY <1>1 DEF Add
    <2>6. 1..(nextItem + 1 - 1) = 1..(nextItem - 1) \cup {nextItem} /\ nextItem \notin 1..(nextItem - 1)
      BY <1>0
    <2> HIDE DEF b
    <2>7. Splits(Items(delivered), Flying, Items(b), dropped, nextItem + 1)
      BY <2>4, <2>6 DEF SplitInv, Splits
    <2>8. CASE FlushOn(b)
      BY <2>2, <2>5, <2>7, <2>8, FlushOnSplit DEF SplitInv
    <2>9. CASE buffer' = b /\ UNCHANGED <<flushing, inFlight>>
      BY <2>5, <2>7, <2>9 DEF SplitInv, Flying, FlightItems
    <2>10. QED
      BY <1>1, <2>8, <2>9 DEF Add, b
  <1>2. CASE ManualFlush \/ Tick \/ TerminateDrain
    <2>1. FlushOn(buffer) /\ delivered' = delivered /\ dropped' = dropped /\ nextItem' = nextItem
      BY <1>2 DEF ManualFlush, Tick, TerminateDrain
    <2>2. QED
      BY <1>0, <2>1, FlushOnSplit DEF SplitInv
  <1>3. ASSUME NEW b \in inFlight, FlushResolves(b) PROVE SplitInv'
    <2>1. /\ Settle(b) /\ delivered' = delivered \o b
          /\ buffer' = buffer /\ dropped' = dropped /\ nextItem' = nextItem
      BY <1>3 DEF FlushResolves, Settle
    <2>2. Items(delivered') = Items(delivered) \cup Flying /\ Flying' = {}
      BY <2>1, SettledSplit, ItemsOfConcat
    <2>3. QED
      BY <2>1, <2>2 DEF SplitInv, Splits
  <1>4. ASSUME NEW b \in inFlight, FlushRejects(b) PROVE SplitInv'
    <2>1. Settle(b) /\ Recover(b) /\ delivered' = delivered /\ nextItem' = nextItem
      BY <1>4 DEF FlushRejects, Settle
    <2>2. Flying = Items(b) /\ Flying' = {} /\ b \in Seq(Nat) /\ buffer \in Seq(Nat)
      BY <2>1, SettledSplit
    <2>3. \/ dropped' = dropped \cup Items(b) /\ buffer' = buffer
          \/ buffer' \in {b \o buffer, buffer \o b} /\ dropped' = dropped
      BY <2>1, OptionsTypes DEF Recover, TypeInv
    <2>4. \/ dropped' = dropped \cup Flying /\ Items(buffer') = Items(buffer)
          \/ Items(buffer') = Items(buffer) \cup Flying /\ dropped' = dropped
      <3>1. /\ Items(b \o buffer) = Items(b) \cup Items(buffer)
            /\ Items(buffer \o b) = Items(buffer) \cup Items(b)
        BY <2>2, ItemsOfConcat
      <3>2. QED
        BY <2>2, <2>3, <3>1
    <2>5. QED
      BY <2>1, <2>2, <2>4 DEF SplitInv, Splits
  <1>5. ASSUME NEW b \in inFlight, FlushCompleteThrows(b) PROVE FALSE
    BY <1>5 DEF FlushCompleteThrows
  <1>6. CASE Clear
    <2>1. /\ buffer' = <<>> /\ dropped' = dropped \cup Items(buffer)
          /\ delivered' = delivered /\ inFlight' = inFlight /\ nextItem' = nextItem
      BY <1>6 DEF Clear
    <2>2. Items(buffer') = {} /\ Flying' = Flying
      BY <2>1, ItemsOfEmpty DEF Flying, FlightItems
    <2>3. QED
      BY <2>1, <2>2 DEF SplitInv, Splits
  <1>7. CASE Start \/ Terminate \/ UNCHANGED vars
    BY <1>7 DEF Start, Terminate, vars, SplitInv, Flying, FlightItems
  <1>8. QED
    BY <1>1, <1>2, <1>3, <1>4, <1>5, <1>6, <1>7 DEF Next

LEMMA SplitAccounts == ASSUME TypeInv, SplitInv PROVE EveryItemAccounted
  <1>1. SUFFICES ASSUME NEW i \in 1..(nextItem - 1)
                 PROVE  LET at == << i \in Items(delivered),
                                     \E b \in inFlight : i \in Items(b),
                                     i \in Items(buffer),
                                     i \in dropped >>
                        IN  \E p \in 1..4 : at[p] /\ \A q \in 1..4 : at[q] => q = p
    BY DEF EveryItemAccounted
  <1> DEFINE at == << i \in Items(delivered), \E b \in inFlight : i \in Items(b),
                     i \in Items(buffer), i \in dropped >>
  <1>2. /\ at[1] <=> i \in Items(delivered)
        /\ at[2] <=> i \in Flying
        /\ at[3] <=> i \in Items(buffer)
        /\ at[4] <=> i \in dropped
    BY FlyingItems
  <1> HIDE DEF at
  <1>3. \A q \in 1..4 : q = 1 \/ q = 2 \/ q = 3 \/ q = 4
    OBVIOUS
  <1>4. 1 \in 1..4 /\ 2 \in 1..4 /\ 3 \in 1..4 /\ 4 \in 1..4
    OBVIOUS
  <1>5. \/ at[1] /\ ~at[2] /\ ~at[3] /\ ~at[4]
        \/ at[2] /\ ~at[1] /\ ~at[3] /\ ~at[4]
        \/ at[3] /\ ~at[1] /\ ~at[2] /\ ~at[4]
        \/ at[4] /\ ~at[1] /\ ~at[2] /\ ~at[3]
    BY <1>2 DEF SplitInv, Splits
  <1>6. \E p \in 1..4 : at[p] /\ \A q \in 1..4 : at[q] => q = p
    BY <1>3, <1>4, <1>5, Zenon
  <1>7. QED
    BY <1>6 DEF at

\* However adds, ticks, manual flushes, rejections, clears and the shutdown interleave,
\* every item added is in one place, and in one only, as long as onFlushComplete does
\* not throw after the delivery (lines 127-147).
THEOREM NoItemVanishes == Spec => []EveryItemAccounted
  <1> DEFINE Inv == ~options.completeThrows => SplitInv
  <1>1. Init => Inv
    BY ItemsOfEmpty DEF Init, SplitInv, Splits, Flying, FlightItems
  <1>2. TypeInv /\ TypeInv' /\ Inv /\ [Next]_vars => Inv'
    <2>1. [Next]_vars => options' = options
      BY OptionsStay
    <2>2. QED
      BY <2>1, SplitStep
  <1>3. TypeInv /\ Inv => EveryItemAccounted
    BY SplitAccounts DEF EveryItemAccounted
  <1> HIDE DEF Inv
  <1>4. QED
    BY <1>1, <1>2, <1>3, TypeInvAlways, PTL DEF Spec
=============================================================================
