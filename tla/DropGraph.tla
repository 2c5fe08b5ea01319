------------------------------ MODULE DropGraph ------------------------------
(***************************************************************************)
(* The wiring of a drop graph (dlg/drop.py): the relationship methods of   *)
(* AbstractDROP (addConsumer, addProducer, addStreamingConsumer), of       *)
(* AppDROP (addInput, addOutput, addStreamingInput) and of                 *)
(* InputFiredAppDROP (addStreamingInput raises), the parent setter and     *)
(* ContainerDROP.addChild.  Every method registers the other side through  *)
(* a call with back=False, and subscribes event listeners.                 *)
(*                                                                         *)
(* The graph is built by one thread, as the graph loader does: every step *)
(* is one call from outside (back=True, the default) with everything it   *)
(* calls, including the exception a nested call raises after the caller  *)
(* has already registered its own side.                                   *)
(*                                                                         *)
(* Each ListAsDict and OrderedDict of related drops is a sequence in       *)
(* insertion order; its uid set is the set of the sequence's elements.   *)
(* The event subscriptions are a sequence of <<publisher, subscriber,     *)
(* eventType>> in subscription order (EventFirer.subscribe appends).       *)
(***************************************************************************)
EXTENDS Integers, Sequences, FiniteSets, SequencesExt

CONSTANTS
  Data,        \* DataDROPs
  Apps,        \* AppDROPs (each is also a ContainerDROP)
  Boxes,       \* plain ContainerDROPs
  AppClasses,  \* classes an app may have: "AppDROP", "InputFiredAppDROP"
  Modes,       \* executionMode values a data drop may be built with
  MaxCalls,    \* bound on the calls that build the graph
  NONE         \* Python None

ASSUME AppClasses \subseteq {"AppDROP", "InputFiredAppDROP"}
ASSUME Modes \subseteq {"DROP", "EXTERNAL"}
ASSUME MaxCalls \in Nat

Drops      == Data \cup Apps \cup Boxes
Containers == Apps \cup Boxes

VARIABLES
  appClass,            \* per app: its class
  executionMode,       \* per data drop: _executionMode
  consumers,           \* per data drop: _consumers
  streamingConsumers,  \* per data drop: _streamingConsumers
  producers,           \* per data drop: _producers
  inputs,              \* per app: _inputs
  streamingInputs,     \* per app: _streamingInputs
  outputs,             \* per app: _outputs
  parent,              \* per drop: _parent
  children,            \* per container: _children
  subs,                \* event subscriptions made
  calls                \* calls made so far

vars == <<appClass, executionMode, consumers, streamingConsumers, producers,
          inputs, streamingInputs, outputs, parent, children, subs, calls>>

\* `uid in self._x_uids`: the ListAsDict's set holds the uid of every drop
\* appended to the list.
In(x, list) == x \in ToSet(list)

\* EventFirer.subscribe(listener, eventType)
Subscribe(pub, sub, type) == <<pub, sub, type>>

\* AppDROP.initialize(): no inputs, outputs or streaming inputs yet.
AppInit ==
  /\ inputs = [a \in Apps |-> <<>>]
  /\ streamingInputs = [a \in Apps |-> <<>>]
  /\ outputs = [a \in Apps |-> <<>>]

\* ContainerDROP.initialize(): no children yet.
ContainerInit == children = [k \in Containers |-> <<>>]

Init ==
  /\ appClass \in [Apps -> AppClasses]
  /\ executionMode \in [Data -> Modes]
  /\ consumers = [d \in Data |-> <<>>]
  /\ streamingConsumers = [d \in Data |-> <<>>]
  /\ producers = [d \in Data |-> <<>>]
  /\ parent = [x \in Drops |-> NONE]
  /\ AppInit
  /\ ContainerInit
  /\ subs = <<>>
  /\ calls = 0

Call == calls < MaxCalls /\ calls' = calls + 1

-----------------------------------------------------------------------------
(***************************************************************************)
(* Consumers and inputs                                                    *)
(***************************************************************************)
\* Mutant: the data side appends a consumer without testing that it is one
\* already.
RegisterConsumerNoDupCheck(d, a) ==
  IF In(a, streamingConsumers[d])
    THEN UNCHANGED <<consumers, subs>>
    ELSE /\ consumers' = [consumers EXCEPT ![d] = Append(@, a)]
         /\ subs' = subs \o (IF executionMode[d] = "DROP"
                               THEN <<Subscribe(d, a, "dropCompleted")>>
                               ELSE <<>>)
                         \o <<Subscribe(d, a, "reproducibility")>>

\* The data side of d.addConsumer(a): raise if a is a streaming consumer,
\* return if it is a consumer already, else append it and subscribe it to
\* dropCompleted (in the DROP execution mode) and to reproducibility.
RegisterConsumer(d, a) ==
  IF In(a, streamingConsumers[d]) \/ In(a, consumers[d])
    THEN UNCHANGED <<consumers, subs>>
    ELSE /\ consumers' = [consumers EXCEPT ![d] = Append(@, a)]
         /\ subs' = subs \o (IF executionMode[d] = "DROP"
                               THEN <<Subscribe(d, a, "dropCompleted")>>
                               ELSE <<>>)
                         \o <<Subscribe(d, a, "reproducibility")>>

\* Mutant: addConsumer() without the back reference.
AddConsumerNoBack(d, a) ==
  /\ Call
  /\ RegisterConsumer(d, a)
  /\ UNCHANGED <<appClass, executionMode, streamingConsumers, producers,
                 inputs, streamingInputs, outputs, parent, children>>

\* d.addConsumer(a): with the back reference a.addInput(d, False) when a
\* is newly appended.
AddConsumer(d, a) ==
  /\ Call
  /\ RegisterConsumer(d, a)
  /\ inputs' = IF ~In(a, streamingConsumers[d]) /\ ~In(a, consumers[d])
                  /\ ~In(d, inputs[a])
                 THEN [inputs EXCEPT ![a] = Append(@, d)] ELSE inputs
  /\ UNCHANGED <<appClass, executionMode, streamingConsumers, producers,
                 streamingInputs, outputs, parent, children>>

\* a.addInput(d): a new input is stored before d.addConsumer(a, False),
\* which may raise.
AddInput(a, d) ==
  /\ Call
  /\ IF In(d, inputs[a])
       THEN UNCHANGED <<inputs, consumers, subs>>
       ELSE /\ inputs' = [inputs EXCEPT ![a] = Append(@, d)]
            /\ RegisterConsumer(d, a)
  /\ UNCHANGED <<appClass, executionMode, streamingConsumers, producers,
                 streamingInputs, outputs, parent, children>>

-----------------------------------------------------------------------------
(***************************************************************************)
(* Streaming consumers and streaming inputs                                *)
(***************************************************************************)
\* Mutant: the streaming registration does not test for a normal consumer.
RegisterStreamingConsumerNoKindCheck(d, a) ==
  IF In(a, streamingConsumers[d])
    THEN UNCHANGED <<streamingConsumers, subs>>
    ELSE /\ streamingConsumers' = [streamingConsumers EXCEPT ![d] = Append(@, a)]
         /\ subs' = subs \o (IF executionMode[d] = "DROP"
                               THEN <<Subscribe(d, a, "dropCompleted")>>
                               ELSE <<>>)
                         \o <<Subscribe(d, a, "reproducibility")>>

\* The data side of d.addStreamingConsumer(a, False).
RegisterStreamingConsumer(d, a) ==
  IF In(a, consumers[d]) \/ In(a, streamingConsumers[d])
    THEN UNCHANGED <<streamingConsumers, subs>>
    ELSE /\ streamingConsumers' = [streamingConsumers EXCEPT ![d] = Append(@, a)]
         /\ subs' = subs \o (IF executionMode[d] = "DROP"
                               THEN <<Subscribe(d, a, "dropCompleted")>>
                               ELSE <<>>)
                         \o <<Subscribe(d, a, "reproducibility")>>

\* d.addStreamingConsumer(a): the back reference a.addStreamingInput(d,
\* False) comes between the append and the subscriptions; an
\* InputFiredAppDROP raises there.
AddStreamingConsumer(d, a) ==
  /\ Call
  /\ IF In(a, consumers[d]) \/ In(a, streamingConsumers[d])
          \/ appClass[a] = "AppDROP"
       THEN /\ RegisterStreamingConsumer(d, a)
            /\ streamingInputs' =
                 IF ~In(a, consumers[d]) /\ ~In(a, streamingConsumers[d])
                    /\ ~In(d, streamingInputs[a])
                   THEN [streamingInputs EXCEPT ![a] = Append(@, d)]
                   ELSE streamingInputs
       ELSE /\ streamingConsumers' = [streamingConsumers EXCEPT ![d] = Append(@, a)]
            /\ UNCHANGED <<streamingInputs, subs>>
  /\ UNCHANGED <<appClass, executionMode, consumers, producers, inputs,
                 outputs, parent, children>>

\* a.addStreamingInput(d): InputFiredAppDROP raises at once; AppDROP
\* stores a new streaming input, then calls d.addStreamingConsumer(a,
\* False), which may raise.
AddStreamingInput(a, d) ==
  /\ Call
  /\ IF appClass[a] = "InputFiredAppDROP" \/ In(d, streamingInputs[a])
       THEN UNCHANGED <<streamingInputs, streamingConsumers, subs>>
       ELSE /\ streamingInputs' = [streamingInputs EXCEPT ![a] = Append(@, d)]
            /\ RegisterStreamingConsumer(d, a)
  /\ UNCHANGED <<appClass, executionMode, consumers, producers, inputs,
                 outputs, parent, children>>

-----------------------------------------------------------------------------
(***************************************************************************)
(* Producers and outputs                                                   *)
(***************************************************************************)
\* The app side of a.addOutput(d, False): a new output is stored and
\* subscribed to the app's producerFinished.
RegisterOutput(a, d) ==
  IF In(d, outputs[a])
    THEN UNCHANGED <<outputs, subs>>
    ELSE /\ outputs' = [outputs EXCEPT ![a] = Append(@, d)]
         /\ subs' = Append(subs, Subscribe(a, d, "producerFinished"))

\* d.addProducer(a): a new producer is appended, then a.addOutput(d, False).
AddProducer(d, a) ==
  /\ Call
  /\ IF In(a, producers[d])
       THEN UNCHANGED <<producers, outputs, subs>>
       ELSE /\ producers' = [producers EXCEPT ![d] = Append(@, a)]
            /\ RegisterOutput(a, d)
  /\ UNCHANGED <<appClass, executionMode, consumers, streamingConsumers,
                 inputs, streamingInputs, parent, children>>

\* Mutant: addOutput() without the test that the output is not the app.
AddOutputNoSelfCheck(a, o) ==
  /\ Call
  /\ IF In(o, outputs[a])
       THEN UNCHANGED <<outputs, producers, subs>>
       ELSE /\ outputs' = [outputs EXCEPT ![a] = Append(@, o)]
            /\ producers' = IF o \in Data /\ ~In(a, producers[o])
                              THEN [producers EXCEPT ![o] = Append(@, a)]
                              ELSE producers
            /\ subs' = Append(subs, Subscribe(a, o, "producerFinished"))
  /\ UNCHANGED <<appClass, executionMode, consumers, streamingConsumers,
                 inputs, streamingInputs, parent, children>>

\* Mutant: addOutput() subscribes the output also when it is one already.
AddOutputSubscribeAlways(a, o) ==
  /\ Call
  /\ o # a
  /\ outputs' = IF In(o, outputs[a]) THEN outputs
                ELSE [outputs EXCEPT ![a] = Append(@, o)]
  /\ producers' = IF In(a, producers[o]) THEN producers
                  ELSE [producers EXCEPT ![o] = Append(@, a)]
  /\ subs' = Append(subs, Subscribe(a, o, "producerFinished"))
  /\ UNCHANGED <<appClass, executionMode, consumers, streamingConsumers,
                 inputs, streamingInputs, parent, children>>

\* a.addOutput(o): an app is refused as its own output; a new output is
\* stored, registered with o.addProducer(a, False) and subscribed.
AddOutput(a, o) ==
  /\ Call
  /\ IF o = a \/ In(o, outputs[a])
       THEN UNCHANGED <<outputs, producers, subs>>
       ELSE /\ outputs' = [outputs EXCEPT ![a] = Append(@, o)]
            /\ producers' = IF In(a, producers[o]) THEN producers
                            ELSE [producers EXCEPT ![o] = Append(@, a)]
            /\ subs' = Append(subs, Subscribe(a, o, "producerFinished"))
  /\ UNCHANGED <<appClass, executionMode, consumers, streamingConsumers,
                 inputs, streamingInputs, parent, children>>

-----------------------------------------------------------------------------
(***************************************************************************)
(* Containers                                                              *)
(***************************************************************************)
\* Mutant: the setter keeps the new parent when addChild() raises.
SetParentNoRestore(x, p) ==
  /\ Call
  /\ parent' = [parent EXCEPT ![x] = p]
  /\ children' = IF In(x, children[p]) \/ x = p \/ x = parent[p] THEN children
                 ELSE [children EXCEPT ![p] = Append(@, x)]
  /\ UNCHANGED <<appClass, executionMode, consumers, streamingConsumers,
                 producers, inputs, streamingInputs, outputs, subs>>

\* x.parent = p: the parent is set first; if x is not yet among p's
\* children, p.addChild(x) runs, and its exception (x is p's parent, which
\* it is already when x is p itself) restores the previous parent.  The nested x.parent = p of addChild
\* changes nothing more.
SetParent(x, p) ==
  /\ Call
  /\ CASE In(x, children[p]) ->
            /\ parent' = [parent EXCEPT ![x] = p]
            /\ UNCHANGED children
       [] x = p \/ x = parent[p] -> UNCHANGED <<parent, children>>
       [] OTHER ->
            /\ parent' = [parent EXCEPT ![x] = p]
            /\ children' = [children EXCEPT ![p] = Append(@, x)]
  /\ UNCHANGED <<appClass, executionMode, consumers, streamingConsumers,
                 producers, inputs, streamingInputs, outputs, subs>>

\* k.addChild(c): refused when c is k's parent; otherwise c is appended
\* (with no test that it is there already) and c.parent = k runs, which
\* finds c among k's children and only sets the parent.
AddChild(k, c) ==
  /\ Call
  /\ IF c = parent[k]
       THEN UNCHANGED <<parent, children>>
       ELSE /\ children' = [children EXCEPT ![k] = Append(@, c)]
            /\ parent' = [parent EXCEPT ![c] = k]
  /\ UNCHANGED <<appClass, executionMode, consumers, streamingConsumers,
                 producers, inputs, streamingInputs, outputs, subs>>

-----------------------------------------------------------------------------
(***************************************************************************)
(* DROPLinkType, and the method a graph loader calls on a drop x to relate *)
(* it to y (LINKTYPE_1TON_APPEND_METHOD, and the parent property of        *)
(* LINKTYPE_NTO1_PROPERTY).                                                *)
(***************************************************************************)
LinkTypes == {"CONSUMER", "STREAMING_CONSUMER", "INPUT", "STREAMING_INPUT",
              "OUTPUT", "CHILD", "PRODUCER", "PARENT"}

LinkAppend(lt, x, y) ==
  CASE lt = "CONSUMER"           -> AddConsumer(x, y)
    [] lt = "STREAMING_CONSUMER" -> AddStreamingConsumer(x, y)
    [] lt = "INPUT"              -> AddInput(x, y)
    [] lt = "STREAMING_INPUT"    -> AddStreamingInput(x, y)
    [] lt = "OUTPUT"             -> AddOutput(x, y)
    [] lt = "CHILD"              -> AddChild(x, y)
    [] lt = "PRODUCER"           -> AddProducer(x, y)
    [] lt = "PARENT"             -> SetParent(x, y)

\* The pairs each link is made between: data drops and apps, an app and
\* itself as an output (which addOutput refuses), containers and drops.
LinkEnds(lt) ==
  CASE lt \in {"CONSUMER", "STREAMING_CONSUMER", "PRODUCER"} -> Data \X Apps
    [] lt \in {"INPUT", "STREAMING_INPUT"}            -> Apps \X Data
    [] lt = "OUTPUT" -> (Apps \X Data) \cup {<<a, a>> : a \in Apps}
    [] lt = "CHILD"  -> Containers \X Drops
    [] lt = "PARENT" -> Drops \X Containers

Next ==
  \E lt \in LinkTypes : \E e \in LinkEnds(lt) : LinkAppend(lt, e[1], e[2])

Spec == Init /\ [][Next]_vars

-----------------------------------------------------------------------------
(***************************************************************************)
(* Properties                                                              *)
(***************************************************************************)
TypeOK ==
  /\ appClass \in [Apps -> AppClasses]
  /\ executionMode \in [Data -> Modes]
  /\ consumers \in [Data -> Seq(Apps)]
  /\ streamingConsumers \in [Data -> Seq(Apps)]
  /\ producers \in [Data -> Seq(Apps)]
  /\ inputs \in [Apps -> Seq(Data)]
  /\ streamingInputs \in [Apps -> Seq(Data)]
  /\ outputs \in [Apps -> Seq(Data)]
  /\ parent \in [Drops -> Containers \cup {NONE}]
  /\ children \in [Containers -> Seq(Drops)]
  /\ calls \in 0..MaxCalls

\* How often a subscription was made.
Times(t) == Cardinality({i \in DOMAIN subs : subs[i] = t})

\* spec: registering the same drop twice is a no-op -- whichever side the
\* graph is wired from, no list of related drops holds a drop twice.
RegistrationIdempotent ==
  /\ \A d \in Data : /\ IsInjective(consumers[d])
                     /\ IsInjective(streamingConsumers[d])
                     /\ IsInjective(producers[d])
  /\ \A a \in Apps : /\ IsInjective(inputs[a])
                     /\ IsInjective(streamingInputs[a])
                     /\ IsInjective(outputs[a])

\* spec: a drop is never both a normal and a streaming consumer of the
\* same data drop, in whichever order the two registrations are tried.
ConsumerKindsExclusive ==
  \A d \in Data, a \in Apps :
    ~(In(a, consumers[d]) /\ In(a, streamingConsumers[d]))

\* The producer relation is symmetric (spec), and an app fires
\* producerFinished exactly once at each output: exactly one subscription
\* per output, so producerFinished() counts every producer once.
ProducersMatchOutputs ==
  \A d \in Data, a \in Apps :
    /\ In(a, producers[d]) <=> In(d, outputs[a])
    /\ Times(Subscribe(a, d, "producerFinished"))
         = IF In(d, outputs[a]) THEN 1 ELSE 0

\* Every consumer of a data drop has it as an input and hears its
\* completion exactly once (in the DROP execution mode), and its
\* reproducibility event exactly once: InputFiredAppDROP counts each
\* dropCompleted as one finished input.
ConsumersRegisteredBothWays ==
  \A d \in Data, a \in Apps :
    In(a, consumers[d]) =>
      /\ In(d, inputs[a])
      /\ Times(Subscribe(d, a, "dropCompleted"))
           = IF executionMode[d] = "DROP" THEN 1 ELSE 0
      /\ Times(Subscribe(d, a, "reproducibility")) = 1

\* A drop's parent lists it among its children, also after a parent
\* assignment that addChild() refused (the setter restores the previous
\* parent).
ParentKnowsChild ==
  \A x \in Drops : parent[x] # NONE => In(x, children[parent[x]])

=============================================================================
