------------------------------ MODULE Profile ------------------------------
(***************************************************************************)
(* The hardware profile: struct Profile and its validation (profile.cpp),  *)
(* the default profile (defaults.cpp), and the JSON overlay that changes a *)
(* profile and the one that writes it (config_json.cpp).                   *)
(*                                                                         *)
(* A profile is a record; a JSON object is a function from the keys that   *)
(* are present to their values.  Values of the wrong JSON type or out of   *)
(* the range of their integer are left to the reader of the file: here an  *)
(* object that cannot be read is one with unknown or missing keys or names *)
(* of kinds and flags.  What the reader accepts, what it stores and what   *)
(* the writer writes are separate lists, as they are in the code.          *)
(***************************************************************************)
EXTENDS Integers, Sequences, FiniteSets, TLC, Clock

Elements(s) == {s[i] : i \in DOMAIN s}
Distinct(s) == \A i, j \in DOMAIN s : s[i] = s[j] => i = j

-----------------------------------------------------------------------------
(* Actions: struct EventSpec.  Fields that a kind does not have keep the   *)
(* value that the accessors of EventSpec return for them.                  *)

Flags == {"Always", "LastOne", "LastZero", "Equal"}

\* The members of the alternative of each kind.
OperandMembers == {"operation", "targets", "resources"}
SpecMembers ==
  [Gate       |-> OperandMembers \cup {"amplitude", "execution_flag"},
   Pulse      |-> OperandMembers \cup {"amplitude", "axis", "execution_flag"},
   Acquire    |-> OperandMembers \cup {"discriminator_delay", "separate_arm"},
   Arm        |-> OperandMembers,
   GateOutput |-> {"gate"}]

NewAction ==
  [kind |-> "Gate", port |-> 0, delay |-> 0, duration |-> 20, operation |-> "x",
   targets |-> <<>>, resources |-> <<>>, amplitude |-> "zero", axis |-> "x",
   execution_flag |-> "Always", discriminator_delay |-> 20, separate_arm |-> FALSE,
   gate |-> ""]

\* The targets of the actions of one kind in a mapping.
TargetsOf(actions, kind) ==
  {actions[i].targets[1] : i \in {j \in DOMAIN actions : actions[j].kind = kind}}

-----------------------------------------------------------------------------
(* Profile::validate.                                                      *)

Limits ==
  {"memory_latency", "command_latency", "reply_latency", "cpu_result_latency",
   "fast_result_latency", "timing_capacity", "event_capacity", "staging_capacity",
   "result_capacity", "ports", "qubits", "firing_width"}

\* Mutation of ValidTiming: the start may lie between two TCU edges.
ValidTiming_AnyStart(p) ==
  /\ ValidClock(p.cpu)
  /\ ValidClock(p.tcu)
  /\ p.watchdog > p.start

ValidTiming(p) ==
  /\ ValidClock(p.cpu)
  /\ ValidClock(p.tcu)
  /\ IsEdge(p.tcu, p.start)
  /\ p.watchdog > p.start

ValidLimits(p) ==
  /\ \A limit \in Limits : p[limit] > 0
  /\ p.result_capacity <= 65535
  /\ p.ports <= 65535
  /\ p.qubits <= 32

DistinctResources(resources) ==
  \A i, j \in DOMAIN resources : resources[i].id = resources[j].id => i = j

ValidGate(p, g) ==
  /\ g.name # ""
  /\ g.operation # ""
  /\ g.duration > 0
  /\ Len(g.targets) = 2 /\ Distinct(g.targets)
  /\ \A q \in Elements(g.targets) : q < p.qubits
  /\ Len(g.inputs) = 2
  /\ g.inputs[1].core # g.inputs[2].core \/ g.inputs[1].port # g.inputs[2].port
  /\ \A i \in 1..2 : g.inputs[i].core <= 131071
  /\ DistinctResources(g.resources)

ValidGates(p) ==
  LET gates == p.two_qubit_gates
  IN  /\ \A i \in DOMAIN gates : ValidGate(p, gates[i])
      /\ \A i, j \in DOMAIN gates :
           i # j => /\ gates[i].name # gates[j].name
                    /\ Elements(gates[i].inputs) \cap Elements(gates[j].inputs) = {}

\* Profile::gate and Profile::mapping.
GatesNamed(gates, name) == {g \in Elements(gates) : g.name = name}
GateOf(gates, name) == CHOOSE g \in GatesNamed(gates, name) : TRUE
MappingsAt(p, port, codeword) ==
  {m \in Elements(p.mappings) : m.port = port /\ m.codeword = codeword}

\* Mutation of ValidOutput: a gate output may last as long as it likes.
ValidOutput_AnyDuration(p, m, a) ==
  /\ Len(m.actions) = 1
  /\ a.port = m.port
  /\ GatesNamed(p.two_qubit_gates, a.gate) # {}

\* A gate output is the only action of its port, and lasts as long as the gate.
ValidOutput(p, m, a) ==
  /\ Len(m.actions) = 1
  /\ a.port = m.port
  /\ GatesNamed(p.two_qubit_gates, a.gate) # {}
  /\ a.duration = GateOf(p.two_qubit_gates, a.gate).duration

ValidAction(p, m, a) ==
  /\ a.port < p.ports
  /\ a.duration > 0
  /\ a.kind # "GateOutput" => a.targets # <<>>
  /\ a.kind = "GateOutput" => ValidOutput(p, m, a)
  /\ a.execution_flag \in Flags
  /\ a.execution_flag # "Always" => Len(a.targets) = 1
  /\ \A q \in Elements(a.targets) : q < p.qubits
  /\ Distinct(a.targets)
  /\ DistinctResources(a.resources)
  /\ a.kind \in {"Acquire", "Arm", "Pulse"} => Len(a.targets) = 1
  /\ a.kind = "Gate" /\ a.operation = "reset" =>
       Len(a.targets) = 1 /\ a.execution_flag = "Always"
  /\ a.kind = "Pulse" => a.axis \in {"x", "y", "z"}

\* Each acquisition of a mapping has its own target, and an arm for that
\* target if and only if it asks for one; no arm is left over.
PairedReadouts(actions) ==
  LET of(kind, q) ==
        {i \in DOMAIN actions : actions[i].kind = kind /\ actions[i].targets[1] = q}
  IN  /\ \A q \in TargetsOf(actions, "Acquire") :
           /\ Cardinality(of("Acquire", q)) = 1
           /\ \A i \in of("Acquire", q) :
                Cardinality(of("Arm", q)) = IF actions[i].separate_arm THEN 1 ELSE 0
      /\ TargetsOf(actions, "Arm") \subseteq TargetsOf(actions, "Acquire")

ValidMappings(p) ==
  /\ \A i, j \in DOMAIN p.mappings :
       i # j => \/ p.mappings[i].port # p.mappings[j].port
                \/ p.mappings[i].codeword # p.mappings[j].codeword
  /\ \A m \in Elements(p.mappings) :
       /\ m.port < p.ports
       /\ m.actions # <<>>
       /\ \A a \in Elements(m.actions) : ValidAction(p, m, a)
       /\ PairedReadouts(m.actions)

ValidProfile(p) == ValidTiming(p) /\ ValidLimits(p) /\ ValidGates(p) /\ ValidMappings(p)

-----------------------------------------------------------------------------
(* default_profile.                                                        *)

DefaultAction(q, code) ==
  LET common == [NewAction EXCEPT !.port = q, !.targets = <<q>>,
                                  !.resources = <<[id |-> q, exclusive |-> TRUE]>>]
  IN  CASE code \in 1..3 -> [common EXCEPT !.operation = <<"x", "h", "z">>[code]]
        [] code = 4 -> [common EXCEPT !.kind = "Acquire", !.operation = "measure",
                                      !.duration = 40]
        [] code = 5 -> [common EXCEPT !.kind = "Pulse", !.operation = "drive_x",
                                      !.amplitude = "pi/20"]
        [] code \in 7..9 ->
             [common EXCEPT !.execution_flag = <<"LastOne", "LastZero", "Equal">>[code - 6]]

DefaultMapping(q, code) ==
  [port |-> q, codeword |-> code, actions |-> <<DefaultAction(q, code)>>]

DefaultOutput(port, code) ==
  [port |-> port, codeword |-> code,
   actions |-> <<[NewAction EXCEPT !.kind = "GateOutput", !.port = port, !.gate = "cx01"]>>]

DefaultGate ==
  [name |-> "cx01", operation |-> "cx", targets |-> <<0, 1>>,
   inputs |-> <<[core |-> 0, port |-> 0, codeword |-> 6],
                [core |-> 0, port |-> 1, codeword |-> 10]>>,
   resources |-> <<[id |-> 0, exclusive |-> TRUE], [id |-> 1, exclusive |-> TRUE]>>,
   duration |-> 20]

DefaultProfile ==
  [cpu |-> [period |-> 5, phase |-> 0], tcu |-> [period |-> 20, phase |-> 0],
   start |-> 1000, watchdog |-> 1000000,
   memory_latency |-> 1, command_latency |-> 1, reply_latency |-> 1,
   cpu_result_latency |-> 1, fast_result_latency |-> 2,
   timing_capacity |-> 32, event_capacity |-> 32, staging_capacity |-> 16,
   result_capacity |-> 8, ports |-> 8, qubits |-> 2, firing_width |-> 1,
   seed |-> 1, fast_feedback |-> TRUE,
   two_qubit_gates |-> <<DefaultGate>>,
   mappings |->
     [code \in 1..5 |-> DefaultMapping(0, code)] \o [code \in 1..5 |-> DefaultMapping(1, code)]
       \o <<DefaultOutput(0, 6), DefaultOutput(1, 10)>>
       \o [flag \in 1..3 |-> DefaultMapping(0, 6 + flag)]
       \o [flag \in 1..3 |-> DefaultMapping(1, 6 + flag)]]

-----------------------------------------------------------------------------
(* apply_profile: what a JSON object changes, and whether it can be read.  *)

\* kind_value and flag_value; the latter looks a name up among those written.
KindValue ==
  ("gate" :> "Gate") @@ ("pulse" :> "Pulse") @@ ("acquire" :> "Acquire") @@ ("arm" :> "Arm")
  @@ ("gate_output" :> "GateOutput")
FlagName ==
  [Always |-> "always", LastOne |-> "last_one", LastZero |-> "last_zero", Equal |-> "equal"]
FlagsNamed(name) == {flag \in Flags : FlagName[flag] = name}
FlagValue(name) == CHOOSE flag \in FlagsNamed(name) : TRUE

\* The keys that the reader accepts in an action of each kind.
AcceptedKeys ==
  [Gate       |-> {"kind", "port", "delay", "duration", "operation", "targets", "resources",
                   "amplitude", "execution_flag"},
   Pulse      |-> {"kind", "port", "delay", "duration", "operation", "targets", "resources",
                   "amplitude", "axis", "execution_flag"},
   Acquire    |-> {"kind", "port", "delay", "duration", "operation", "targets", "resources",
                   "discriminator_delay", "separate_arm"},
   Arm        |-> {"kind", "port", "delay", "duration", "operation", "targets", "resources"},
   GateOutput |-> {"kind", "port", "delay", "duration", "gate"}]

\* The keys whose values it stores, where the alternative has such a member.
StoredMembers ==
  {"operation", "targets", "resources", "amplitude", "axis", "execution_flag",
   "discriminator_delay", "separate_arm", "gate"}
StoredKeys(kind) == {"port", "delay", "duration"} \cup (StoredMembers \cap SpecMembers[kind])

KindNameOf(spec) == IF "kind" \in DOMAIN spec THEN spec.kind ELSE "gate"

ReadableResources(object) ==
  "resources" \in DOMAIN object =>
    \A r \in Elements(object.resources) : "id" \in DOMAIN r /\ DOMAIN r \subseteq {"id", "exclusive"}
ReadResources(list) ==
  [i \in DOMAIN list |->
     [id |-> list[i].id,
      exclusive |-> "exclusive" \in DOMAIN list[i] => list[i].exclusive]]

ReadableAction(gates, spec) ==
  /\ KindNameOf(spec) \in DOMAIN KindValue
  /\ DOMAIN spec \subseteq AcceptedKeys[KindValue[KindNameOf(spec)]]
  /\ IF KindNameOf(spec) = "gate_output"
       THEN "gate" \in DOMAIN spec /\ GatesNamed(gates, spec.gate) # {}
       ELSE "targets" \in DOMAIN spec
  /\ ReadableResources(spec)
  /\ "execution_flag" \in DOMAIN spec => FlagsNamed(spec.execution_flag) # {}

\* An action is placed on its mapping's port unless it says otherwise, and a
\* gate output lasts as long as its gate unless it says otherwise.
ReadAction(gates, port, spec) ==
  LET kind == KindValue[KindNameOf(spec)]
  IN  [key \in DOMAIN NewAction |->
         CASE key = "kind" -> kind
           [] key \in DOMAIN spec \cap StoredKeys(kind) ->
                CASE key = "execution_flag" -> FlagValue(spec[key])
                  [] key = "resources" -> ReadResources(spec[key])
                  [] OTHER -> spec[key]
           [] key = "port" /\ key \notin DOMAIN spec -> port
           [] key = "duration" /\ key \notin DOMAIN spec /\ kind = "GateOutput" ->
                GateOf(gates, spec.gate).duration
           [] OTHER -> NewAction[key]]

ReadMapping(gates, m) ==
  [port |-> m.port, codeword |-> m.codeword,
   actions |-> [i \in DOMAIN m.actions |-> ReadAction(gates, m.port, m.actions[i])]]

GateKeys == {"name", "operation", "targets", "inputs", "resources", "duration"}
ReadGate(g) ==
  [name |-> g.name, operation |-> g.operation, targets |-> g.targets, duration |-> g.duration,
   inputs |-> [i \in DOMAIN g.inputs |->
                 [core |-> g.inputs[i].core, port |-> g.inputs[i].port,
                  codeword |-> g.inputs[i].codeword]],
   resources |-> IF "resources" \in DOMAIN g THEN ReadResources(g.resources) ELSE <<>>]

\* The gates that the mappings of an overlay are read against.
GatesAfter(p, input) ==
  IF "two_qubit_gates" \in DOMAIN input
    THEN [i \in DOMAIN input.two_qubit_gates |-> ReadGate(input.two_qubit_gates[i])]
    ELSE p.two_qubit_gates

\* The keys that the reader accepts in a profile, and those it copies as they are.
ProfileKeys ==
  {"schema", "cpu", "tcu", "start", "watchdog", "memory_latency", "command_latency",
   "reply_latency", "cpu_result_latency", "fast_result_latency", "timing_capacity",
   "event_capacity", "staging_capacity", "result_capacity", "ports", "qubits", "firing_width",
   "seed", "fast_feedback", "mappings", "two_qubit_gates"}
CopiedKeys ==
  {"start", "watchdog", "memory_latency", "command_latency", "reply_latency",
   "cpu_result_latency", "fast_result_latency", "timing_capacity", "event_capacity",
   "staging_capacity", "result_capacity", "ports", "qubits", "firing_width", "seed",
   "fast_feedback"}

Readable(p, input) ==
  /\ DOMAIN input \subseteq ProfileKeys
  /\ \A clock \in {"cpu", "tcu"} \cap DOMAIN input : DOMAIN input[clock] \subseteq {"period", "phase"}
  /\ "schema" \in DOMAIN input => input.schema = 1
  /\ "two_qubit_gates" \in DOMAIN input =>
       \A g \in Elements(input.two_qubit_gates) :
         /\ GateKeys \ {"resources"} \subseteq DOMAIN g /\ DOMAIN g \subseteq GateKeys
         /\ \A i \in Elements(g.inputs) : DOMAIN i = {"core", "port", "codeword"}
         /\ ReadableResources(g)
  /\ "mappings" \in DOMAIN input =>
       \A m \in Elements(input.mappings) :
         /\ DOMAIN m = {"port", "codeword", "actions"}
         /\ \A spec \in Elements(m.actions) : ReadableAction(GatesAfter(p, input), spec)

\* A clock keeps the part that the object does not give.
ReadClock(clock, object) ==
  [part \in {"period", "phase"} |-> IF part \in DOMAIN object THEN object[part] ELSE clock[part]]

Overlaid(p, input) ==
  [key \in DOMAIN p |->
     IF key \notin DOMAIN input THEN p[key]
     ELSE CASE key \in {"cpu", "tcu"} -> ReadClock(p[key], input[key])
            [] key = "two_qubit_gates" -> GatesAfter(p, input)
            [] key = "mappings" ->
                 [i \in DOMAIN input.mappings |->
                    ReadMapping(GatesAfter(p, input), input.mappings[i])]
            [] key \in CopiedKeys -> input[key]
            [] OTHER -> p[key]]

\* apply_profile succeeds; every overlay is validated on its own.
Applies(p, input) == Readable(p, input) /\ ValidProfile(Overlaid(p, input))

-----------------------------------------------------------------------------
(* profile_json: the fields it lists, and of an action those that its      *)
(* alternative has.                                                        *)

KindName ==
  [Gate |-> "gate", Pulse |-> "pulse", Acquire |-> "acquire", Arm |-> "arm",
   GateOutput |-> "gate_output"]

\* The members that the writer writes, where the alternative has them.
WrittenMembers ==
  {"operation", "targets", "resources", "amplitude", "axis", "execution_flag",
   "discriminator_delay", "separate_arm", "gate"}

WrittenAction(a) ==
  [key \in {"kind", "port", "delay", "duration"} \cup (WrittenMembers \cap SpecMembers[a.kind]) |->
     CASE key = "kind" -> KindName[a.kind]
       [] key = "execution_flag" -> FlagName[a.execution_flag]
       [] OTHER -> a[key]]

WrittenMapping(m) ==
  [port |-> m.port, codeword |-> m.codeword,
   actions |-> [i \in DOMAIN m.actions |-> WrittenAction(m.actions[i])]]

WrittenGate(g) ==
  [name |-> g.name, operation |-> g.operation, targets |-> g.targets, duration |-> g.duration,
   inputs |-> g.inputs, resources |-> g.resources]

\* Mutation of WrittenKeys: the flag of fast feedback, which the reader treats on
\* its own, is missing from the list of the writer.
WrittenKeys_NoFastFeedback ==
  {"start", "watchdog", "memory_latency", "command_latency", "reply_latency",
   "cpu_result_latency", "fast_result_latency", "timing_capacity", "event_capacity",
   "staging_capacity", "result_capacity", "ports", "qubits", "firing_width", "seed"}

\* The fields that are written as they are.
WrittenKeys ==
  {"start", "watchdog", "memory_latency", "command_latency", "reply_latency",
   "cpu_result_latency", "fast_result_latency", "timing_capacity", "event_capacity",
   "staging_capacity", "result_capacity", "ports", "qubits", "firing_width", "seed",
   "fast_feedback"}

ProfileJson(p) ==
  [schema |-> 1,
   cpu |-> [period |-> p.cpu.period, phase |-> p.cpu.phase],
   tcu |-> [period |-> p.tcu.period, phase |-> p.tcu.phase],
   mappings |-> [i \in DOMAIN p.mappings |-> WrittenMapping(p.mappings[i])],
   two_qubit_gates |-> [i \in DOMAIN p.two_qubit_gates |-> WrittenGate(p.two_qubit_gates[i])]]
  @@ [key \in WrittenKeys |-> p[key]]
=============================================================================
