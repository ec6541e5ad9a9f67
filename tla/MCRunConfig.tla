---------------------------- MODULE MCRunConfig ----------------------------
(***************************************************************************)
(* Command lines for TLC: a program with one to three further arguments,   *)
(* run files with one and two cores, and profiles that are valid or break  *)
(* one rule of the validation each.                                        *)
(***************************************************************************)
EXTENDS RunConfig

Opt(option, value) == [option |-> option, value |-> value]
Flag(option) == Opt(option, {})
Program == Opt("--program", "a.elf")
Overlay(input) == Opt("--profile", input)
File(base, file) == Opt("--config", [base |-> base, file |-> [schema |-> 1] @@ file])

-----------------------------------------------------------------------------
(* Mappings of one or two candidate actions on port 0.                     *)

Acquire(q, port, separate) ==
  [kind |-> "acquire", port |-> port, targets |-> <<q>>, separate_arm |-> separate]
Arm(q, port) == [kind |-> "arm", port |-> port, targets |-> <<q>>, delay |-> 30]

CandidateActions ==
  {Acquire(0, 0, FALSE), Acquire(0, 0, TRUE), Acquire(1, 1, FALSE), Acquire(1, 1, TRUE),
   Arm(0, 1), Arm(1, 2), Arm(0, 2),
   [targets |-> <<0>>], [targets |-> <<0, 1>>, port |-> 1], [targets |-> <<1, 1>>],
   [targets |-> <<2>>], [targets |-> <<0>>, port |-> 3],
   [targets |-> <<0>>, execution_flag |-> "equal"],
   [targets |-> <<0, 1>>, execution_flag |-> "last_one"],
   [targets |-> <<0>>, operation |-> "reset", execution_flag |-> "last_one"],
   [targets |-> <<>>], [targets |-> <<0>>, duration |-> 0], [operation |-> "x"],
   [kind |-> "pulse", targets |-> <<0>>, axis |-> "w"],
   [kind |-> "pulse", targets |-> <<1>>, axis |-> "y", port |-> 2],
   [kind |-> "arm", targets |-> <<0>>, execution_flag |-> "equal"],
   [kind |-> "acquire", targets |-> <<0>>,
    resources |-> <<[id |-> 7], [id |-> 7, exclusive |-> FALSE]>>],
   [kind |-> "pulse", targets |-> <<0>>, operation |-> "drive_y", amplitude |-> "pi/2",
    resources |-> <<[id |-> 7], [id |-> 8, exclusive |-> FALSE]>>, execution_flag |-> "last_zero"],
   [targets |-> <<0>>, execution_flag |-> "LastOne"], [kind |-> "measure", targets |-> <<0>>],
   [kind |-> "acquire", targets |-> <<1>>, port |-> 2, discriminator_delay |-> 40]}

Mapped(port, codeword, actions) == [port |-> port, codeword |-> codeword, actions |-> actions]
Mappings(list) == [two_qubit_gates |-> <<>>, ports |-> 3, mappings |-> list]

MappingProfiles ==
  {Mappings(<<Mapped(0, 1, <<a>>)>>) : a \in CandidateActions}
  \cup {Mappings(<<Mapped(0, 1, <<a, b>>)>>) : a, b \in CandidateActions}
  \cup {Mappings(<<Mapped(0, 1, <<Acquire(0, 0, TRUE), a, b>>)>>) :
          a, b \in {Arm(0, 1), Arm(1, 2), Acquire(1, 1, TRUE), Arm(0, 2)}}
  \cup {Mappings(<<Mapped(0, 1, <<>>)>>), Mappings(<<Mapped(3, 1, <<[targets |-> <<0>>]>>)>>),
        Mappings(<<Mapped(0, 1, <<[targets |-> <<0>>]>>), Mapped(0, 1, <<[targets |-> <<1>>]>>)>>)}

-----------------------------------------------------------------------------
(* A gate with inputs on two places, played by outputs that vary.          *)

Input(core, port, codeword) == [core |-> core, port |-> port, codeword |-> codeword]
CZ == [name |-> "cz", operation |-> "cz", targets |-> <<0, 1>>, duration |-> 40,
       inputs |-> <<Input(0, 0, 1), Input(1, 0, 2)>>]
Output(name) == [kind |-> "gate_output", gate |-> name]

\* Outputs that keep to the rules, start late, or break a rule.
Outputs ==
  {Output("cz"), [delay |-> 20] @@ Output("cz"), [delay |-> 5] @@ Output("cz"),
   [duration |-> 60] @@ Output("cz"), [port |-> 1] @@ Output("cz"), Output("cy")}

OutputMapping(codeword, output) == Mapped(0, codeword, <<output>>)

\* Two cores with the two inputs of the gate.
TwoCores(first, second) ==
  [cores |-> <<[id |-> 0, program |-> "a.elf",
                profile |-> [mappings |-> <<OutputMapping(1, first)>>]],
               [id |-> 1, program |-> "b.elf", sync_capacity |-> 2,
                profile |-> [mappings |-> <<OutputMapping(2, second), Mapped(1, 2, <<[targets |-> <<0>>]>>)>>]]>>,
   profile |-> [two_qubit_gates |-> <<CZ>>, mappings |-> <<>>],
   sync_connections |-> <<[first |-> 0, second |-> 1, first_to_second |-> 1, second_to_first |-> 2]>>]

Distributed == TwoCores(Output("cz"), Output("cz"))
WithCore2(change) == [Distributed EXCEPT !.cores[2] = change @@ @]

\* The same gate between two ports of one core.
OneCore(first, second) ==
  LET local == [CZ EXCEPT !.inputs = <<Input(0, 0, 1), Input(0, 1, 2)>>]
  IN  [two_qubit_gates |-> <<local>>,
       mappings |-> <<OutputMapping(1, first), Mapped(1, 2, <<second>>)>>]

DistributedFiles ==
  {TwoCores(x, y) : x, y \in Outputs}
  \cup {[Distributed EXCEPT !.profile.two_qubit_gates = <<[CZ EXCEPT !.inputs = inputs]>>] :
          inputs \in {<<Input(0, 0, 1), Input(2, 0, 2)>>, <<Input(0, 0, 1), Input(1, 0, 3)>>,
                      <<Input(0, 0, 1), Input(0, 0, 2)>>, <<Input(0, 0, 1), Input(1, 1, 2)>>}}
  \cup {WithCore2([id |-> 0]), WithCore2([cpu_model |-> "arm"]), WithCore2([qubits |-> 3]),
        WithCore2([cpu_model |-> "vliw", profile_file |-> [seed |-> 2], profile |-> [seed |-> 1]]),
        WithCore2([profile |-> [watchdog |-> 2000]]), WithCore2([program |-> "missing"])}
  \cup {[Distributed EXCEPT !.sync_connections = links] :
          links \in {<<>>, Distributed.sync_connections \o Distributed.sync_connections,
                     <<[first |-> 0]>>,
                     <<[first |-> 0, second |-> 7, first_to_second |-> 1, second_to_first |-> 1]>>,
                     <<[first |-> 1, second |-> 0, first_to_second |-> 0, second_to_first |-> 1]>>}}

-----------------------------------------------------------------------------
(* Command lines.                                                          *)

TimingProfiles ==
  {[tcu |-> [period |-> 30]], [tcu |-> [period |-> 30], start |-> 60],
   [cpu |-> [phase |-> 5]], [watchdog |-> 1000], [seed |-> 3], [clock |-> 1],
   [tcu |-> [rate |-> 30]], [schema |-> 2], [schema |-> 1, firing_width |-> 0],
   [staging_capacity |-> 1, firing_width |-> 2], [result_capacity |-> 65536],
   [qubits |-> 1], [qubits |-> 33], [ports |-> 2], [ports |-> 1], [fast_feedback |-> FALSE],
   [two_qubit_gates |-> <<>>], [two_qubit_gates |-> <<DefaultGate, DefaultGate>>],
   [two_qubit_gates |-> <<[name |-> "cz"]>>]}

ProfileLines ==
  {<<Program, Overlay(input)>> :
     input \in TimingProfiles \cup MappingProfiles \cup {OneCore(x, y) : x, y \in Outputs}}
  \cup {<<Overlay(x), Opt("--start", start), Overlay(y), Program>> :
          x, y \in {[tcu |-> [period |-> 10]], [seed |-> 3], [tcu |-> [period |-> 30]],
                    [staging_capacity |-> 1, tcu |-> [phase |-> 0]]},
          start \in {60, 1010}}

DumpLines ==
  {<<Overlay(input), Flag("--dump-default-profile")>> :
     input \in TimingProfiles \cup MappingProfiles \cup {OneCore(x, y) : x, y \in Outputs}}

\* Options, in every order of two of them around the program.
Options ==
  {Opt("--trace", "t"), Opt("--backend", "cirq"), Opt("--backend", "none"), Opt("--cpu-model", "arm"),
   Opt("--raw-base", <<0>>), Opt("--memory-size", 1024), Opt("--seed", 7), Opt("--start", 1010),
   Opt("--reset", 20), Opt("--reset", 40), Opt("--reset", 1000000), Opt("--inspect", 0),
   Opt("--outcomes", <<TRUE, TRUE>>), Opt("--outcomes", <<FALSE>>),
   Flag("--reverse-registration"), Flag("--check-config"), Flag("--list-backends"),
   Flag("--help"), Flag("--dump-default-profile"), Flag("Malformed"),
   File("dir", [outcomes |-> <<FALSE, TRUE>>, resets |-> <<20, 40>>, inspect |-> <<4>>]),
   File("dir", [program |-> "b.elf", backend_options |-> {"noise"}]),
   File("dir", [decoding |-> {"decoder"}, max_batch_operations |-> 4, trace_stalls |-> FALSE]),
   File("dir", [decoding |-> {}]), File("dir", [max_batch_operations |-> 0]),
   File("dir", [cores |-> <<>>]), File("dir", [other |-> 1]), File("dir", [schema |-> 2]),
   File("dir", [profile_file |-> [tcu |-> [period |-> 10]], profile |-> [start |-> 1010]]),
   File("dir", [simulation |-> "direct"])}

OptionLines ==
  {<<x, y, Program>> : x, y \in Options} \cup {<<x, Program, y>> : x, y \in Options}
  \cup {<<x>> : x \in Options} \cup {<<x, y>> : x, y \in Options}

FileLines ==
  {<<File("dir", file)>> : file \in DistributedFiles}
  \cup {<<File("dir", Distributed), x>> : x \in Options}
  \cup {<<File("dir", Distributed), Program>>, <<File("dir", Distributed), File("other", [seed |-> 1])>>,
        <<File("dir", Distributed), File("other", [summary |-> "s"])>>}

MCCommandLines == ProfileLines \cup DumpLines \cup OptionLines \cup FileLines
MCPrograms == {<<"cwd", "a.elf">>, <<"dir", "a.elf">>, <<"dir", "b.elf">>}
MCMeasurementIds == 1..3

\* A valid profile that has no value in common with the default one.
OtherProfile ==
  [key \in DOMAIN DefaultProfile |->
     CASE key \in {"cpu", "tcu"} -> [period |-> 30, phase |-> 10]
       [] key = "start" -> 70
       [] key = "fast_feedback" -> FALSE
       [] key \in {"two_qubit_gates", "mappings"} -> <<>>
       [] OTHER -> DefaultProfile[key] + 1]
MCBaseProfiles == {DefaultProfile, OtherProfile}

\* The command lines that only set outcomes and name a program.
MCOutcomeLines ==
  {<<x, y, Program>> :
     x, y \in {Opt("--outcomes", <<TRUE, TRUE>>), Opt("--outcomes", <<FALSE>>),
               File("dir", [outcomes |-> <<FALSE, TRUE>>])}}
=============================================================================
