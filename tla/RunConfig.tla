----------------------------- MODULE RunConfig -----------------------------
(***************************************************************************)
(* From the command line to a machine that runs: parse_run_config and      *)
(* apply_run_config (app/run_config.cpp), resolve_cores, configure_cores   *)
(* and configure_connections (app/config.cpp), the order of main.cpp and   *)
(* the constructors of Simulator and SyncNetwork.  An accepted             *)
(* configuration then plays one codeword, or the two inputs of a gate.     *)
(*                                                                         *)
(* An argument is [option, value] (value is the whole operand, a file      *)
(* being its contents); "Malformed" stands for an argument whose option is *)
(* unknown or whose operand is missing, unreadable or of the wrong type.   *)
(* A path is <<directory, name>>; names on the command line are relative   *)
(* to the working directory "cwd".                                         *)
(***************************************************************************)
EXTENDS CodewordPlay

CONSTANTS
  CommandLines,   \* the command lines: sequences of arguments
  Programs,       \* the paths at which there is a program image that loads
  Backends,       \* backends other than mock that this build has
  BaseProfiles,   \* profiles over which a dumped one may be read
  MeasurementIds  \* bound: the measurement identities whose outcome is looked at

ASSUME CommandLinesAssumption ==
  /\ ValidProfile(DefaultProfile)
  /\ \A base \in BaseProfiles : ValidProfile(base)
  /\ \A line \in CommandLines : \A i \in DOMAIN line : {"option", "value"} = DOMAIN line[i]

VARIABLES
  arguments,    \* the command line
  next,         \* index of the next argument to be read
  profile,      \* run.profile
  settings,     \* the other fields of RunConfig, by the key of the run file
  cores,        \* core_settings, then the resolved cores
  connections,  \* connection_settings
  status,       \* how far main has come
  played,       \* the launches of the play, <<>> before it
  fault,        \* the check that the play failed, or "None"
  dumped        \* <<>> or the profile written by --dump-default-profile

vars == <<arguments, next, profile, settings, cores, connections, status, played, fault, dumped>>

Ended == {"Exit0", "Exit2", "Played"}

-----------------------------------------------------------------------------
(* Settings.                                                               *)

NoPath == <<"", "">>

\* The fields of RunConfig and their defaults; raw_base is <<>> or <<address>>.
DefaultSettings ==
  [program |-> NoPath, trace |-> <<"cwd", "trace.jsonl">>,
   summary |-> <<"cwd", "summary.json">>, memory_dump |-> NoPath, python_path |-> NoPath,
   backend |-> "mock", cpu_model |-> "rv32", backend_options |-> {}, decoding |-> {},
   max_batch_operations |-> 1024, memory_base |-> 0, memory_size |-> 65536, raw_base |-> <<>>,
   trace_stalls |-> TRUE, reverse_registration |-> FALSE,
   resets |-> <<>>, inspect |-> <<>>, outcomes |-> <<>>,
   backend_command |-> "none", check_config |-> FALSE, config_base |-> ""]

PathKeys == {"program", "trace", "summary", "memory_dump", "python_path"}

\* The setting that an option sets to its operand, and what a switch sets.
OptionKey ==
  ("--program" :> "program") @@ ("--trace" :> "trace") @@ ("--summary" :> "summary")
  @@ ("--memory-dump" :> "memory_dump") @@ ("--python-path" :> "python_path")
  @@ ("--backend" :> "backend") @@ ("--cpu-model" :> "cpu_model")
  @@ ("--memory-base" :> "memory_base") @@ ("--memory-size" :> "memory_size")
  @@ ("--raw-base" :> "raw_base")
Switches ==
  ("--reverse-registration" :> [reverse_registration |-> TRUE])
  @@ ("--check-config" :> [check_config |-> TRUE])
  @@ ("--list-backends" :> [backend_command |-> "list"])
  @@ ("--help-backend" :> [backend_command |-> "help"])
  @@ ("--backend-schema" :> [backend_command |-> "schema"])
  @@ ("--generate-config" :> [backend_command |-> "generate"])

\* The keys of a run file that replace a setting; the others are treated below.
FileKeys == DOMAIN DefaultSettings \ {"backend_command", "check_config", "config_base"}
OtherFileKeys == {"profile_file", "profile", "cores", "sync_connections"}

\* The settings after a run file in directory base.
FileSettings(file, base) ==
  [key \in DOMAIN settings |->
     CASE key = "config_base" -> base
       [] key \in PathKeys \cap DOMAIN file -> <<base, file[key]>>
       [] key \in (FileKeys \ PathKeys) \cap DOMAIN file -> file[key]
       [] OTHER -> settings[key]]

\* profile_file, then the inline profile, over profile p.
ProfileInputs(object) ==
  (IF "profile_file" \in DOMAIN object THEN <<object.profile_file>> ELSE <<>>)
    \o (IF "profile" \in DOMAIN object THEN <<object.profile>> ELSE <<>>)
AppliesAll(p, inputs) ==
  CASE inputs = <<>> -> TRUE
    [] Len(inputs) = 1 -> Applies(p, inputs[1])
    [] Len(inputs) = 2 -> Applies(p, inputs[1]) /\ Applies(Overlaid(p, inputs[1]), inputs[2])
OverlaidAll(p, inputs) ==
  CASE inputs = <<>> -> p
    [] Len(inputs) = 1 -> Overlaid(p, inputs[1])
    [] Len(inputs) = 2 -> Overlaid(Overlaid(p, inputs[1]), inputs[2])

-----------------------------------------------------------------------------
(* Reading the arguments from left to right.                               *)

Reading == status = "Reading" /\ next <= Len(arguments)
Argument == arguments[next]
Become(new) ==
  /\ status' = new
  /\ UNCHANGED <<arguments, next, profile, settings, cores, connections, played, fault>>
Exit(code) == Become(code) /\ UNCHANGED dumped
ReadOn ==
  /\ next' = next + 1
  /\ UNCHANGED <<arguments, status, played, fault, dumped>>

\* Options that set one field, and switches.
SetOption ==
  /\ Reading
  /\ LET option == Argument.option
     IN  \/ /\ option \in DOMAIN OptionKey
            /\ settings' = [settings EXCEPT
                 ![OptionKey[option]] =
                    IF OptionKey[option] \in PathKeys THEN <<"cwd", Argument.value>>
                                                      ELSE Argument.value]
            /\ UNCHANGED profile
         \/ /\ option \in DOMAIN Switches
            /\ settings' = Switches[option] @@ settings
            /\ UNCHANGED profile
         \/ /\ option \in {"--seed", "--start"}
            /\ profile' = [profile EXCEPT ![IF option = "--seed" THEN "seed" ELSE "start"] =
                                             Argument.value]
            /\ UNCHANGED settings
  /\ UNCHANGED <<cores, connections>>
  /\ ReadOn

\* The mock outcomes after the outcomes of one argument.
WithOutcomes(old, bits) == bits @@ old

\* Options that may be repeated.
AddOption ==
  /\ Reading
  /\ \/ /\ Argument.option = "--reset"
        /\ settings' = [settings EXCEPT !.resets = Append(@, Argument.value)]
     \/ /\ Argument.option = "--inspect"
        /\ settings' = [settings EXCEPT !.inspect = Append(@, Argument.value)]
     \/ /\ Argument.option = "--outcomes"
        /\ settings' = [settings EXCEPT !.outcomes = WithOutcomes(@, Argument.value)]
  /\ UNCHANGED <<profile, cores, connections>>
  /\ ReadOn

ProfileOption ==
  /\ Reading
  /\ Argument.option = "--profile"
  /\ IF Applies(profile, Argument.value)
       THEN /\ profile' = Overlaid(profile, Argument.value)
            /\ UNCHANGED <<settings, cores, connections>>
            /\ ReadOn
       ELSE Exit("Exit2")

\* The checks of apply_run_config on a run file.
ReadableFile(file) ==
  /\ DOMAIN file \subseteq FileKeys \cup OtherFileKeys \cup {"schema"}
  /\ "schema" \in DOMAIN file /\ file.schema = 1
  /\ "cores" \in DOMAIN file => file.cores # <<>>
  /\ "decoding" \in DOMAIN file => file.decoding # {}
  /\ "max_batch_operations" \in DOMAIN file => file.max_batch_operations > 0
  /\ AppliesAll(profile, ProfileInputs(file))

\* apply_run_config; the operand is [base, file].
ConfigOption ==
  /\ Reading
  /\ Argument.option = "--config"
  /\ LET file == Argument.value.file
     IN  /\ "simulation" \notin DOMAIN file
         /\ IF ReadableFile(file)
              THEN /\ profile' = OverlaidAll(profile, ProfileInputs(file))
                   /\ settings' = FileSettings(file, Argument.value.base)
                   /\ cores' = IF "cores" \in DOMAIN file THEN file.cores ELSE cores
                   /\ connections' = IF "sync_connections" \in DOMAIN file
                                       THEN file.sync_connections ELSE connections
                   /\ ReadOn
              ELSE Exit("Exit2")

\* A run file with a simulation strategy is handed to Python, and must be alone.
SimulationOption ==
  /\ Reading
  /\ Argument.option = "--config"
  /\ "simulation" \in DOMAIN Argument.value.file
  /\ IF \/ Len(arguments) = 1
        \/ Len(arguments) = 2 /\ \E i \in 1..2 : arguments[i].option = "--check-config"
       THEN \E code \in {"Exit0", "Exit2"} : Exit(code)
       ELSE Exit("Exit2")

\* --help and --dump-default-profile end the reading; a bad argument ends the run.
EndOption ==
  /\ Reading
  /\ \/ Argument.option = "--help" /\ Exit("Exit0")
     \/ Argument.option = "--dump-default-profile" /\ dumped' = <<ProfileJson(profile)>> /\ Become("Exit0")
     \/ Argument.option = "Malformed" /\ Exit("Exit2")

-----------------------------------------------------------------------------
(* After the last argument.                                                *)

AllRead == status = "Reading" /\ next > Len(arguments)

\* The backend commands are answered by Python, if this build has it.
BackendCommand ==
  /\ AllRead
  /\ settings.backend_command # "none"
  /\ \E code \in {"Exit0", "Exit2"} : Exit(code)

\* cpu_factory.
KnownModel(model) == model \in {"rv32", "vliw"}

\* resolve_cores: one core's settings over the common profile.
CoreKeys == {"id", "program", "profile", "profile_file", "cpu_model", "sync_capacity"}
ResolvedCore(core) ==
  [id |-> core.id, profile |-> OverlaidAll(profile, ProfileInputs(core)),
   program |-> <<settings.config_base, core.program>>,
   cpu_model |-> IF "cpu_model" \in DOMAIN core THEN core.cpu_model ELSE settings.cpu_model,
   sync_capacity |-> IF "sync_capacity" \in DOMAIN core THEN core.sync_capacity ELSE 8]
ResolvesCore(core) ==
  /\ {"id", "program"} \subseteq DOMAIN core /\ DOMAIN core \subseteq CoreKeys
  /\ AppliesAll(profile, ProfileInputs(core))
  /\ KnownModel(ResolvedCore(core).cpu_model)

SingleCore ==
  [id |-> 0, profile |-> profile, program |-> settings.program,
   cpu_model |-> settings.cpu_model, sync_capacity |-> 8]

\* configure_connections.
ConnectionKeys == {"first", "second", "first_to_second", "second_to_first"}
ReadableConnection(c) ==
  ConnectionKeys \subseteq DOMAIN c /\ DOMAIN c \subseteq ConnectionKeys \cup {"capacity"}
Connected(c) == c @@ [capacity |-> 8]

\* The end of parse_run_config.
Resolvable ==
  /\ settings.program # NoPath \/ cores # <<>>
  /\ cores # <<>> => /\ settings.program = NoPath
                     /\ settings.raw_base = <<>>
                     /\ settings.inspect = <<>>
                     /\ settings.memory_dump = NoPath
  /\ ValidProfile(profile)
  /\ cores = <<>> => KnownModel(settings.cpu_model)
  /\ \A core \in Elements(cores) : ResolvesCore(core)
  /\ \A c \in Elements(connections) : ReadableConnection(c)

Resolve ==
  /\ AllRead
  /\ settings.backend_command = "none"
  /\ IF Resolvable
       THEN /\ cores' = IF cores = <<>> THEN <<SingleCore>>
                        ELSE [i \in DOMAIN cores |-> ResolvedCore(cores[i])]
            /\ connections' = [i \in DOMAIN connections |-> Connected(connections[i])]
            /\ status' = "Constructing"
            /\ UNCHANGED <<arguments, next, profile, settings, played, fault, dumped>>
       ELSE Exit("Exit2")

-----------------------------------------------------------------------------
(* Construction of the machine.                                            *)

\* SyncNetwork: every ordered pair of cores is connected at most once.
ValidConnections ==
  /\ \A c \in Elements(connections) :
       /\ c.first # c.second
       /\ c.capacity > 0 /\ c.first_to_second > 0 /\ c.second_to_first > 0
  /\ \A i, j \in DOMAIN connections :
       i # j => {connections[i].first, connections[i].second}
                  # {connections[j].first, connections[j].second}

\* The first core with an identity, and what it plays for a gate input.
CoreWithId(id) == {i \in DOMAIN cores : cores[i].id = id}
Drives(input, gate) ==
  \E i \in CoreWithId(input.core) :
    LET found == MappingsAt(cores[i].profile, input.port, input.codeword)
    IN  /\ found # {}
        /\ \A m \in found : Len(m.actions) = 1 /\ m.actions[1].kind = "GateOutput"
                              /\ m.actions[1].gate = gate.name

\* validated: what the profiles of the cores must share, and that gate inputs
\* and gate outputs name each other.
ValidCores ==
  LET gates == cores[1].profile.two_qubit_gates
      shared(p) == <<p.tcu, p.qubits, p.seed, p.watchdog, p.two_qubit_gates>>
  IN  /\ \A i \in DOMAIN cores :
           /\ ValidProfile(cores[i].profile)
           /\ cores[i].id <= 131071
           /\ shared(cores[i].profile) = shared(cores[1].profile)
      /\ \A i, j \in DOMAIN cores : cores[i].id = cores[j].id => i = j
      /\ \A c \in Elements(connections) :
           CoreWithId(c.first) # {} /\ CoreWithId(c.second) # {}
      /\ \A gate \in Elements(gates) : \A input \in Elements(gate.inputs) : Drives(input, gate)
      /\ \A i \in DOMAIN cores : \A m \in Elements(cores[i].profile.mappings) :
           \A a \in Elements(m.actions) :
             a.kind = "GateOutput" =>
               [core |-> cores[i].id, port |-> m.port, codeword |-> m.codeword]
                 \in Elements(GateOf(gates, a.gate).inputs)

\* The reset ticks: sorted, unique and inside the run.
ValidResets ==
  /\ \A i, j \in DOMAIN settings.resets : i < j => settings.resets[i] < settings.resets[j]
  /\ \A tick \in Elements(settings.resets) : tick > 0 /\ tick < cores[1].profile.watchdog

\* configure_cores and the creation of the backend.
Loadable ==
  /\ \A core \in Elements(cores) : core.program \in Programs
  /\ settings.backend = "mock" => settings.backend_options = {}
  /\ settings.backend # "mock" => settings.backend \in Backends

Constructible == Loadable /\ ValidCores /\ ValidConnections /\ ValidResets

\* A Python backend or decoder may refuse its options.
MayRefuse == settings.backend # "mock" \/ settings.decoding # {}

Construct ==
  /\ status = "Constructing"
  /\ IF Constructible
       THEN \/ /\ Become(IF settings.check_config THEN "Exit0" ELSE "Accepted")
               /\ UNCHANGED dumped
            \/ MayRefuse /\ Exit("Exit2")
       ELSE Exit("Exit2")

-----------------------------------------------------------------------------
(* Running.                                                                *)

\* The first edge at which the timer of a core runs: TcuCycleModel::step is called
\* at the TCU edges, and is in cycle zero at the first that is not before start.
FirstEdge(core) == EdgeFrom(core.profile.tcu, core.profile.start)

\* The launches of the two inputs of a gate, at the first edges of both cores
\* from which they start together, if there are such edges.
GatePlays ==
  LET p == cores[1].profile
      begin == Max({FirstEdge(cores[i]) : i \in DOMAIN cores})
      launch(input) ==
        LET i == CHOOSE k \in CoreWithId(input.core) : TRUE
        IN  [core |-> i, tick |-> begin,
             mapping |-> CHOOSE m \in MappingsAt(cores[i].profile, input.port, input.codeword) : TRUE]
      delay(l) == l.mapping.actions[1].delay
      pair(gate) ==
        LET x == launch(gate.inputs[1])
            y == launch(gate.inputs[2])
            gap == delay(x) - delay(y)
        IN  IF gap % p.tcu.period # 0 THEN <<>>
            ELSE IF gap >= 0 THEN <<x, [y EXCEPT !.tick = begin + gap]>>
            ELSE <<y, [x EXCEPT !.tick = begin - gap]>>
  IN  {pair(gate) : gate \in Elements(p.two_qubit_gates)} \ {<<>>}

\* A codeword of a core at the first point of its timeline, cycle zero.
SinglePlays ==
  UNION {{<<[core |-> i, tick |-> FirstEdge(cores[i]), mapping |-> m]>> :
            m \in Elements(cores[i].profile.mappings)} : i \in DOMAIN cores}

\* One codeword, or both inputs of a gate, on the idle machine; the barrier ends
\* a run in which they have not fired by the watchdog.
Play ==
  /\ status = "Accepted"
  /\ \E play \in SinglePlays \cup GatePlays :
       /\ played' = play
       /\ fault' = IF \E k \in DOMAIN play : play[k].tick >= cores[1].profile.watchdog
                     THEN "Watchdog" ELSE PlayFault(cores, play)
  /\ status' = "Played"
  /\ UNCHANGED <<arguments, next, profile, settings, cores, connections, dumped>>

\* The value that the mock backend returns for a measurement.
MockOutcome(outcomes, id) == id \in DOMAIN outcomes /\ outcomes[id]

-----------------------------------------------------------------------------
Init ==
  /\ arguments \in CommandLines
  /\ next = 1
  /\ profile = DefaultProfile
  /\ settings = DefaultSettings
  /\ cores = <<>>
  /\ connections = <<>>
  /\ status = "Reading"
  /\ played = <<>>
  /\ fault = "None"
  /\ dumped = <<>>

ReadArgument ==
  \/ SetOption
  \/ AddOption
  \/ ProfileOption
  \/ ConfigOption
  \/ SimulationOption
  \/ EndOption

Done == status \in Ended /\ UNCHANGED vars

Next ==
  \/ ReadArgument
  \/ BackendCommand
  \/ Resolve
  \/ Construct
  \/ Play
  \/ Done

Spec == Init /\ [][Next]_vars
-----------------------------------------------------------------------------
(* Properties.                                                             *)

\* The faults that a play of an accepted configuration may meet.
MayFail(play) ==
  LET actions == UNION {Elements(play[k].mapping.actions) : k \in DOMAIN play}
      alone   == Len(play) = 1
      waits   == play[Len(play)].tick - play[1].tick
  IN  {"None", "Capacity"}
      \cup (IF \E k \in DOMAIN play : ~cores[play[k].core].profile.fast_feedback
              THEN {"UnsupportedCapability"} ELSE {})
      \cup (IF alone /\ Cardinality(actions) > 1 THEN {"ResourceConflict"} ELSE {})
      \cup (IF alone /\ \E a \in actions : a.kind = "GateOutput"
              THEN {"GateInputMismatch"} ELSE {})
      \cup (IF waits > 0 /\ play[1].tick + waits >= cores[1].profile.watchdog
              THEN {"Watchdog"} ELSE {})

\* Whether a launch in cycle zero comes at the tick of its deadline (tcu.cpp:124).
MeetsDeadline(play) == Len(play) = 1 => play[1].tick = cores[play[1].core].profile.start

\* A configuration that main accepts can be played (profile.cpp validate,
\* simulator.cpp validated): each mapped codeword passes the checks of
\* TimingControl, decode_codeword and ControlElectronics on an idle machine, up
\* to the limits and conflicts that its own profile states, and the two inputs
\* of every gate, on whichever cores, pair up when they start together.  Whatever
\* order --start, --profile and --config came in, the timeline begins on a TCU
\* edge before the watchdog, at the tick from which its deadlines are counted.
ConfiguredCodewordsPlay ==
  status = "Played" => fault \in MayFail(played) /\ MeetsDeadline(played)

\* A dumped profile is the profile: read over any other one, it is accepted and
\* replaces every field (the lists of profile_json against those of
\* apply_profile), whatever overlays had been read before the dump.
DumpReadsBack ==
  dumped # <<>> /\ ValidProfile(profile) =>
    \A base \in BaseProfiles :
      /\ Applies(base, dumped[1])
      /\ Overlaid(base, dumped[1]) = profile

\* The arguments that set outcomes.
SetsOutcomes(argument) ==
  \/ argument.option = "--outcomes"
  \/ argument.option = "--config" /\ "outcomes" \in DOMAIN argument.value.file

\* What docs/interfaces.md says of --outcomes: the bits of the last such option
\* are the outcomes by measurement identity, and omitted identities return zero.
OmittedOutcomesReturnZero ==
  \A i \in DOMAIN arguments :
    /\ status = "Accepted"
    /\ arguments[i].option = "--outcomes"
    /\ \A j \in DOMAIN arguments : j > i => ~SetsOutcomes(arguments[j])
    => \A id \in MeasurementIds :
         MockOutcome(settings.outcomes, id) = MockOutcome(arguments[i].value, id)
=============================================================================
