------------------------------ MODULE MCDecoder ------------------------------
(***************************************************************************)
(* Two cores that share two decoders, for TLC.                             *)
(***************************************************************************)
EXTENDS Decoder

Store(register, value) == [register |-> register, value |-> value]
Commands == {Store("Command", "Submit"), Store("Command", "Reset"), Store("Command", "Consume")}

\* A window has two bits; decoder 2 is the slower one.
TwoDecoders ==
  [d \in DecoderIds |-> [measurements |-> 2, outputs |-> 2, latency |-> d, initiation_interval |-> 3]]

\* The correction repeats the window.
Ones(window) == {i \in 1..Len(window) : window[i] = 1}

\* Core 1 sends one or two bits at a time to decoder 1, or too many, consumes
\* and resets; core 2 sends whole windows to either decoder or
\* to both, which takes three result slots in all.
CoreMenus ==
  <<<<{Store("Select", 1)},
      {Store("Count", 1), Store("Count", 2)},
      {Store("DataLow", <<1>>)},
      {Store("Command", "Submit")},
      Commands \cup {Store("Count", 2)},
      Commands,
      Commands>>,
    <<{Store("Select", 1), Store("Select", 2)},
      {Store("Count", 2)},
      {Store("DataHigh", <<1>>)},
      {Store("Command", "Submit")},
      {Store("Command", "Submit"), Store("Command", "Consume"), [register |-> "ResultLow"],
       Store("Select", 2)},
      {Store("Command", "Submit")}>>>>
=============================================================================
