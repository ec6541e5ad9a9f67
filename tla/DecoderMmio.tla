----------------------------- MODULE DecoderMmio -----------------------------
(***************************************************************************)
(* The memory-mapped registers through which a core drives the decoders:   *)
(* class DecoderMmio of decoder/mmio.cpp.  A request is a record           *)
(* [register, value] for a store to a register, or [register] alone for a  *)
(* load.  A payload word has WordBits bits, the first measurement first;   *)
(* the tag, which only reaches the trace, is left out.                     *)
(***************************************************************************)
EXTENDS Integers, Sequences

CONSTANTS
  WordBits,   \* bits of the DataLow and of the DataHigh register
  DecoderIds  \* the identities of the configured decoders

ASSUME MmioAssumption == WordBits \in Nat \ {0} /\ DecoderIds \subseteq Nat

\* The accesses of a program: loads, and stores of what a register can hold.
Accesses ==
  [register : STRING]
    \cup [register : {"Select", "Count", "ResultLow", "ResultHigh"}, value : Nat]
    \cup [register : {"DataLow", "DataHigh"}, value : [1..WordBits -> {0, 1}]]
    \cup [register : {"Command"}, value : STRING]

ZeroWord == [i \in 1..WordBits |-> 0]

\* Registers as they are after a reset.
ClearMmio == [decoder |-> 0, count |-> 0, low |-> ZeroWord, high |-> ZeroWord]

\* What an access leads to: the registers, and a command for the transport.
NoCommand(r) == [registers |-> r, command |-> [kind |-> "None"]]
Refused(r)   == [registers |-> r, command |-> [kind |-> "Fault"]]
Issue(r, c)  == [registers |-> r, command |-> c]

\* access for a store to the Command register.
CommandWrite(r, value) ==
  IF r.decoder \notin DecoderIds THEN Refused(r)
  ELSE CASE value = "Consume" -> Issue(r, [kind |-> "Consume", decoder |-> r.decoder])
         [] value = "Reset"   -> Issue(r, [kind |-> "Reset", decoder |-> r.decoder])
         [] value = "Submit"  ->
              IF r.count \in 1..(2 * WordBits)
                THEN Issue(r, [kind |-> "Submit", decoder |-> r.decoder,
                               bits |-> SubSeq(r.low \o r.high, 1, r.count)])
                ELSE Refused(r)
         [] OTHER -> Refused(r)

\* access for any other store.
RegisterWrite(r, request) ==
  CASE request.register = "Select" ->
         IF request.value \in DecoderIds THEN NoCommand([r EXCEPT !.decoder = request.value])
         ELSE Refused(r)
    [] request.register = "Count"    -> NoCommand([r EXCEPT !.count = request.value])
    [] request.register = "DataLow"  -> NoCommand([r EXCEPT !.low = request.value])
    [] request.register = "DataHigh" -> NoCommand([r EXCEPT !.high = request.value])
    [] OTHER -> Refused(r)

MmioAccess(r, request) ==
  IF "value" \in DOMAIN request
    THEN IF request.register = "Command" THEN CommandWrite(r, request.value)
         ELSE RegisterWrite(r, request)
    ELSE IF r.decoder \in DecoderIds
              /\ request.register \in {"Count", "Command", "ResultLow", "ResultHigh"}
      THEN Issue(r, [kind |-> "Read", decoder |-> r.decoder, register |-> request.register])
      ELSE Refused(r)
=============================================================================
