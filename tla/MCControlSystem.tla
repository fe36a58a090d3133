--------------------------- MODULE MCControlSystem ---------------------------
(***************************************************************************)
(* The control server as test/config/test_emulator.cfg configures it, and  *)
(* with the sequencer loaded first and the emulator left at its default    *)
(* endpoint, which ZeroMQ refuses.  Registers as in MCRegisterAccess;      *)
(* integers of more than 5 bits are not packed.                            *)
(***************************************************************************)
EXTENDS ControlSystem

Endpoint == "tcp://127.0.0.1:5555"

Emulated == [emulate_hw |-> TRUE, asic_emulator_endpoint |-> Endpoint]

Section(name, options) == [name |-> name, options |-> options]

MCConfigurations ==
  {<<Section("detector", Emulated),
     Section("asic_emulator", [endpoint |-> Endpoint]),
     Section("odin_sequencer", [sequence_location |-> "test/sequences"])>>,
   <<Section("odin_sequencer", [sequence_location |-> "test/sequences"]),
     Section("asic_emulator", << >>), Section("detector", Emulated)>>}

MCDefaultValues == [a \in RegisterAddresses |-> IF a = CONFIG1 THEN 2 ELSE 0]

MCPackedIntegers == 0 .. 31

Line(command, args) == [command |-> command, args |-> args]

\* A read, with a default length, of an address out of a byte's range, a write,
\* one without arguments, one of a word, one that msgpack cannot pack, and a
\* read that memory does not hold though its length can be packed.
MCLines ==
  {Line("read", <<16>>), Line("write", <<0, 3>>), Line("write", << >>),
   Line("write", <<3, NotInteger>>), Line("write", <<0, 40>>),
   Line("read", <<0, 20>>), Line("quit", << >>)}

\* A read and a write past the shift registers.
MCTestTransactions ==
  << <<REGISTER_PAGE_SIZE, 0>>, <<REGISTER_PAGE_SIZE - 1, 1, 2, 3>> >>
=============================================================================
