--------------------------- MODULE RegisterAccess ---------------------------
(***************************************************************************)
(* One caller of MercuryAsicDevice, its calls carried out one at a time:   *)
(* what every sequence of register_read and register_write calls, bursts,  *)
(* shift registers, page changes and rejected values included, makes of    *)
(* the register model.                                                     *)
(***************************************************************************)
EXTENDS MercuryAsicRegisterModel

CONSTANT Calls    \* the calls the caller may make

ASSUME CallsAssumption == \A call \in Calls : IsCall(call)

VARIABLE model

TypeOK == model \in RegisterModels

Init == model = NewRegisterModel

Execute(call) == model' = Answer(model, OnWire(call)).model

Next == \E call \in Calls : Execute(call)

Spec == Init /\ [][Next]_model

-----------------------------------------------------------------------------
(* Properties *)

\* The state derived from registers never lags behind them, whatever bursts
\* and errors did: the page from CONFIG1, the test sector from TEST_SR.
DerivedStateMatches ==
  /\ model.page_select = bitfield(model.registers[CONFIG1], 0, 1)
  /\ model.test_sr_sector = bitfield(model.registers[TEST_SR], 2, 5)

\* While page 1 is selected nothing of page 0 changes but the registers
\* that are common to both, and the reverse.
PageIsolation ==
  [][/\ model.page_select = 1 /\ model'.page_select = 1 =>
          /\ \A a \in 3 .. (REGISTER_PAGE_SIZE - 1) :
               model'.registers[a] = model.registers[a]
          /\ model'.shift_registers = model.shift_registers
     /\ model.page_select = 0 /\ model'.page_select = 0 =>
          \A a \in REGISTER_PAGE_SIZE .. (size - 1) :
            model'.registers[a] = model.registers[a]]_model

\* The registers of a burst of n values from addr on exist, and a shift
\* register takes what is left of the burst.
BurstFits(page, addr, n) ==
  LET last == addr + n - 1
  IN IF page = 1 THEN last <= 2 \/ last + REGISTER_PAGE_SIZE < size
     ELSE \/ last < SR_CAL
          \/ addr <= SR_CAL /\ last - SR_CAL < REGISTER_SR_CAL_SIZE
          \/ addr = SR_TEST /\ n <= REGISTER_SR_TEST_NUM_SECTORS

\* What a burst writes, a burst that reads the same registers returns, even
\* when the first value written changes the page (test_read_transaction).
ReadBack ==
  \A call \in Calls :
    call.access = "write" /\ IsTransaction(call.transaction) =>
      LET addr == OnWire(call)[1]
          vals == Tail(call.transaction)
          written == Answer(model, OnWire(call)).model
          read == Answer(written, OnWire(register_read(addr, Len(vals))))
      IN BurstFits(written.page_select, addr, Len(vals)) =>
           Tail(read.response) = vals

\* A read leaves no trace in the registers: the RW bit that the client sets
\* is the one by which the model tells reads from writes.
ReadsChangeNothing ==
  \A call \in Calls :
    call.access = "read" => Answer(model, OnWire(call)).model = model

\* The two addresses between the pages, which have no name, are never written
\* (log_register_write would raise an error half way through a burst): shift
\* registers end the bursts of page 0, and page 1 has no registers 0 and 1.
UnusedNeverWritten ==
  \A a \in UnusedAddresses : model.registers[a] = DefaultValues[a]

\* "This async method writes one or more registers to the ASIC device at a
\* specified address" (register_write): with its page selected, CHIP_BIAS holds
\* the value written to its address.
BiasRegisterWritten ==
  model.page_select = 1 =>
    LET written == Answer(model, OnWire(register_write(CHIP_BIAS, <<1>>))).model
    IN written.registers[CHIP_BIAS] = 1
=============================================================================
