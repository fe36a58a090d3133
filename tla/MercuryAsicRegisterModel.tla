---------------------- MODULE MercuryAsicRegisterModel ----------------------
(***************************************************************************)
(* The ASIC's SPI register space as its emulator models it                 *)
(* (asic_emulator/register_model.py, asic/registers.py), and the wire      *)
(* format of a register access (asic/device.py, asic_emulator/client.py).  *)
(*                                                                         *)
(* A register model is a record of the object's members; a transaction is  *)
(* the sequence of bytes of an SPI transfer, the address byte first.       *)
(* ProcessTransaction maps a model and a transaction to the model and the  *)
(* transaction it leaves behind.  The layout is kept and the sizes are     *)
(* constants: registers CONFIG1 .. size - 1, two pages, the two shift      *)
(* registers at the end of page 0, the last named register at size.        *)
(***************************************************************************)
EXTENDS Integers, Sequences, SequencesExt

CONSTANTS
  REGISTER_PAGE_SIZE,            \* 128: address bits below the RW bit
  TEST_SR,                       \* 7
  size,                          \* RegisterMap.size(): 145
  DefaultValues,                 \* the registers' initial values
  REGISTER_SR_CAL_SIZE,          \* 20
  REGISTER_SR_TEST_NUM_SECTORS,  \* 20
  log_register_writes,
  Sector,     \* what an entry of the test shift register is until written
  NotInteger  \* a value of a transaction that is not an integer

CONFIG1 == 0
SR_CAL == REGISTER_PAGE_SIZE - 2
SR_TEST == REGISTER_PAGE_SIZE - 1
\* The first register of page 1; two addresses before it are not used.
CHIP_BIAS == REGISTER_PAGE_SIZE + 2
UnusedAddresses == {REGISTER_PAGE_SIZE, REGISTER_PAGE_SIZE + 1}

ByteModulus == 2 * REGISTER_PAGE_SIZE
Byte == 0 .. (ByteModulus - 1)
RegisterAddresses == 0 .. (size - 1)
ShiftRegisters == {SR_CAL, SR_TEST}

ASSUME LayoutAssumption ==
  /\ REGISTER_PAGE_SIZE \in Nat /\ REGISTER_PAGE_SIZE > 5
  /\ TEST_SR \in 3 .. (SR_CAL - 1)
  /\ size \in Nat /\ size > CHIP_BIAS
  /\ REGISTER_SR_CAL_SIZE \in Nat
  /\ REGISTER_SR_TEST_NUM_SECTORS \in Nat
  /\ log_register_writes \in BOOLEAN

ASSUME ValuesAssumption ==
  /\ DefaultValues \in [RegisterAddresses -> Byte]
  /\ Sector \notin Byte
  /\ NotInteger \notin Byte

RegisterModels ==
  [registers : [RegisterAddresses -> Byte],
   shift_registers : [ShiftRegisters -> Seq(Byte \cup {Sector})],
   page_select : 0 .. 1,
   test_sr_sector : 0 .. 31]

bitfield(register, index, width) == (register \div 2^index) % 2^width

\* A new model: default values, every callback run once.  All sectors of
\* the test shift register are one list entry repeated.
NewRegisterModel ==
  [registers |-> DefaultValues,
   shift_registers |->
     [a \in ShiftRegisters |->
        IF a = SR_CAL THEN [i \in 1 .. REGISTER_SR_CAL_SIZE |-> 0]
        ELSE [i \in 1 .. REGISTER_SR_TEST_NUM_SECTORS |-> Sector]],
   page_select |-> bitfield(DefaultValues[CONFIG1], 0, 1),
   test_sr_sector |-> bitfield(DefaultValues[TEST_SR], 2, 5)]

is_write_transaction(transaction) ==
  (transaction[1] \div REGISTER_PAGE_SIZE) % 2 = 0

\* Registers 0 to 2 are the same on both pages.
Mutant_FirstFourCommon(m, addr) ==
  IF m.page_select = 1 /\ addr > 3 THEN addr + REGISTER_PAGE_SIZE ELSE addr

Mutant_AllPaged(m, addr) == addr + m.page_select * REGISTER_PAGE_SIZE

calc_register_addr(m, addr) ==
  IF m.page_select = 1 /\ addr > 2 THEN addr + REGISTER_PAGE_SIZE ELSE addr

\* Registers with a callback keep the state derived from them up to date.
Mutant_NoCallback(m, addr, value) == [m EXCEPT !.registers[addr] = value]

WriteRegister(m, addr, value) ==
  [m EXCEPT
     !.registers[addr] = value,
     !.page_select = IF addr = CONFIG1 THEN bitfield(value, 0, 1) ELSE @,
     !.test_sr_sector =
        IF addr = TEST_SR THEN bitfield(value, 2, 5) ELSE @]

\* How much of a shift register the rest of a transaction covers, from
\* payload position i on.
sr_trans_len(m, transaction, i, addr) ==
  IF Len(m.shift_registers[addr]) < Len(transaction) - i
  THEN Len(m.shift_registers[addr]) ELSE Len(transaction) - i

-----------------------------------------------------------------------------
(* process_transaction: one turn of its loop per payload byte.  The state  *)
(* of the loop is the model, the transaction and whether the loop goes on: *)
(* a shift register takes the rest of the burst, an exception ends it.     *)

Stop(s) == [s EXCEPT !.running = FALSE]

\* process_sr_transaction, writing.
WriteShiftRegister(s, i, addr) ==
  LET n == sr_trans_len(s.model, s.transaction, i, addr)
  IN [s EXCEPT !.model.shift_registers[addr] =
        [k \in DOMAIN @ |-> IF k <= n THEN s.transaction[i + k] ELSE @[k]]]

\* process_sr_transaction, reading.  A sector does not convert to a byte:
\* the exception leaves the transaction as it is.
ReadShiftRegister(s, i, addr) ==
  LET n == sr_trans_len(s.model, s.transaction, i, addr)
      sr == s.model.shift_registers[addr]
  IN IF \E k \in 1 .. n : sr[k] = Sector THEN s
     ELSE [s EXCEPT !.transaction =
             [j \in DOMAIN @ |->
                IF j - i \in 1 .. n THEN sr[j - i] ELSE @[j]]]

\* log_register_write finds no name for an unused address.
LogRaises(addr) == log_register_writes /\ addr \in UnusedAddresses

\* Payload position i, of register addr.
Turn(s, i, addr) ==
  LET write == is_write_transaction(s.transaction)
  IN CASE ~s.running -> s
       [] s.running /\ addr \in ShiftRegisters ->
            Stop(IF write THEN WriteShiftRegister(s, i, addr)
                 ELSE ReadShiftRegister(s, i, addr))
       [] s.running /\ addr \notin ShiftRegisters \cup RegisterAddresses ->
            Stop(s)
       [] s.running /\ addr \in RegisterAddresses \ ShiftRegisters ->
            IF write
            THEN [s EXCEPT
                    !.model = WriteRegister(@, addr, s.transaction[i + 1]),
                    !.running = ~LogRaises(addr)]
            ELSE [s EXCEPT !.transaction[i + 1] = s.model.registers[addr]]

\* The page of each address is looked up when its turn comes.
Mutant_BurstTurn(m, s, i) ==
  Turn(s, i, calc_register_addr(m,
               (s.transaction[1] % REGISTER_PAGE_SIZE) + (i - 1)))

BurstTurn(m, s, i) ==
  Turn(s, i, calc_register_addr(s.model,
               (s.transaction[1] % REGISTER_PAGE_SIZE) + (i - 1)))

ProcessTransaction(m, transaction) ==
  LET after[i \in 0 .. (Len(transaction) - 1)] ==
        IF i = 0
        THEN [model |-> m, transaction |-> transaction, running |-> TRUE]
        ELSE BurstTurn(m, after[i - 1], i)
      end == after[Len(transaction) - 1]
  IN [model |-> end.model, response |-> end.transaction]

-----------------------------------------------------------------------------
(* Register accesses: what a caller asks for and what goes over the wire   *)

\* What a caller may pass: an address and values, any of which need not fit
\* a byte or be an integer.
IsCall(call) ==
  /\ call.access \in {"read", "write"}
  /\ call.transaction \in Seq(Int \cup {NotInteger})
  /\ call.transaction # << >> /\ call.transaction[1] \in Int

register_read(addr, length) ==
  [access |-> "read",
   transaction |-> <<addr>> \o [i \in 1 .. length |-> 0]]

register_write(addr, vals) ==
  [access |-> "write", transaction |-> <<addr>> \o vals]

Mutant_NoRwBit(call) ==
  [call.transaction EXCEPT ![1] = @ % REGISTER_PAGE_SIZE]

\* MercuryAsicClient.read sets the RW bit, write clears all above the mask.
OnWire(call) ==
  [call.transaction EXCEPT ![1] =
     IF call.access = "write" THEN @ % REGISTER_PAGE_SIZE
     ELSE IF bitfield(@ \div REGISTER_PAGE_SIZE, 0, 1) = 1 THEN @
     ELSE @ + REGISTER_PAGE_SIZE]

\* bytearray(transaction) takes integers that fit a byte.  The first value
\* it cannot take decides which exception it raises.
IsTransaction(transaction) ==
  \A i \in DOMAIN transaction : transaction[i] \in Byte

RaisesTypeError(transaction) ==
  \E i \in DOMAIN transaction :
    /\ transaction[i] = NotInteger
    /\ \A j \in 1 .. (i - 1) : transaction[j] \in Byte

Mutant_Unconverted(m, transaction) == ProcessTransaction(m, transaction)

\* The emulator's answer: errors return the transaction unprocessed.
Answer(m, transaction) ==
  IF IsTransaction(transaction) THEN ProcessTransaction(m, transaction)
  ELSE [model |-> m, response |-> transaction]
=============================================================================
