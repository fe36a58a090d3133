----------------------- MODULE RegisterAccess_proofs ------------------------
(***************************************************************************)
(* The properties of RegisterAccess, for every register layout and every   *)
(* set of calls.  The invariant is what every transaction keeps; that      *)
(* bursts read back follows two transactions turn by turn, the first       *)
(* leaving in the registers what the second finds there.                   *)
(***************************************************************************)
EXTENDS RegisterAccess, MercuryAsicRegisterModel_proofs

\* Shift registers keep the length they were created with.
ShiftRegisterSizes ==
  /\ Len(model.shift_registers[SR_CAL]) = REGISTER_SR_CAL_SIZE
  /\ Len(model.shift_registers[SR_TEST]) = REGISTER_SR_TEST_NUM_SECTORS

\* The inductive invariant.  ReadBack needs the sizes of the shift registers.
Inv == TypeOK /\ DerivedStateMatches /\ UnusedNeverWritten /\ ShiftRegisterSizes

\* The client sets the RW bit of a read, whatever address it is given.
LEMMA ReadHasBit ==
  ASSUME NEW call \in Calls, call.access = "read", IsTransaction(OnWire(call))
  PROVE  ~is_write_transaction(OnWire(call))
<1>. DEFINE y == OnWire(call)[1]
            x == call.transaction[1]
            P == REGISTER_PAGE_SIZE
<1>1. y = IF bitfield(x \div P, 0, 1) = 1 THEN x ELSE x + P
  BY CallsAssumption, OnWireIsSequence
<1>2. y \in Byte
  <2>1. OnWire(call) \in Seq(Int \cup {NotInteger}) /\ OnWire(call) # << >>
    BY CallsAssumption, OnWireIsSequence
  <2>2. 1 \in DOMAIN OnWire(call)
    BY <2>1, EmptySeq, LenProperties
  <2>. QED  BY <2>2 DEF IsTransaction
<1>3. x \in Int /\ P \in Nat /\ P > 5 /\ y \in 0 .. (2 * P - 1)
  BY <1>2, CallsAssumption, Bytes DEF Byte, ByteModulus, IsCall
<1>. HIDE DEF y, x, P
<1>4. \A z \in Int : bitfield(z, 0, 1) = z % 2
  BY DEF bitfield
<1>5. (y \div P) % 2 = 1
  <2>1. CASE bitfield(x \div P, 0, 1) = 1
    <3>1. x \div P \in Int
      BY <1>3
    <3>. QED  BY <3>1, <1>1, <1>4, <2>1
  <2>2. CASE bitfield(x \div P, 0, 1) # 1
    <3>1. x \in Int /\ x \div P \in Int /\ (x \div P) % 2 # 1 /\ y = x + P
      BY <1>1, <1>3, <1>4, <2>2
    <3>2. CASE x < 0
      <4>1. x \div P = -1
        BY <1>3, <3>1, <3>2
      <4>. QED  BY <4>1, <3>1
    <3>3. CASE x >= 0
      <4>1. y \div P = 1
        BY <1>3, <3>1, <3>3
      <4>. QED  BY <4>1
    <3>. QED  BY <3>1, <3>2, <3>3
  <2>. QED  BY <2>1, <2>2
<1>. QED  BY <1>5 DEF is_write_transaction, y, P

\* The invariant holds of a new model.
LEMMA NewRegisterModelInv == Init => Inv
<1>. SUFFICES ASSUME Init PROVE Inv
  OBVIOUS
<1>1. TypeOK /\ ShiftRegisterSizes
  BY NewModelTyped DEF Init, TypeOK, ShiftRegisterSizes
<1>2. DerivedStateMatches /\ UnusedNeverWritten
  BY DEF Init, NewRegisterModel, DerivedStateMatches, UnusedNeverWritten
<1>. QED  BY <1>1, <1>2 DEF Inv

\* A step of the specification keeps what every transaction keeps.
LEMMA ExecuteAnswers ==
  ASSUME TypeOK, [Next]_model
  PROVE  model' \in RegisterModels /\ Kept(model, model')
<1>1. CASE Next
  <2>1. PICK call \in Calls : model' = Answer(model, OnWire(call)).model
    BY <1>1 DEF Next, Execute
  <2>2. OnWire(call) \in Seq(Int \cup {NotInteger}) /\ OnWire(call) # << >>
    BY CallsAssumption, OnWireIsSequence
  <2>. QED  BY <2>1, <2>2, AnswerProperties DEF TypeOK
<1>2. CASE UNCHANGED model
  BY <1>2, KeptReflexive DEF TypeOK
<1>. QED  BY <1>1, <1>2

\* The invariant is inductive.
LEMMA InvInductive == Inv /\ [Next]_model => Inv'
<1>. SUFFICES ASSUME Inv, [Next]_model PROVE Inv'
  OBVIOUS
<1>1. model' \in RegisterModels /\ Kept(model, model')
  BY ExecuteAnswers DEF Inv
<1>2. TypeOK'
  BY <1>1 DEF TypeOK
<1>3. DerivedStateMatches'
  BY <1>1 DEF Inv, DerivedStateMatches, Kept, Derived
<1>4. UnusedNeverWritten'
  BY <1>1 DEF Inv, UnusedNeverWritten, Kept, SameUnused
<1>5. ShiftRegisterSizes'
  BY <1>1 DEF Inv, ShiftRegisterSizes, Kept, SameLengths, ShiftRegisters
<1>. QED  BY <1>2, <1>3, <1>4, <1>5 DEF Inv

LEMMA RegistersInvariant == Spec => []Inv
BY NewRegisterModelInv, InvInductive, PTL DEF Spec

\* A register model stays one, for every layout and every set of calls:
\* bursts that run off the end of a page or of a shift register included.
THEOREM RegistersTyped == Spec => []TypeOK
<1>1. Inv => TypeOK
  BY DEF Inv
<1>. QED  BY <1>1, RegistersInvariant, PTL

\* The page and the test sector are those that CONFIG1 and TEST_SR say, after
\* every call, also one that an exception ended.
THEOREM DerivedStateFollows == Spec => []DerivedStateMatches
<1>1. Inv => DerivedStateMatches
  BY DEF Inv
<1>. QED  BY <1>1, RegistersInvariant, PTL

\* The two addresses that no register has keep their defaults.
THEOREM UnusedStayDefault == Spec => []UnusedNeverWritten
<1>1. Inv => UnusedNeverWritten
  BY DEF Inv
<1>. QED  BY <1>1, RegistersInvariant, PTL

\* No call, of whatever bytes, writes a register of the page not selected.
THEOREM PagesIsolated == Spec => PageIsolation
<1>. DEFINE Isolated ==
       /\ model.page_select = 1 /\ model'.page_select = 1 =>
          /\ \A a \in 3 .. (REGISTER_PAGE_SIZE - 1) :
               model'.registers[a] = model.registers[a]
          /\ model'.shift_registers = model.shift_registers
       /\ model.page_select = 0 /\ model'.page_select = 0 =>
          \A a \in REGISTER_PAGE_SIZE .. (size - 1) :
            model'.registers[a] = model.registers[a]
<1>1. Inv /\ [Next]_model => [Isolated]_model
  BY ExecuteAnswers DEF Inv, Kept, SamePage0, SamePage1
<1>. QED  BY <1>1, RegistersInvariant, PTL DEF Spec, PageIsolation

\* A call of register_read changes nothing, whatever its address and length.
THEOREM ReadsLeaveNoTrace == Spec => []ReadsChangeNothing
<1>1. ASSUME Inv PROVE ReadsChangeNothing
  <2>. SUFFICES ASSUME NEW call \in Calls, call.access = "read"
                PROVE  Answer(model, OnWire(call)).model = model
    BY DEF ReadsChangeNothing
  <2>1. OnWire(call) \in Seq(Int \cup {NotInteger}) /\ OnWire(call) # << >>
    BY CallsAssumption, OnWireIsSequence
  <2>2. CASE IsTransaction(OnWire(call))
    BY <1>1, <2>1, <2>2, ReadHasBit, AnswerProperties DEF Inv, TypeOK
  <2>3. CASE ~IsTransaction(OnWire(call))
    BY <2>3 DEF Answer
  <2>. QED  BY <2>2, <2>3
<1>. QED  BY <1>1, RegistersInvariant, PTL

-----------------------------------------------------------------------------
(* Bursts: which register has which value                                  *)

\* The register that address x of page p names.
OnPage(p, x) == IF p = 1 /\ x > 2 THEN x + REGISTER_PAGE_SIZE ELSE x

\* The position in a burst of n values from b at which a shift register, which
\* takes the rest, has its turn; beyond n when none has.
FirstShift(p, b, n) ==
  IF p = 1 THEN n + 1 ELSE IF b <= SR_CAL THEN SR_CAL - b + 1 ELSE 1

\* The size of a shift register.
LengthOf(a) ==
  IF a = SR_CAL THEN REGISTER_SR_CAL_SIZE ELSE REGISTER_SR_TEST_NUM_SECTORS

\* A burst that fits consists of different registers that exist and have a
\* name, then at most a shift register large enough for what is left.
LEMMA BurstPlan ==
  ASSUME NEW p \in 0 .. 1, NEW b \in 0 .. (REGISTER_PAGE_SIZE - 1), NEW n \in Nat,
         BurstFits(p, b, n)
  PROVE  LET f == FirstShift(p, b, n)
             A(j) == OnPage(p, b + (j - 1))
         IN /\ f \in Nat /\ f >= 1
            /\ \A j \in 1 .. n : j < f =>
                 /\ A(j) \in RegisterAddresses \ ShiftRegisters
                 /\ ~LogRaises(A(j))
            /\ \A j, k \in 1 .. n : A(j) = A(k) => j = k
            /\ f <= n => A(f) \in ShiftRegisters /\ n - f + 1 <= LengthOf(A(f))
<1>. DEFINE f == FirstShift(p, b, n)
            A(j) == OnPage(p, b + (j - 1))
<1>1. CASE p = 1
  <2>1. f = n + 1
    BY <1>1 DEF FirstShift
  <2>2. \A j \in 1 .. n : /\ A(j) \in RegisterAddresses \ ShiftRegisters
                          /\ ~LogRaises(A(j))
    BY <1>1, Bytes DEF BurstFits, OnPage, RegisterAddresses, ShiftRegisters, SR_CAL, SR_TEST,
         LogRaises, UnusedAddresses, CHIP_BIAS
  <2>3. \A j, k \in 1 .. n : A(j) = A(k) => j = k
    BY <1>1, Bytes DEF OnPage
  <2>. QED  BY <2>1, <2>2, <2>3
<1>2. CASE p = 0
  <2>1. \A j \in Int : A(j) = b + (j - 1)
    BY <1>2 DEF OnPage
  <2>2. f = IF b <= SR_CAL THEN SR_CAL - b + 1 ELSE 1
    BY <1>2 DEF FirstShift
  <2>3. \/ b + n - 1 < SR_CAL
        \/ b <= SR_CAL /\ (b + n - 1) - SR_CAL < REGISTER_SR_CAL_SIZE
        \/ b = SR_TEST /\ n <= REGISTER_SR_TEST_NUM_SECTORS
    BY <1>2 DEF BurstFits
  <2>. HIDE DEF A, f
  <2>4. f \in Nat /\ f >= 1
    BY <2>2, Bytes DEF SR_CAL
  <2>5. \A j \in 1 .. n : j < f =>
          /\ A(j) \in RegisterAddresses \ ShiftRegisters
          /\ ~LogRaises(A(j))
    BY <2>1, <2>2, Bytes
    DEF RegisterAddresses, ShiftRegisters, SR_CAL, SR_TEST, LogRaises, UnusedAddresses, CHIP_BIAS
  <2>6. \A j, k \in 1 .. n : A(j) = A(k) => j = k
    BY <2>1
  <2>7. f <= n => A(f) \in ShiftRegisters /\ n - f + 1 <= LengthOf(A(f))
    <3>. SUFFICES ASSUME f <= n
                  PROVE  A(f) \in ShiftRegisters /\ n - f + 1 <= LengthOf(A(f))
      OBVIOUS
    <3>1. CASE b <= SR_CAL
      <4>1. f = SR_CAL - b + 1 /\ A(f) = SR_CAL
        BY <2>1, <2>2, <2>4, <3>1, Bytes DEF SR_CAL
      <4>2. n - f + 1 <= REGISTER_SR_CAL_SIZE
        BY <2>3, <3>1, <4>1, Bytes, LayoutAssumption DEF SR_CAL, SR_TEST
      <4>. QED  BY <4>1, <4>2 DEF LengthOf, ShiftRegisters
    <3>2. CASE ~(b <= SR_CAL)
      <4>1. f = 1 /\ b = SR_TEST /\ A(f) = SR_TEST
        BY <2>1, <2>2, <3>2, Bytes DEF SR_CAL, SR_TEST
      <4>2. n - f + 1 <= REGISTER_SR_TEST_NUM_SECTORS
        BY <2>3, <3>2, <4>1, Bytes DEF SR_CAL, SR_TEST
      <4>3. SR_TEST # SR_CAL
        BY Bytes DEF SR_CAL, SR_TEST
      <4>. QED  BY <4>1, <4>2, <4>3 DEF LengthOf, ShiftRegisters
    <3>. QED  BY <3>1, <3>2
  <2>. QED  BY <2>4, <2>5, <2>6, <2>7 DEF A, f
<1>. QED  BY <1>1, <1>2

\* A turn at another address than CONFIG1 leaves the page as it is.
LEMMA TurnKeepsPage ==
  ASSUME NEW n \in Nat, NEW s \in LoopStates(n), NEW i \in 1 .. (n - 1),
         NEW a \in Nat \ {CONFIG1}
  PROVE  Turn(s, i, a).model.page_select = s.model.page_select
<1>. DEFINE w == Turn(s, i, a)
<1>1. /\ ~s.running => w = s
      /\ s.running /\ a \in ShiftRegisters =>
           IF Writes(s) THEN TurnWritesShiftRegister(s, i, a, w)
           ELSE TurnReadsShiftRegister(s, i, a, w)
      /\ s.running /\ a \notin ShiftRegisters \cup RegisterAddresses =>
           TurnEnds(s, w)
      /\ s.running /\ a \in RegisterAddresses \ ShiftRegisters =>
           IF Writes(s) THEN TurnWritesRegister(s, i, a, w)
           ELSE TurnReadsRegister(s, i, a, w)
  BY TurnCases
<1>. HIDE DEF w
<1>2. CASE s.running /\ a \in RegisterAddresses \ ShiftRegisters /\ Writes(s)
  <2>1. s.model \in RegisterModels /\ s.transaction[i + 1] \in Byte
    BY DEF LoopStates
  <2>2. w.model = WriteRegister(s.model, a, s.transaction[i + 1])
    BY <1>1, <1>2 DEF TurnWritesRegister
  <2>. QED  BY <1>2, <2>1, <2>2, WriteRegisterPage DEF w
<1>3. CASE ~(s.running /\ a \in RegisterAddresses \ ShiftRegisters /\ Writes(s))
  <2>1. w.model.page_select = s.model.page_select
    BY <1>1, <1>3 DEF TurnWritesShiftRegister, TurnReadsShiftRegister, TurnEnds, TurnReadsRegister
  <2>. QED  BY <2>1 DEF w
<1>. QED  BY <1>2, <1>3

\* The addresses of a burst are those of the page it ends on: the page can
\* change at the first of them only, and that is the same on both pages.
LEMMA AddressesFixed ==
  ASSUME NEW m \in RegisterModels, NEW n \in Nat \ {0}, NEW t \in [1 .. n -> Byte],
         NEW i \in 1 .. (n - 1)
  PROVE  LET after == After(m, t)
             p == after[n - 1].model.page_select
         IN /\ p \in 0 .. 1
            /\ AddressAt(after[i - 1], i) = OnPage(p, Base(t) + (i - 1))
<1>. DEFINE after == After(m, t)
            N == n - 1
            S == {j \in 0 .. N : j >= 1 =>
                    after[j].model.page_select = after[1].model.page_select}
<1>1. /\ after \in [0 .. N -> LoopStates(n)]
      /\ \A j \in 1 .. N :
           after[j] = Turn(after[j - 1], j, AddressAt(after[j - 1], j))
      /\ \A j \in 0 .. N : LoopInv(m, t, j, after[j])
  BY ProcessTransactionLoop, ProcessTransactionInv
<1>. HIDE DEF after
<1>2. Base(t) \in 0 .. (REGISTER_PAGE_SIZE - 1)
  BY BaseInPage
<1>3. ASSUME NEW j \in 1 .. N
      PROVE  /\ AddressAt(after[j - 1], j) \in Nat
             /\ after[j - 1].model.page_select \in 0 .. 1
             /\ AddressAt(after[j - 1], j) =
                  OnPage(after[j - 1].model.page_select, Base(t) + (j - 1))
  <2>. DEFINE s == after[j - 1]
  <2>1. s \in LoopStates(n) /\ s.transaction[1] = t[1]
    BY <1>1 DEF LoopInv
  <2>. HIDE DEF s
  <2>2. /\ AddressAt(s, j) \in Nat
        /\ s.model.page_select \in 0 .. 1
        /\ AddressAt(s, j) = OnPage(s.model.page_select, Base(t) + (j - 1))
    <3>. DEFINE x == Base(t) + (j - 1)
    <3>1. /\ AddressAt(s, j) \in Nat
          /\ s.model.page_select \in 0 .. 1
          /\ AddressAt(s, j) = IF s.model.page_select = 1 /\ x > 2
                               THEN x + REGISTER_PAGE_SIZE ELSE x
      BY <2>1, AddressOfTurn
    <3>. QED  BY <3>1 DEF OnPage
  <2>. QED  BY <2>2 DEF s
<1>4. ASSUME NEW j \in 1 .. N, Base(t) + (j - 1) > 0
      PROVE  after[j].model.page_select = after[j - 1].model.page_select
  <2>. DEFINE s == after[j - 1]
              a == AddressAt(s, j)
  <2>1. s \in LoopStates(n) /\ after[j] = Turn(s, j, a)
    BY <1>1
  <2>2. a \in Nat \ {CONFIG1}
    <3>. DEFINE x == Base(t) + (j - 1)
    <3>1. x \in Nat /\ x > 0
      BY <1>2, <1>4, Bytes
    <3>2. a \in Nat /\ a = OnPage(s.model.page_select, x)
      BY <1>3
    <3>. HIDE DEF x, a
    <3>. QED  BY <3>1, <3>2, Bytes DEF OnPage, CONFIG1
  <2>. HIDE DEF s, a
  <2>3. after[j].model.page_select = s.model.page_select
    BY <2>1, <2>2, TurnKeepsPage
  <2>. QED  BY <2>3 DEF s
<1>5. 0 \in S
  OBVIOUS
<1>6. ASSUME NEW j \in 1 .. N, j - 1 \in S PROVE j \in S
  <2>1. CASE j = 1
    BY <2>1
  <2>2. CASE j > 1
    <3>1. after[j].model.page_select = after[j - 1].model.page_select
      BY <1>2, <1>4, <2>2
    <3>2. after[j - 1].model.page_select = after[1].model.page_select
      BY <1>6, <2>2
    <3>. QED  BY <3>1, <3>2
  <2>. QED  BY <2>1, <2>2
<1>7. \A j \in 0 .. N : j \in S
  <2>1. N \in Nat
    OBVIOUS
  <2>. HIDE DEF S, N
  <2>. QED  BY <1>5, <1>6, <2>1, LoopInduction
<1>8. after[N].model.page_select \in 0 .. 1
  <2>1. N \in 0 .. N
    OBVIOUS
  <2>. QED  BY <1>1, <2>1 DEF LoopStates, RegisterModels
<1>9. \A j \in 1 .. N : after[j].model.page_select = after[N].model.page_select
  <2>1. \A j \in 1 .. N : after[j].model.page_select = after[1].model.page_select
    BY <1>7
  <2>2. N \in 1 .. N
    OBVIOUS
  <2>. QED  BY <2>1, <2>2
<1>10. CASE i > 1
  <2>1. after[i - 1].model.page_select = after[N].model.page_select
    BY <1>9, <1>10
  <2>. QED  BY <1>3, <1>8, <2>1 DEF after
<1>11. CASE i = 1 /\ Base(t) > 0
  <2>1. after[i - 1].model.page_select = after[N].model.page_select
    <3>1. 1 \in 1 .. N /\ Base(t) + (1 - 1) > 0
      BY <1>2, <1>11
    <3>2. after[1].model.page_select = after[1 - 1].model.page_select
      BY <1>4, <3>1
    <3>3. after[1].model.page_select = after[N].model.page_select
      BY <1>9, <3>1
    <3>. QED  BY <1>11, <3>2, <3>3
  <2>. QED  BY <1>3, <1>8, <2>1 DEF after
<1>12. CASE i = 1 /\ Base(t) = 0
  <2>1. AddressAt(after[i - 1], i) = 0
    BY <1>3, <1>12 DEF OnPage
  <2>2. OnPage(after[N].model.page_select, Base(t) + (i - 1)) = 0
    BY <1>12 DEF OnPage
  <2>. QED  BY <1>8, <2>1, <2>2 DEF after
<1>. QED  BY <1>2, <1>10, <1>11, <1>12

\* The address of position j of transaction t, and the position of the first
\* shift register among n.
BurstAddress(t, p, j) == OnPage(p, Base(t) + (j - 1))
BurstFirst(t, p, n) == FirstShift(p, Base(t), n)

\* What i turns of a write have left behind.
Written(t, p, n, i, s) ==
  LET f == BurstFirst(t, p, n)
  IN /\ i < f => s.running
     /\ \A j \in 1 .. i : j < f =>
          s.model.registers[BurstAddress(t, p, j)] = t[j + 1]
     /\ i >= f =>
          /\ ~s.running
          /\ \A k \in 1 .. (n - f + 1) :
               s.model.shift_registers[BurstAddress(t, p, f)][k] = t[f + k]

\* What i turns of a read from model m have put in the transaction.
WasRead(m, t, p, n, i, s) ==
  LET f == BurstFirst(t, p, n)
  IN /\ i < f => s.running
     /\ \A j \in 1 .. i : j < f =>
          s.transaction[j + 1] = m.registers[BurstAddress(t, p, j)]
     /\ i >= f =>
          /\ ~s.running
          /\ \A k \in 1 .. (n - f + 1) :
               s.transaction[f + k] = m.shift_registers[BurstAddress(t, p, f)][k]

\* The shift registers have their sizes.
Lengths(m) == \A a \in ShiftRegisters : Len(m.shift_registers[a]) = LengthOf(a)

\* A turn of a write that fits keeps what was written and adds to it.
LEMMA WrittenTurn ==
  ASSUME NEW m \in RegisterModels, Lengths(m), NEW n \in Nat,
         NEW t \in [1 .. (n + 1) -> Byte], is_write_transaction(t),
         NEW p \in 0 .. 1, BurstFits(p, Base(t), n),
         NEW i \in 1 .. n, NEW s \in LoopStates(n + 1),
         LoopInv(m, t, i - 1, s), Written(t, p, n, i - 1, s),
         AddressAt(s, i) = BurstAddress(t, p, i)
  PROVE  Written(t, p, n, i, Turn(s, i, BurstAddress(t, p, i)))
<1>. DEFINE f == BurstFirst(t, p, n)
            A(j) == BurstAddress(t, p, j)
            a == A(i)
            w == Turn(s, i, a)
<1>1. /\ f \in Nat /\ f >= 1
      /\ \A j \in 1 .. n : j < f =>
           A(j) \in RegisterAddresses \ ShiftRegisters /\ ~LogRaises(A(j))
      /\ \A j, k \in 1 .. n : A(j) = A(k) => j = k
      /\ f <= n => A(f) \in ShiftRegisters /\ n - f + 1 <= LengthOf(A(f))
  <2>1. n + 1 \in Nat \ {0}
    OBVIOUS
  <2>2. Base(t) \in 0 .. (REGISTER_PAGE_SIZE - 1)
    BY <2>1, BaseInPage
  <2>. QED  BY <2>2, BurstPlan DEF BurstFirst, BurstAddress
<1>2. Writes(s) /\ s.transaction = t
  BY DEF LoopInv, Writes
<1>3. /\ i - 1 < f => s.running
      /\ \A j \in 1 .. (i - 1) : j < f => s.model.registers[A(j)] = t[j + 1]
      /\ i - 1 >= f =>
           /\ ~s.running
           /\ \A k \in 1 .. (n - f + 1) :
                s.model.shift_registers[A(f)][k] = t[f + k]
  BY DEF Written
<1>4. n + 1 \in Nat /\ i \in 1 .. ((n + 1) - 1)
  OBVIOUS
<1>5. s.model \in RegisterModels
  BY DEF LoopStates
<1>. HIDE DEF f, A
<1>6. CASE i < f
  <2>1. s.running /\ a \in RegisterAddresses \ ShiftRegisters /\ ~LogRaises(a)
    BY <1>1, <1>3, <1>6
  <2>2. a \in Nat
    BY <2>1, Bytes DEF RegisterAddresses
  <2>3. TurnWritesRegister(s, i, a, w)
    BY <1>2, <1>4, <2>1, <2>2, TurnCases
  <2>. DEFINE v == t[i + 1]
  <2>4. v \in Byte
    <3>1. i + 1 \in 1 .. (n + 1)
      OBVIOUS
    <3>. QED  BY <3>1
  <2>. HIDE DEF a, w, v
  <2>5. w.running /\ w.model = WriteRegister(s.model, a, v)
    BY <1>2, <2>1, <2>3 DEF TurnWritesRegister, v
  <2>6. w.model.registers = [s.model.registers EXCEPT ![a] = v]
    BY <1>5, <2>1, <2>4, <2>5, WriteRegisterFields
  <2>7. DOMAIN s.model.registers = RegisterAddresses
    BY <1>5 DEF RegisterModels
  <2>8. ASSUME NEW j \in 1 .. i, j < f PROVE w.model.registers[A(j)] = t[j + 1]
    <3>1. CASE j = i
      BY <2>1, <2>6, <2>7, <3>1 DEF a, v
    <3>2. CASE j # i
      <4>1. j \in 1 .. n /\ j \in 1 .. (i - 1) /\ A(j) # a /\ A(j) \in RegisterAddresses
        BY <1>1, <2>8, <3>2 DEF a
      <4>. QED  BY <1>3, <2>6, <2>7, <2>8, <4>1
    <3>. QED  BY <3>1, <3>2
  <2>. QED  BY <1>1, <1>6, <2>5, <2>8 DEF Written, f, A, a, w
<1>7. CASE i = f
  <2>1. s.running /\ a \in ShiftRegisters /\ n - f + 1 <= LengthOf(a)
    BY <1>1, <1>3, <1>7
  <2>2. a \in Nat
    BY <2>1, Bytes DEF ShiftRegisters, SR_CAL, SR_TEST
  <2>3. TurnWritesShiftRegister(s, i, a, w)
    BY <1>2, <1>4, <2>1, <2>2, TurnCases
  <2>. DEFINE q == sr_trans_len(s.model, s.transaction, i, a)
  <2>4. Len(s.model.shift_registers[a]) = LengthOf(a)
    BY <2>1 DEF LoopInv, Kept, SameLengths, Lengths
  <2>5. q = IF LengthOf(a) < (n + 1) - i THEN LengthOf(a) ELSE (n + 1) - i
    <3>. HIDE DEF a
    <3>1. q = IF Len(s.model.shift_registers[a]) < (n + 1) - i
              THEN Len(s.model.shift_registers[a]) ELSE (n + 1) - i
      BY <1>4, <2>1, TransLen
    <3>. QED  BY <2>4, <3>1
  <2>6. q = n - f + 1
    <3>1. LengthOf(a) \in Nat
      BY LayoutAssumption DEF LengthOf
    <3>. QED  BY <1>1, <1>7, <2>1, <2>5, <3>1
  <2>. HIDE DEF a, w, q
  <2>7. /\ ~w.running
        /\ w.model.registers = s.model.registers
        /\ \A k \in 1 .. q : w.model.shift_registers[a][k] = t[i + k]
    BY <1>2, <2>3 DEF TurnWritesShiftRegister, q
  <2>8. \A k \in 1 .. (n - f + 1) : w.model.shift_registers[A(f)][k] = t[f + k]
    BY <1>7, <2>6, <2>7 DEF a
  <2>9. \A j \in 1 .. i : j < f => w.model.registers[A(j)] = t[j + 1]
    BY <1>3, <1>7, <2>7
  <2>. QED  BY <1>1, <1>7, <2>7, <2>8, <2>9 DEF Written, f, A, a, w
<1>8. CASE i > f
  <2>1. ~s.running
    BY <1>1, <1>3, <1>8
  <2>2. w = s
    BY <2>1 DEF Turn
  <2>3. \A j \in 1 .. i : j < f => s.model.registers[A(j)] = t[j + 1]
    BY <1>1, <1>3, <1>8
  <2>. HIDE DEF w
  <2>4. Written(t, p, n, i, s)
    BY <1>1, <1>3, <1>8, <2>1, <2>3 DEF Written, f, A
  <2>. QED  BY <2>2, <2>4 DEF w, a, A
<1>. QED  BY <1>1, <1>6, <1>7, <1>8

\* A turn of a read that fits keeps what was read and adds to it.
LEMMA ReadTurn ==
  ASSUME NEW m \in RegisterModels, Lengths(m), NEW n \in Nat,
         NEW t \in [1 .. (n + 1) -> Byte], ~is_write_transaction(t),
         NEW p \in 0 .. 1, BurstFits(p, Base(t), n),
         LET f == BurstFirst(t, p, n)
         IN f <= n => \A k \in 1 .. (n - f + 1) :
              m.shift_registers[BurstAddress(t, p, f)][k] # Sector,
         NEW i \in 1 .. n, NEW s \in LoopStates(n + 1),
         LoopInv(m, t, i - 1, s), WasRead(m, t, p, n, i - 1, s),
         AddressAt(s, i) = BurstAddress(t, p, i)
  PROVE  WasRead(m, t, p, n, i, Turn(s, i, BurstAddress(t, p, i)))
<1>. DEFINE f == BurstFirst(t, p, n)
            A(j) == BurstAddress(t, p, j)
            a == A(i)
            w == Turn(s, i, a)
<1>1. /\ f \in Nat /\ f >= 1
      /\ \A j \in 1 .. n : j < f =>
           A(j) \in RegisterAddresses \ ShiftRegisters /\ ~LogRaises(A(j))
      /\ f <= n => A(f) \in ShiftRegisters /\ n - f + 1 <= LengthOf(A(f))
  <2>1. n + 1 \in Nat \ {0}
    OBVIOUS
  <2>2. Base(t) \in 0 .. (REGISTER_PAGE_SIZE - 1)
    BY <2>1, BaseInPage
  <2>. QED  BY <2>2, BurstPlan DEF BurstFirst, BurstAddress
<1>2. ~Writes(s) /\ s.model = m
  BY DEF LoopInv, Writes, is_write_transaction
<1>3. /\ i - 1 < f => s.running
      /\ \A j \in 1 .. (i - 1) : j < f => s.transaction[j + 1] = m.registers[A(j)]
      /\ i - 1 >= f =>
           /\ ~s.running
           /\ \A k \in 1 .. (n - f + 1) :
                s.transaction[f + k] = m.shift_registers[A(f)][k]
  BY DEF WasRead
<1>4. n + 1 \in Nat /\ i \in 1 .. ((n + 1) - 1)
  OBVIOUS
<1>5. s.transaction \in [1 .. (n + 1) -> Byte]
  BY DEF LoopStates
<1>6. f <= n => \A k \in 1 .. (n - f + 1) : m.shift_registers[A(f)][k] # Sector
  OBVIOUS
<1>. HIDE DEF f, A
<1>7. CASE i < f
  <2>1. s.running /\ a \in RegisterAddresses \ ShiftRegisters
    BY <1>1, <1>3, <1>7
  <2>2. a \in Nat
    BY <2>1, Bytes DEF RegisterAddresses
  <2>3. TurnReadsRegister(s, i, a, w)
    BY <1>2, <1>4, <2>1, <2>2, TurnCases
  <2>. HIDE DEF a, w
  <2>4. /\ w.running
        /\ w.transaction = [s.transaction EXCEPT ![i + 1] = m.registers[a]]
    BY <1>2, <2>3 DEF TurnReadsRegister
  <2>5. ASSUME NEW j \in 1 .. i, j < f
        PROVE  w.transaction[j + 1] = m.registers[A(j)]
    <3>1. j + 1 \in 1 .. (n + 1) /\ i + 1 \in 1 .. (n + 1)
      OBVIOUS
    <3>2. CASE j = i
      BY <1>5, <2>4, <3>1, <3>2 DEF a
    <3>3. CASE j # i
      <4>1. j \in 1 .. (i - 1) /\ j + 1 # i + 1
        BY <3>3
      <4>. QED  BY <1>3, <1>5, <2>4, <2>5, <3>1, <4>1
    <3>. QED  BY <3>2, <3>3
  <2>. QED  BY <1>1, <1>7, <2>4, <2>5 DEF WasRead, f, A, a, w
<1>8. CASE i = f
  <2>1. s.running /\ a \in ShiftRegisters /\ n - f + 1 <= LengthOf(a)
    BY <1>1, <1>3, <1>8
  <2>2. a \in Nat
    BY <2>1, Bytes DEF ShiftRegisters, SR_CAL, SR_TEST
  <2>3. TurnReadsShiftRegister(s, i, a, w)
    BY <1>2, <1>4, <2>1, <2>2, TurnCases
  <2>. DEFINE q == sr_trans_len(s.model, s.transaction, i, a)
  <2>4. Len(s.model.shift_registers[a]) = LengthOf(a)
    BY <1>2, <2>1 DEF Lengths
  <2>5. q = IF LengthOf(a) < (n + 1) - i THEN LengthOf(a) ELSE (n + 1) - i
    BY <1>4, <2>1, <2>4, TransLen, SMTT(30)
  <2>6. q = n - f + 1
    <3>1. LengthOf(a) \in Nat
      BY LayoutAssumption DEF LengthOf
    <3>. QED  BY <1>1, <1>8, <2>1, <2>5, <3>1
  <2>. HIDE DEF a, w, q
  <2>7. \A k \in 1 .. q : m.shift_registers[a][k] # Sector
    BY <1>1, <1>6, <1>8, <2>6 DEF a
  <2>8. /\ ~w.running
        /\ \A j \in 1 .. i : w.transaction[j] = s.transaction[j]
        /\ \A k \in 1 .. q : w.transaction[i + k] = m.shift_registers[a][k]
    BY <1>2, <2>3, <2>7 DEF TurnReadsShiftRegister, q
  <2>9. \A k \in 1 .. (n - f + 1) : w.transaction[f + k] = m.shift_registers[A(f)][k]
    BY <1>8, <2>6, <2>8 DEF a
  <2>10. \A j \in 1 .. i : j < f => w.transaction[j + 1] = m.registers[A(j)]
    <3>1. \A j \in 1 .. i : j < f => j + 1 \in 1 .. i /\ j \in 1 .. (i - 1)
      BY <1>8
    <3>. QED  BY <1>3, <1>8, <2>8, <3>1
  <2>. QED  BY <1>1, <1>8, <2>8, <2>9, <2>10 DEF WasRead, f, A, a, w
<1>9. CASE i > f
  <2>1. ~s.running
    BY <1>1, <1>3, <1>9
  <2>2. w = s
    BY <2>1 DEF Turn
  <2>3. \A j \in 1 .. i : j < f => s.transaction[j + 1] = m.registers[A(j)]
    BY <1>1, <1>3, <1>9
  <2>. HIDE DEF w
  <2>4. WasRead(m, t, p, n, i, s)
    BY <1>1, <1>3, <1>9, <2>1, <2>3 DEF WasRead, f, A
  <2>. QED  BY <2>2, <2>4 DEF w, a, A
<1>. QED  BY <1>1, <1>7, <1>8, <1>9

\* After a write that fits every register of it holds its value.
LEMMA WriteBurst ==
  ASSUME NEW m \in RegisterModels, Lengths(m), NEW n \in Nat,
         NEW t \in [1 .. (n + 1) -> Byte], is_write_transaction(t),
         BurstFits(ProcessTransaction(m, t).model.page_select, Base(t), n)
  PROVE  LET w == ProcessTransaction(m, t).model
             p == w.page_select
             f == BurstFirst(t, p, n)
         IN /\ w \in RegisterModels /\ Lengths(w) /\ p \in 0 .. 1
            /\ \A j \in 1 .. n : j < f =>
                 w.registers[BurstAddress(t, p, j)] = t[j + 1]
            /\ f <= n => \A k \in 1 .. (n - f + 1) :
                 w.shift_registers[BurstAddress(t, p, f)][k] = t[f + k]
<1>. DEFINE after == After(m, t)
            w == ProcessTransaction(m, t).model
            p == w.page_select
            f == BurstFirst(t, p, n)
            S == {i \in 0 .. n : Written(t, p, n, i, after[i])}
            N == n + 1
<1>1. N \in Nat \ {0} /\ N - 1 = n /\ t \in [1 .. N -> Byte]
  OBVIOUS
<1>. HIDE DEF N
<1>2. /\ after \in [0 .. n -> LoopStates(N)]
      /\ after[0] = [model |-> m, transaction |-> t, running |-> TRUE]
      /\ \A i \in 1 .. n :
           after[i] = Turn(after[i - 1], i, AddressAt(after[i - 1], i))
      /\ ProcessTransaction(m, t) =
           [model |-> after[n].model, response |-> after[n].transaction]
  BY <1>1, ProcessTransactionLoop
<1>3. \A i \in 0 .. n : LoopInv(m, t, i, after[i])
  BY <1>1, ProcessTransactionInv
<1>4. w = after[n].model
  BY <1>2
<1>5. p \in 0 .. 1 /\ w \in RegisterModels
  <2>1. after[n] \in LoopStates(N)
    BY <1>2
  <2>. HIDE DEF after, w
  <2>. QED  BY <1>4, <2>1 DEF LoopStates, RegisterModels
<1>6. \A i \in 1 .. n : AddressAt(after[i - 1], i) = BurstAddress(t, p, i)
  <2>1. ASSUME NEW i \in 1 .. (N - 1)
        PROVE  AddressAt(after[i - 1], i)
                 = OnPage(after[N - 1].model.page_select, Base(t) + (i - 1))
    BY <1>1, AddressesFixed
  <2>. HIDE DEF after, w
  <2>. QED  BY <1>1, <1>4, <2>1 DEF BurstAddress
<1>7. f \in Nat /\ f >= 1
  <2>1. Base(t) \in 0 .. (REGISTER_PAGE_SIZE - 1)
    BY <1>1, BaseInPage
  <2>2. BurstFits(p, Base(t), n)
    OBVIOUS
  <2>. HIDE DEF p
  <2>. QED  BY <1>5, <2>1, <2>2, BurstPlan DEF BurstFirst
<1>8. BurstFits(p, Base(t), n)
  OBVIOUS
<1>. HIDE DEF after, w, p, f
<1>9. 0 \in S
  <2>1. Written(t, p, n, 0, after[0])
    BY <1>2, <1>7 DEF Written, f
  <2>. QED  BY <2>1
<1>10. ASSUME NEW i \in 1 .. n, i - 1 \in S PROVE i \in S
  <2>. DEFINE s == after[i - 1]
  <2>1. /\ s \in LoopStates(N)
        /\ LoopInv(m, t, i - 1, s)
        /\ Written(t, p, n, i - 1, s)
        /\ AddressAt(s, i) = BurstAddress(t, p, i)
        /\ after[i] = Turn(s, i, AddressAt(s, i))
    BY <1>2, <1>3, <1>6, <1>10
  <2>. HIDE DEF s
  <2>2. s \in LoopStates(n + 1)
    BY <2>1 DEF N
  <2>3. Written(t, p, n, i, Turn(s, i, BurstAddress(t, p, i)))
    BY <1>5, <1>8, <2>1, <2>2, WrittenTurn
  <2>. QED  BY <2>1, <2>3
<1>. HIDE DEF S
<1>11. n \in S
  <2>1. \A i \in 0 .. n : i \in S
    BY <1>9, <1>10, LoopInduction
  <2>. QED  BY <2>1
<1>12. /\ \A j \in 1 .. n : j < f => w.registers[BurstAddress(t, p, j)] = t[j + 1]
       /\ f <= n => \A k \in 1 .. (n - f + 1) :
            w.shift_registers[BurstAddress(t, p, f)][k] = t[f + k]
  <2>1. Written(t, p, n, n, after[n])
    BY <1>11 DEF S
  <2>. QED  BY <1>4, <1>7, <2>1 DEF Written, f
<1>13. Lengths(w)
  <2>1. LoopInv(m, t, n, after[n])
    BY <1>3
  <2>. QED  BY <1>4, <2>1 DEF LoopInv, Kept, SameLengths, Lengths
<1>. QED  BY <1>5, <1>12, <1>13 DEF w, p, f

\* The response to a read that fits is what the registers hold.
LEMMA ReadBurst ==
  ASSUME NEW m \in RegisterModels, Lengths(m), NEW n \in Nat,
         NEW t \in [1 .. (n + 1) -> Byte], ~is_write_transaction(t),
         BurstFits(m.page_select, Base(t), n),
         LET f == BurstFirst(t, m.page_select, n)
         IN f <= n => \A k \in 1 .. (n - f + 1) :
              m.shift_registers[BurstAddress(t, m.page_select, f)][k] # Sector
  PROVE  LET r == ProcessTransaction(m, t).response
             p == m.page_select
             f == BurstFirst(t, p, n)
         IN /\ r \in [1 .. (n + 1) -> Byte]
            /\ \A j \in 1 .. n : j < f =>
                 r[j + 1] = m.registers[BurstAddress(t, p, j)]
            /\ f <= n => \A k \in 1 .. (n - f + 1) :
                 r[f + k] = m.shift_registers[BurstAddress(t, p, f)][k]
<1>. DEFINE after == After(m, t)
            r == ProcessTransaction(m, t).response
            p == m.page_select
            f == BurstFirst(t, p, n)
            S == {i \in 0 .. n : WasRead(m, t, p, n, i, after[i])}
            N == n + 1
<1>1. N \in Nat \ {0} /\ N - 1 = n /\ t \in [1 .. N -> Byte]
  OBVIOUS
<1>. HIDE DEF N
<1>2. /\ after \in [0 .. n -> LoopStates(N)]
      /\ after[0] = [model |-> m, transaction |-> t, running |-> TRUE]
      /\ \A i \in 1 .. n :
           after[i] = Turn(after[i - 1], i, AddressAt(after[i - 1], i))
      /\ ProcessTransaction(m, t) =
           [model |-> after[n].model, response |-> after[n].transaction]
  BY <1>1, ProcessTransactionLoop
<1>3. \A i \in 0 .. n : LoopInv(m, t, i, after[i])
  BY <1>1, ProcessTransactionInv
<1>4. r = after[n].transaction
  BY <1>2
<1>5. p \in 0 .. 1
  BY DEF RegisterModels
<1>6. \A i \in 1 .. n : AddressAt(after[i - 1], i) = BurstAddress(t, p, i)
  <2>1. ASSUME NEW i \in 1 .. (N - 1)
        PROVE  AddressAt(after[i - 1], i)
                 = OnPage(after[N - 1].model.page_select, Base(t) + (i - 1))
    BY <1>1, AddressesFixed
  <2>2. after[n].model = m
    BY <1>3 DEF LoopInv
  <2>. HIDE DEF after
  <2>. QED  BY <1>1, <2>1, <2>2 DEF BurstAddress
<1>7. f \in Nat /\ f >= 1
  <2>1. Base(t) \in 0 .. (REGISTER_PAGE_SIZE - 1)
    BY <1>1, BaseInPage
  <2>2. BurstFits(p, Base(t), n)
    OBVIOUS
  <2>. HIDE DEF p
  <2>. QED  BY <1>5, <2>1, <2>2, BurstPlan DEF BurstFirst
<1>8. /\ BurstFits(p, Base(t), n)
      /\ LET g == BurstFirst(t, p, n)
         IN g <= n => \A k \in 1 .. (n - g + 1) :
              m.shift_registers[BurstAddress(t, p, g)][k] # Sector
  OBVIOUS
<1>. HIDE DEF after, r, p, f
<1>9. 0 \in S
  <2>1. WasRead(m, t, p, n, 0, after[0])
    BY <1>2, <1>7 DEF WasRead, f
  <2>. QED  BY <2>1
<1>10. ASSUME NEW i \in 1 .. n, i - 1 \in S PROVE i \in S
  <2>. DEFINE s == after[i - 1]
  <2>1. /\ s \in LoopStates(N)
        /\ LoopInv(m, t, i - 1, s)
        /\ WasRead(m, t, p, n, i - 1, s)
        /\ AddressAt(s, i) = BurstAddress(t, p, i)
        /\ after[i] = Turn(s, i, AddressAt(s, i))
    BY <1>2, <1>3, <1>6, <1>10
  <2>. HIDE DEF s
  <2>2. s \in LoopStates(n + 1)
    BY <2>1 DEF N
  <2>3. WasRead(m, t, p, n, i, Turn(s, i, BurstAddress(t, p, i)))
    BY <1>5, <1>8, <2>1, <2>2, ReadTurn
  <2>. QED  BY <2>1, <2>3
<1>. HIDE DEF S
<1>11. n \in S
  <2>1. \A i \in 0 .. n : i \in S
    BY <1>9, <1>10, LoopInduction
  <2>. QED  BY <2>1
<1>12. /\ \A j \in 1 .. n : j < f => r[j + 1] = m.registers[BurstAddress(t, p, j)]
       /\ f <= n => \A k \in 1 .. (n - f + 1) :
            r[f + k] = m.shift_registers[BurstAddress(t, p, f)][k]
  <2>1. WasRead(m, t, p, n, n, after[n])
    BY <1>11 DEF S
  <2>. QED  BY <1>4, <1>7, <2>1 DEF WasRead, f
<1>13. r \in [1 .. (n + 1) -> Byte]
  <2>1. after[n] \in LoopStates(N)
    BY <1>2
  <2>. QED  BY <1>4, <2>1 DEF LoopStates, N
<1>. QED  BY <1>12, <1>13 DEF r, p, f

\* register_read on the wire: the RW bit and the address, then zeros.
LEMMA ReadOfBurst ==
  ASSUME NEW b \in 0 .. (REGISTER_PAGE_SIZE - 1), NEW n \in Nat
  PROVE  LET t == OnWire(register_read(b, n))
         IN /\ t \in [1 .. (n + 1) -> Byte]
            /\ t # << >> /\ IsTransaction(t)
            /\ ~is_write_transaction(t)
            /\ Base(t) = b
<1>. DEFINE z == [i \in 1 .. n |-> 0]
            u == <<b>> \o z
            call == register_read(b, n)
            t == OnWire(call)
            P == REGISTER_PAGE_SIZE
<1>1. P \in Nat /\ P > 5 /\ b \in 0 .. (P - 1)
  BY Bytes
<1>2. call.access = "read" /\ call.transaction = u
  BY DEF register_read
<1>3. /\ u \in Seq(Nat) /\ Len(u) = n + 1
      /\ \A i \in 1 .. (n + 1) : u[i] = IF i = 1 THEN b ELSE 0
  <2>1. z \in Seq(Nat) /\ Len(z) = n /\ <<b>> \in Seq(Nat) /\ Len(<<b>>) = 1
    BY <1>1
  <2>. HIDE DEF z
  <2>2. u \in Seq(Nat) /\ Len(u) = n + 1
    BY <2>1
  <2>3. \A i \in 1 .. (n + 1) : u[i] = IF i <= 1 THEN <<b>>[i] ELSE z[i - 1]
    BY <2>1
  <2>4. \A i \in 1 .. n : z[i] = 0
    BY DEF z
  <2>5. ASSUME NEW i \in 1 .. (n + 1) PROVE u[i] = IF i = 1 THEN b ELSE 0
    <3>1. CASE i = 1
      BY <2>3, <3>1
    <3>2. CASE i # 1
      <4>1. i - 1 \in 1 .. n /\ ~(i <= 1)
        BY <3>2
      <4>. QED  BY <2>3, <2>4, <3>2, <4>1
    <3>. QED  BY <3>1, <3>2
  <2>. QED  BY <2>2, <2>5
<1>. HIDE DEF u
<1>4. u \in [1 .. (n + 1) -> Nat] /\ u[1] = b
  BY <1>3
<1>5. t = [u EXCEPT ![1] = b + P]
  <2>1. b \div P = 0
    BY <1>1
  <2>2. bitfield(b \div P, 0, 1) # 1
    BY <2>1 DEF bitfield
  <2>3. t = [u EXCEPT ![1] = IF bitfield(@ \div P, 0, 1) = 1 THEN @ ELSE @ + P]
    BY <1>2 DEF OnWire
  <2>. QED  BY <1>4, <2>2, <2>3
<1>. HIDE DEF t
<1>6. \A i \in 1 .. (n + 1) : t[i] = IF i = 1 THEN b + P ELSE 0
  BY <1>3, <1>4, <1>5
<1>7. DOMAIN t = 1 .. (n + 1) /\ t = [i \in 1 .. (n + 1) |-> t[i]]
  BY <1>4, <1>5
<1>8. \A i \in 1 .. (n + 1) : t[i] \in Byte
  BY <1>1, <1>6 DEF Byte, ByteModulus
<1>9. t \in [1 .. (n + 1) -> Byte] /\ IsTransaction(t) /\ t # << >>
  <2>1. t \in [1 .. (n + 1) -> Byte]
    BY <1>7, <1>8
  <2>2. IsTransaction(t)
    BY <1>7, <1>8 DEF IsTransaction
  <2>3. t \in Seq(Byte) /\ Len(t) = n + 1
    BY <2>1
  <2>4. t # << >>
    BY <2>3, EmptySeq
  <2>. QED  BY <2>1, <2>2, <2>4
<1>10. t[1] = b + P /\ (b + P) \div P = 1 /\ (b + P) % P = b
  BY <1>1, <1>6
<1>11. ~is_write_transaction(t) /\ Base(t) = b
  BY <1>10 DEF is_write_transaction, Base
<1>. QED  BY <1>9, <1>11 DEF t

\* What a burst writes, a read of the same registers returns, for every layout,
\* every state and every burst that fits, page changes in it included.
THEOREM BurstsReadBack == Spec => []ReadBack
<1>1. ASSUME Inv PROVE ReadBack
  <2>. SUFFICES
         ASSUME NEW call \in Calls, call.access = "write",
                IsTransaction(call.transaction),
                LET written == Answer(model, OnWire(call)).model
                IN BurstFits(written.page_select, OnWire(call)[1],
                             Len(Tail(call.transaction)))
         PROVE  LET vals == Tail(call.transaction)
                    written == Answer(model, OnWire(call)).model
                    read == Answer(written, OnWire(register_read(OnWire(call)[1],
                                                                 Len(vals))))
                IN Tail(read.response) = vals
    BY DEF ReadBack
  <2>. DEFINE c == call.transaction
              vals == Tail(c)
              n == Len(vals)
              t == OnWire(call)
              b == t[1]
              w == Answer(model, t).model
              u == OnWire(register_read(b, n))
              r == Answer(w, u).response
              p == w.page_select
              f == FirstShift(p, b, n)
              A(j) == OnPage(p, b + (j - 1))
  <2>1. /\ c \in Seq(Int \cup {NotInteger}) /\ c # << >> /\ c[1] \in Int
        /\ IsTransaction(c)
        /\ BurstFits(p, b, n)
        /\ model \in RegisterModels
        /\ t \in Seq(Int \cup {NotInteger}) /\ t # << >> /\ Len(t) = Len(c)
        /\ b = c[1] % REGISTER_PAGE_SIZE
        /\ \A i \in 2 .. Len(c) : t[i] = c[i]
    BY <1>1, CallsAssumption, OnWireIsSequence DEF Inv, TypeOK, IsCall
  <2>2. Lengths(model)
    BY <1>1, Bytes DEF Inv, ShiftRegisterSizes, Lengths, LengthOf, ShiftRegisters,
         SR_CAL, SR_TEST
  <2>. HIDE DEF c, t
  <2>3. /\ n \in Nat /\ Len(c) = n + 1
        /\ vals \in Seq(Int \cup {NotInteger})
        /\ \A i \in 1 .. n : vals[i] = c[i + 1]
    <3>1. /\ vals \in Seq(Int \cup {NotInteger})
          /\ Len(vals) = Len(c) - 1
          /\ \A i \in 1 .. Len(vals) : vals[i] = c[i + 1]
      BY <2>1, HeadTailProperties
    <3>2. Len(c) \in Nat /\ Len(vals) \in Nat
      BY <2>1, <3>1, LenProperties
    <3>. HIDE DEF vals
    <3>. QED  BY <3>1, <3>2
  <2>4. c \in [1 .. (n + 1) -> Byte]
    BY <2>1, <2>3, BytesOfTransaction
  <2>. HIDE DEF n, vals
  <2>5. b \in 0 .. (REGISTER_PAGE_SIZE - 1)
    BY <2>1, Bytes
  <2>6. t \in [1 .. (n + 1) -> Byte] /\ IsTransaction(t)
    <3>1. Len(t) = n + 1 /\ DOMAIN t = 1 .. (n + 1) /\ t = [i \in 1 .. (n + 1) |-> t[i]]
      BY <2>1, <2>3, LenProperties
    <3>2. ASSUME NEW i \in 1 .. (n + 1) PROVE t[i] \in Byte
      <4>1. CASE i = 1
        BY <2>5, <4>1, Bytes DEF Byte, ByteModulus
      <4>2. CASE i # 1
        <5>1. i \in 2 .. Len(c)
          BY <2>3, <4>2
        <5>. QED  BY <2>1, <2>4, <5>1
      <4>. QED  BY <4>1, <4>2
    <3>. QED  BY <3>1, <3>2 DEF IsTransaction
  <2>7. is_write_transaction(t) /\ Base(t) = b
    <3>. DEFINE P == REGISTER_PAGE_SIZE
    <3>1. P \in Nat /\ P > 5
      BY Bytes
    <3>. HIDE DEF P, b
    <3>2. b \div P = 0 /\ b % P = b
      BY <2>5, <3>1 DEF P
    <3>. QED  BY <3>2 DEF is_write_transaction, Base, P, b
  <2>8. w = ProcessTransaction(model, t).model
    BY <2>6 DEF Answer
  <2>. HIDE DEF w, b
  <2>9. /\ w \in RegisterModels /\ Lengths(w) /\ p \in 0 .. 1
        /\ \A j \in 1 .. n : j < f => w.registers[A(j)] = t[j + 1]
        /\ f <= n => \A k \in 1 .. (n - f + 1) :
             w.shift_registers[A(f)][k] = t[f + k]
    <3>1. f = BurstFirst(t, p, n) /\ \A j : A(j) = BurstAddress(t, p, j)
      BY <2>7 DEF BurstFirst, BurstAddress
    <3>2. BurstFits(p, Base(t), n)
      BY <2>1, <2>7
    <3>. HIDE DEF f, A
    <3>3. /\ w \in RegisterModels /\ Lengths(w) /\ p \in 0 .. 1
          /\ \A j \in 1 .. n : j < BurstFirst(t, p, n) =>
               w.registers[BurstAddress(t, p, j)] = t[j + 1]
          /\ BurstFirst(t, p, n) <= n =>
               \A k \in 1 .. (n - BurstFirst(t, p, n) + 1) :
                 w.shift_registers[BurstAddress(t, p, BurstFirst(t, p, n))][k]
                   = t[BurstFirst(t, p, n) + k]
      BY <2>1, <2>2, <2>3, <2>6, <2>7, <2>8, <3>2, WriteBurst
    <3>. QED  BY <3>1, <3>3
  <2>10. f \in Nat /\ f >= 1
    BY <2>1, <2>3, <2>5, <2>9, BurstPlan
  <2>11. f <= n => \A k \in 1 .. (n - f + 1) : w.shift_registers[A(f)][k] # Sector
    <3>1. ASSUME f <= n, NEW k \in 1 .. (n - f + 1)
          PROVE  w.shift_registers[A(f)][k] # Sector
      <4>1. f + k \in 1 .. (n + 1)
        BY <2>3, <2>10, <3>1
      <4>2. t[f + k] \in Byte
        BY <2>6, <4>1
      <4>. QED  BY <2>9, <3>1, <4>2, ValuesAssumption
    <3>. QED  BY <3>1
  <2>12. /\ u \in [1 .. (n + 1) -> Byte] /\ IsTransaction(u)
         /\ ~is_write_transaction(u) /\ Base(u) = b
    BY <2>3, <2>5, ReadOfBurst
  <2>13. r = ProcessTransaction(w, u).response
    BY <2>12 DEF Answer
  <2>. HIDE DEF u, r
  <2>14. /\ r \in [1 .. (n + 1) -> Byte]
         /\ \A j \in 1 .. n : j < f => r[j + 1] = w.registers[A(j)]
         /\ f <= n => \A k \in 1 .. (n - f + 1) :
              r[f + k] = w.shift_registers[A(f)][k]
    <3>1. f = BurstFirst(u, p, n) /\ \A j : A(j) = BurstAddress(u, p, j)
      BY <2>12 DEF BurstFirst, BurstAddress
    <3>. HIDE DEF f, A, p
    <3>2. LET g == BurstFirst(u, p, n)
          IN g <= n => \A k \in 1 .. (n - g + 1) :
               w.shift_registers[BurstAddress(u, p, g)][k] # Sector
      BY <2>11, <3>1
    <3>3. BurstFits(p, Base(u), n)
      BY <2>1, <2>12
    <3>4. LET g == BurstFirst(u, p, n)
          IN /\ r \in [1 .. (n + 1) -> Byte]
             /\ \A j \in 1 .. n : j < g =>
                  r[j + 1] = w.registers[BurstAddress(u, p, j)]
             /\ g <= n => \A k \in 1 .. (n - g + 1) :
                  r[g + k] = w.shift_registers[BurstAddress(u, p, g)][k]
      BY <2>3, <2>9, <2>12, <2>13, <3>2, <3>3, ReadBurst DEF p
    <3>. QED  BY <3>1, <3>4
  <2>. HIDE DEF f, A
  <2>15. ASSUME NEW j \in 1 .. n PROVE r[j + 1] = t[j + 1]
    <3>1. CASE j < f
      BY <2>9, <2>14, <3>1
    <3>2. CASE j >= f
      <4>. DEFINE k == j - f + 1
      <4>1. f <= n /\ k \in 1 .. (n - f + 1) /\ f + k = j + 1
        BY <2>3, <2>10, <3>2
      <4>. HIDE DEF k
      <4>2. r[f + k] = t[f + k]
        BY <2>9, <2>14, <4>1
      <4>. QED  BY <4>1, <4>2
    <3>. QED  BY <2>10, <3>1, <3>2
  <2>16. \A j \in 1 .. n : r[j + 1] = vals[j]
    <3>1. \A j \in 1 .. n : j + 1 \in 2 .. Len(c)
      BY <2>3
    <3>. QED  BY <2>1, <2>3, <2>15, <3>1
  <2>17. /\ Tail(r) \in Seq(Byte) /\ Len(Tail(r)) = n
         /\ \A j \in 1 .. n : Tail(r)[j] = r[j + 1]
    <3>1. r \in Seq(Byte) /\ Len(r) = n + 1 /\ r # << >>
      <4>1. r \in Seq(Byte) /\ Len(r) = n + 1
        BY <2>3, <2>14
      <4>. QED  BY <2>3, <4>1, EmptySeq
    <3>2. /\ Tail(r) \in Seq(Byte) /\ Len(Tail(r)) = Len(r) - 1
          /\ \A j \in 1 .. Len(Tail(r)) : Tail(r)[j] = r[j + 1]
      BY <3>1, HeadTailProperties
    <3>. QED  BY <2>3, <3>1, <3>2
  <2>18. Len(vals) = n
    BY DEF n
  <2>19. Tail(r) = vals
    <3>. DEFINE Z == Byte \cup Int \cup {NotInteger}
                q == Tail(r)
    <3>1. q \in Seq(Z) /\ vals \in Seq(Z) /\ Len(q) = Len(vals)
      BY <2>3, <2>17, <2>18
    <3>2. \A j \in 1 .. Len(q) : q[j] = vals[j]
      BY <2>16, <2>17
    <3>. HIDE DEF q, Z
    <3>3. q = vals
      BY <3>1, <3>2, SeqEqual
    <3>. QED  BY <3>3 DEF q
  <2>. QED  BY <2>19 DEF r, u, w, b, n, vals, t, c
<1>. QED  BY <1>1, RegistersInvariant, PTL
=============================================================================
