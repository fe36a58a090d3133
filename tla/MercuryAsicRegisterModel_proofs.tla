------------------ MODULE MercuryAsicRegisterModel_proofs -------------------
(***************************************************************************)
(* What process_transaction does to a register model, proved for every     *)
(* layout, every model and every transaction, by induction over the turns  *)
(* of its loop (module Loops).                                             *)
(***************************************************************************)
EXTENDS MercuryAsicRegisterModel, Loops, SequenceTheorems, TLAPS

-----------------------------------------------------------------------------
(* One turn of the loop                                                    *)

\* The states of the loop of process_transaction on n bytes.
LoopStates(n) ==
  [model : RegisterModels, transaction : [1 .. n -> Byte], running : BOOLEAN]

\* The layout assumptions in the form in which the proofs use them.
LEMMA Bytes ==
  /\ Byte \subseteq Nat
  /\ \A x \in Nat : bitfield(x, 0, 1) \in 0 .. 1 /\ bitfield(x, 2, 5) \in 0 .. 31
  /\ REGISTER_PAGE_SIZE \in Nat /\ REGISTER_PAGE_SIZE > 5
  /\ TEST_SR \in 3 .. (SR_CAL - 1)
  /\ size \in Nat /\ size > CHIP_BIAS
<1>1. \A x \in Nat : bitfield(x, 0, 1) \in 0 .. 1
  BY DEF bitfield
<1>2. \A x \in Nat : bitfield(x, 2, 5) \in 0 .. 31
  BY DEF bitfield
<1>. QED  BY <1>1, <1>2, LayoutAssumption DEF Byte, ByteModulus

\* A register write sets the register and what its callbacks derive from it.
LEMMA WriteRegisterFields ==
  ASSUME NEW m \in RegisterModels, NEW a \in RegisterAddresses, NEW v \in Byte
  PROVE  LET w == WriteRegister(m, a, v)
         IN /\ w \in RegisterModels
            /\ w.registers = [m.registers EXCEPT ![a] = v]
            /\ w.shift_registers = m.shift_registers
            /\ w.page_select =
                 IF a = CONFIG1 THEN bitfield(v, 0, 1) ELSE m.page_select
            /\ w.test_sr_sector =
                 IF a = TEST_SR THEN bitfield(v, 2, 5) ELSE m.test_sr_sector
<1>. DEFINE w == WriteRegister(m, a, v)
            r == [m.registers EXCEPT ![a] = v]
            p == IF a = CONFIG1 THEN bitfield(v, 0, 1) ELSE m.page_select
            t == IF a = TEST_SR THEN bitfield(v, 2, 5) ELSE m.test_sr_sector
<1>1. w = [m EXCEPT !.registers = r, !.page_select = p, !.test_sr_sector = t]
  BY DEF WriteRegister, RegisterModels
<1>2. v \in Nat
  BY Bytes
<1>3. r \in [RegisterAddresses -> Byte]
  BY DEF RegisterModels
<1>4. p \in 0 .. 1 /\ t \in 0 .. 31
  BY <1>2, Bytes DEF RegisterModels
<1>. HIDE DEF w, r, p, t
<1>5. /\ w \in RegisterModels
      /\ w.registers = r
      /\ w.shift_registers = m.shift_registers
      /\ w.page_select = p
      /\ w.test_sr_sector = t
  BY <1>1, <1>3, <1>4 DEF RegisterModels
<1>. QED  BY <1>5 DEF w, r, p, t

\* A shift register takes no more of a burst than it holds or is left of it.
LEMMA TransLen ==
  ASSUME NEW L \in Nat, NEW s \in LoopStates(L), NEW i \in 1 .. (L - 1),
         NEW a \in ShiftRegisters
  PROVE  LET n == sr_trans_len(s.model, s.transaction, i, a)
             sr == s.model.shift_registers[a]
         IN /\ sr \in Seq(Byte \cup {Sector})
            /\ Len(s.transaction) = L /\ DOMAIN s.transaction = 1 .. L
            /\ Len(sr) \in Nat /\ DOMAIN sr = 1 .. Len(sr)
            /\ n = IF Len(sr) < L - i THEN Len(sr) ELSE L - i
            /\ n \in Nat /\ n <= Len(sr) /\ n <= L - i
            /\ \A k \in 1 .. n : sr[k] \in Byte \cup {Sector}
<1>. DEFINE sr == s.model.shift_registers[a]
            n == sr_trans_len(s.model, s.transaction, i, a)
<1>1. sr \in Seq(Byte \cup {Sector})
  BY DEF LoopStates, RegisterModels
<1>2. Len(s.transaction) = L /\ DOMAIN s.transaction = 1 .. L
  BY DEF LoopStates
<1>3. n = IF Len(sr) < L - i THEN Len(sr) ELSE L - i
  BY <1>2 DEF sr_trans_len
<1>4. Len(sr) \in Nat /\ DOMAIN sr = 1 .. Len(sr)
  BY <1>1
<1>. HIDE DEF sr, n
<1>5. n \in Nat /\ n <= Len(sr) /\ n <= L - i
  BY <1>3, <1>4
<1>6. \A k \in 1 .. n : sr[k] \in Byte \cup {Sector}
  BY <1>1, <1>4, <1>5
<1>. QED  BY <1>1, <1>2, <1>3, <1>4, <1>5, <1>6 DEF sr, n

\* A write to a shift register sets its first entries to the rest of the burst.
LEMMA WriteShiftRegisterFields ==
  ASSUME NEW L \in Nat, NEW s \in LoopStates(L), NEW i \in 1 .. (L - 1),
         NEW a \in ShiftRegisters
  PROVE  LET w == WriteShiftRegister(s, i, a)
             n == sr_trans_len(s.model, s.transaction, i, a)
             sr == s.model.shift_registers
         IN /\ w \in LoopStates(L)
            /\ w.transaction = s.transaction
            /\ w.running = s.running
            /\ w.model.registers = s.model.registers
            /\ w.model.page_select = s.model.page_select
            /\ w.model.test_sr_sector = s.model.test_sr_sector
            /\ \A b \in ShiftRegisters \ {a} : w.model.shift_registers[b] = sr[b]
            /\ Len(w.model.shift_registers[a]) = Len(sr[a])
            /\ \A k \in 1 .. n :
                 w.model.shift_registers[a][k] = s.transaction[i + k]
<1>. DEFINE n == sr_trans_len(s.model, s.transaction, i, a)
            sr == s.model.shift_registers
            f == [k \in DOMAIN sr[a] |->
                    IF k <= n THEN s.transaction[i + k] ELSE sr[a][k]]
            g == [sr EXCEPT ![a] = f]
            m == [s.model EXCEPT !.shift_registers = g]
            w == WriteShiftRegister(s, i, a)
<1>1. w = [s EXCEPT !.model = m]
  BY DEF WriteShiftRegister, LoopStates, RegisterModels
<1>2. f \in Seq(Byte \cup {Sector}) /\ Len(f) = Len(sr[a])
  <2>1. DOMAIN f = 1 .. Len(sr[a]) /\ Len(sr[a]) \in Nat
    BY TransLen
  <2>2. ASSUME NEW k \in 1 .. Len(sr[a]) PROVE f[k] \in Byte \cup {Sector}
    <3>1. CASE k <= n
      <4>1. n \in Nat /\ n <= L - i
        BY TransLen
      <4>. HIDE DEF n
      <4>2. i + k \in 1 .. L
        BY <4>1, <3>1
      <4>3. s.transaction[i + k] \in Byte
        BY <4>2 DEF LoopStates
      <4>. QED  BY <3>1, <4>3, <2>1
    <3>2. CASE ~(k <= n)
      <4>1. sr[a][k] \in Byte \cup {Sector}
        <5>1. sr[a] \in Seq(Byte \cup {Sector})
          BY TransLen
        <5>. QED  BY <5>1, ElementOfSeq
      <4>. QED  BY <3>2, <4>1, <2>1
    <3>. QED  BY <3>1, <3>2
  <2>. HIDE DEF f
  <2>3. f \in [1 .. Len(sr[a]) -> Byte \cup {Sector}]
    <3>1. f = [k \in 1 .. Len(sr[a]) |-> f[k]]
      BY <2>1 DEF f
    <3>. QED  BY <2>2, <3>1
  <2>. QED  BY <2>1, <2>3
<1>3. \A k \in 1 .. n : f[k] = s.transaction[i + k]
  <2>1. n \in Nat /\ n <= Len(sr[a]) /\ Len(sr[a]) \in Nat /\ DOMAIN sr[a] = 1 .. Len(sr[a])
    BY TransLen
  <2>. HIDE DEF n
  <2>. QED  BY <2>1
<1>. HIDE DEF f
<1>4. /\ g \in [ShiftRegisters -> Seq(Byte \cup {Sector})]
      /\ g[a] = f
      /\ \A b \in ShiftRegisters \ {a} : g[b] = sr[b]
  BY <1>2 DEF LoopStates, RegisterModels
<1>. HIDE DEF g
<1>5. /\ m \in RegisterModels
      /\ m.registers = s.model.registers
      /\ m.shift_registers = g
      /\ m.page_select = s.model.page_select
      /\ m.test_sr_sector = s.model.test_sr_sector
  BY <1>4 DEF LoopStates, RegisterModels
<1>. HIDE DEF m, w
<1>6. /\ w \in LoopStates(L)
      /\ w.model = m
      /\ w.transaction = s.transaction
      /\ w.running = s.running
  <2>1. w.transaction = s.transaction /\ w.running = s.running /\ w.model = m
    BY <1>1 DEF LoopStates
  <2>2. w \in LoopStates(L)
    BY <1>1, <1>5 DEF LoopStates
  <2>. QED  BY <2>1, <2>2
<1>7. w.model.shift_registers[a] = f
  BY <1>4, <1>5, <1>6
<1>. QED  BY <1>2, <1>3, <1>4, <1>5, <1>6, <1>7 DEF w, n, sr

\* A read of a shift register puts its first entries in the transaction, and
\* leaves the address byte and what was read before alone.
LEMMA ReadShiftRegisterFields ==
  ASSUME NEW L \in Nat, NEW s \in LoopStates(L), NEW i \in 1 .. (L - 1),
         NEW a \in ShiftRegisters
  PROVE  LET r == ReadShiftRegister(s, i, a)
             n == sr_trans_len(s.model, s.transaction, i, a)
             sr == s.model.shift_registers[a]
         IN /\ r \in LoopStates(L)
            /\ r.model = s.model
            /\ r.running = s.running
            /\ \A j \in 1 .. i : r.transaction[j] = s.transaction[j]
            /\ (\A k \in 1 .. n : sr[k] # Sector) =>
                 \A k \in 1 .. n : r.transaction[i + k] = sr[k]
<1>. DEFINE n == sr_trans_len(s.model, s.transaction, i, a)
            sr == s.model.shift_registers[a]
            t == [j \in DOMAIN s.transaction |->
                    IF j - i \in 1 .. n THEN sr[j - i] ELSE s.transaction[j]]
            r == ReadShiftRegister(s, i, a)
<1>1. CASE \E k \in 1 .. n : sr[k] = Sector
  <2>1. r = s
    BY <1>1 DEF ReadShiftRegister
  <2>. QED  BY <2>1, <1>1
<1>2. CASE \A k \in 1 .. n : sr[k] # Sector
  <2>1. r = [s EXCEPT !.transaction = t]
    BY <1>2 DEF ReadShiftRegister, LoopStates
  <2>2. /\ DOMAIN s.transaction = 1 .. L
        /\ n \in Nat /\ n <= L - i
        /\ \A k \in 1 .. n : sr[k] \in Byte
    BY TransLen, <1>2
  <2>3. s.transaction \in [1 .. L -> Byte]
    BY DEF LoopStates
  <2>. HIDE DEF n, sr
  <2>4. t \in [1 .. L -> Byte]
    BY <2>2, <2>3
  <2>5. \A j \in 1 .. i : t[j] = s.transaction[j]
    BY <2>2
  <2>6. \A k \in 1 .. n : t[i + k] = sr[k]
    BY <2>2
  <2>. HIDE DEF t, r
  <2>7. /\ r \in LoopStates(L)
        /\ r.model = s.model
        /\ r.transaction = t
        /\ r.running = s.running
    BY <2>1, <2>4 DEF LoopStates
  <2>. QED  BY <2>5, <2>6, <2>7 DEF n, sr, r
<1>. QED  BY <1>1, <1>2

\* What a turn of the loop may do, by the address and the RW bit.
Writes(s) == is_write_transaction(s.transaction)

TurnEnds(s, w) ==
  w.running = FALSE /\ w.model = s.model /\ w.transaction = s.transaction

TurnWritesShiftRegister(s, i, a, w) ==
  LET n == sr_trans_len(s.model, s.transaction, i, a)
      sr == s.model.shift_registers
  IN /\ w.running = FALSE
     /\ w.transaction = s.transaction
     /\ w.model.registers = s.model.registers
     /\ w.model.page_select = s.model.page_select
     /\ w.model.test_sr_sector = s.model.test_sr_sector
     /\ \A b \in ShiftRegisters \ {a} : w.model.shift_registers[b] = sr[b]
     /\ Len(w.model.shift_registers[a]) = Len(sr[a])
     /\ \A k \in 1 .. n : w.model.shift_registers[a][k] = s.transaction[i + k]

TurnReadsShiftRegister(s, i, a, w) ==
  LET n == sr_trans_len(s.model, s.transaction, i, a)
      sr == s.model.shift_registers[a]
  IN /\ w.running = FALSE
     /\ w.model = s.model
     /\ \A j \in 1 .. i : w.transaction[j] = s.transaction[j]
     /\ (\A k \in 1 .. n : sr[k] # Sector) =>
          \A k \in 1 .. n : w.transaction[i + k] = sr[k]

TurnWritesRegister(s, i, a, w) ==
  /\ w.running = ~LogRaises(a)
  /\ w.model = WriteRegister(s.model, a, s.transaction[i + 1])
  /\ w.transaction = s.transaction

TurnReadsRegister(s, i, a, w) ==
  /\ w.running = TRUE
  /\ w.model = s.model
  /\ w.transaction = [s.transaction EXCEPT ![i + 1] = s.model.registers[a]]

\* Every turn leads to a state of the loop, by one of five ways.
LEMMA TurnCases ==
  ASSUME NEW n \in Nat, NEW s \in LoopStates(n), NEW i \in 1 .. (n - 1),
         NEW a \in Nat
  PROVE  LET w == Turn(s, i, a)
         IN /\ w \in LoopStates(n)
            /\ ~s.running => w = s
            /\ s.running /\ a \in ShiftRegisters =>
                 IF Writes(s) THEN TurnWritesShiftRegister(s, i, a, w)
                 ELSE TurnReadsShiftRegister(s, i, a, w)
            /\ s.running /\ a \notin ShiftRegisters \cup RegisterAddresses =>
                 TurnEnds(s, w)
            /\ s.running /\ a \in RegisterAddresses \ ShiftRegisters =>
                 IF Writes(s) THEN TurnWritesRegister(s, i, a, w)
                 ELSE TurnReadsRegister(s, i, a, w)
<1>. DEFINE w == Turn(s, i, a)
<1>1. CASE ~s.running
  BY <1>1 DEF Turn
<1>2. CASE s.running /\ a \in ShiftRegisters
  <2>. DEFINE x == IF Writes(s) THEN WriteShiftRegister(s, i, a)
                   ELSE ReadShiftRegister(s, i, a)
  <2>1. w = Stop(x)
    BY <1>2 DEF Turn, Writes
  <2>2. x \in LoopStates(n)
    BY <1>2, WriteShiftRegisterFields, ReadShiftRegisterFields
  <2>3. /\ w \in LoopStates(n)
        /\ w.running = FALSE
        /\ w.model = x.model
        /\ w.transaction = x.transaction
    <3>. HIDE DEF x, w
    <3>. QED  BY <2>1, <2>2 DEF Stop, LoopStates
  <2>4. CASE Writes(s)
    <3>1. x = WriteShiftRegister(s, i, a)
      BY <2>4
    <3>. HIDE DEF w, x
    <3>2. TurnWritesShiftRegister(s, i, a, w)
      BY <1>2, <2>3, <3>1, WriteShiftRegisterFields, SMTT(30) DEF TurnWritesShiftRegister
    <3>. QED  BY <2>3, <2>4, <3>2, <1>2 DEF w
  <2>5. CASE ~Writes(s)
    <3>1. x = ReadShiftRegister(s, i, a)
      BY <2>5
    <3>. HIDE DEF w, x
    <3>2. TurnReadsShiftRegister(s, i, a, w)
      BY <1>2, <2>3, <3>1, ReadShiftRegisterFields DEF TurnReadsShiftRegister
    <3>. QED  BY <2>3, <2>5, <3>2, <1>2 DEF w
  <2>. QED  BY <2>4, <2>5
<1>3. CASE s.running /\ a \notin ShiftRegisters \cup RegisterAddresses
  <2>1. w = Stop(s)
    BY <1>3 DEF Turn
  <2>2. w \in LoopStates(n) /\ TurnEnds(s, w)
    <3>. HIDE DEF w
    <3>. QED  BY <2>1 DEF Stop, LoopStates, TurnEnds
  <2>. QED  BY <1>3, <2>2
<1>4. CASE s.running /\ a \in RegisterAddresses \ ShiftRegisters /\ Writes(s)
  <2>. DEFINE m == WriteRegister(s.model, a, s.transaction[i + 1])
              l == ~LogRaises(a)
  <2>1. w = [s EXCEPT !.model = m, !.running = l]
    BY <1>4 DEF Turn, Writes, LoopStates
  <2>2. s.transaction[i + 1] \in Byte /\ s.model \in RegisterModels
    BY DEF LoopStates
  <2>3. m \in RegisterModels
    BY <1>4, <2>2, WriteRegisterFields
  <2>4. l \in BOOLEAN
    OBVIOUS
  <2>. HIDE DEF m, l, w
  <2>5. w \in LoopStates(n) /\ w.model = m /\ w.running = l /\ w.transaction = s.transaction
    BY <2>1, <2>3, <2>4 DEF LoopStates
  <2>6. TurnWritesRegister(s, i, a, w)
    BY <2>5, Zenon DEF m, l, TurnWritesRegister
  <2>. QED  BY <1>4, <2>5, <2>6 DEF w
<1>5. CASE s.running /\ a \in RegisterAddresses \ ShiftRegisters /\ ~Writes(s)
  <2>. DEFINE t == [s.transaction EXCEPT ![i + 1] = s.model.registers[a]]
  <2>1. w = [s EXCEPT !.transaction = t]
    BY <1>5 DEF Turn, Writes, LoopStates
  <2>2. t \in [1 .. n -> Byte]
    BY <1>5 DEF LoopStates, RegisterModels
  <2>. HIDE DEF t, w
  <2>3. w \in LoopStates(n) /\ w.model = s.model /\ w.running = s.running /\ w.transaction = t
    BY <2>1, <2>2 DEF LoopStates
  <2>4. TurnReadsRegister(s, i, a, w)
    BY <1>5, <2>3 DEF t, TurnReadsRegister
  <2>. QED  BY <1>5, <2>3, <2>4 DEF w
<1>. QED  BY <1>1, <1>2, <1>3, <1>4, <1>5

\* The address of payload position i.
AddressAt(s, i) ==
  calc_register_addr(s.model, (s.transaction[1] % REGISTER_PAGE_SIZE) + (i - 1))

\* Addresses are natural numbers.
LEMMA AddressIsNat ==
  ASSUME NEW n \in Nat, NEW s \in LoopStates(n), NEW i \in 1 .. (n - 1)
  PROVE  AddressAt(s, i) \in Nat
<1>1. s.transaction \in [1 .. n -> Byte] /\ 1 \in 1 .. n
  BY DEF LoopStates
<1>2. s.transaction[1] \in Nat
  BY <1>1, Bytes
<1>. QED  BY <1>2, Bytes DEF AddressAt, calc_register_addr

\* The function of ProcessTransaction that maps i to the state after i turns.
After(m, t) ==
  CHOOSE g : g = [i \in 0 .. (Len(t) - 1) |->
                    IF i = 0
                    THEN [model |-> m, transaction |-> t, running |-> TRUE]
                    ELSE BurstTurn(m, g[i - 1], i)]

\* process_transaction runs one turn per payload byte: the recursive function
\* in ProcessTransaction is defined and has the states of the loop as values.
LEMMA ProcessTransactionLoop ==
  ASSUME NEW m \in RegisterModels, NEW n \in Nat \ {0}, NEW t \in [1 .. n -> Byte]
  PROVE  LET after == After(m, t)
         IN /\ after \in [0 .. (n - 1) -> LoopStates(n)]
            /\ after[0] = [model |-> m, transaction |-> t, running |-> TRUE]
            /\ \A i \in 1 .. (n - 1) :
                 after[i] = Turn(after[i - 1], i, AddressAt(after[i - 1], i))
            /\ ProcessTransaction(m, t) =
                 [model |-> after[n - 1].model,
                  response |-> after[n - 1].transaction]
<1>. DEFINE a == [model |-> m, transaction |-> t, running |-> TRUE]
            step == [i \in 1 .. (n - 1) |->
                       [s \in LoopStates(n) |-> Turn(s, i, AddressAt(s, i))]]
            L(g) == g = [i \in 0 .. (n - 1) |->
                           IF i = 0 THEN a ELSE BurstTurn(m, g[i - 1], i)]
            after == After(m, t)
<1>1. Len(t) = n /\ n - 1 \in Nat
  OBVIOUS
<1>2. a \in LoopStates(n)
  BY DEF LoopStates
<1>3. step \in [1 .. (n - 1) -> [LoopStates(n) -> LoopStates(n)]]
  BY TurnCases, AddressIsNat
<1>4. PICK g \in [0 .. (n - 1) -> LoopStates(n)] :
        IsLoop(g, n - 1, a, step)
  <2>. DEFINE N == n - 1
              X == LoopStates(n)
  <2>1. N \in Nat /\ a \in X /\ step \in [1 .. N -> [X -> X]]
    BY <1>1, <1>2, <1>3
  <2>. HIDE DEF step, a, N, X
  <2>2. \E g \in [0 .. N -> X] : IsLoop(g, N, a, step)
    BY <2>1, LoopExists
  <2>. QED  BY <2>2 DEF N, X
<1>5. L(g)
  <2>1. ASSUME NEW i \in 0 .. (n - 1), i # 0
        PROVE  step[i][g[i - 1]] = BurstTurn(m, g[i - 1], i)
    <3>1. i \in 1 .. (n - 1) /\ i - 1 \in 0 .. (n - 1)
      BY <2>1
    <3>. QED  BY <3>1 DEF BurstTurn, AddressAt
  <2>. HIDE DEF step, a
  <2>. QED  BY <1>4, <2>1 DEF IsLoop
<1>6. L(after)
  <2>1. after = CHOOSE h : L(h)
    BY <1>1 DEF After
  <2>. HIDE DEF L
  <2>. QED  BY <1>5, <2>1
<1>7. \A i \in 1 .. (n - 1) :
        after[i] = Turn(after[i - 1], i, AddressAt(after[i - 1], i))
  <2>. SUFFICES ASSUME NEW i \in 1 .. (n - 1)
                PROVE  after[i] = Turn(after[i - 1], i, AddressAt(after[i - 1], i))
    OBVIOUS
  <2>. HIDE DEF after, a
  <2>1. i \in 0 .. (n - 1) /\ i # 0
    OBVIOUS
  <2>2. after[i] = BurstTurn(m, after[i - 1], i)
    BY <1>6, <2>1
  <2>3. BurstTurn(m, after[i - 1], i)
          = Turn(after[i - 1], i, AddressAt(after[i - 1], i))
    BY Zenon DEF BurstTurn, AddressAt
  <2>. QED  BY <2>2, <2>3
<1>8. after[0] = a
  <2>. HIDE DEF after, a
  <2>. QED  BY <1>6
<1>9. after \in [0 .. (n - 1) -> LoopStates(n)]
  <2>. DEFINE S == {i \in 0 .. (n - 1) : after[i] \in LoopStates(n)}
  <2>1. 0 \in S
    BY <1>2, <1>8
  <2>2. ASSUME NEW i \in 1 .. (n - 1), i - 1 \in S PROVE i \in S
    <3>. DEFINE s == after[i - 1]
    <3>1. s \in LoopStates(n)
      BY <2>2
    <3>2. after[i] = Turn(s, i, AddressAt(s, i))
      BY <1>7
    <3>. HIDE DEF s, after
    <3>3. AddressAt(s, i) \in Nat
      BY <3>1, AddressIsNat
    <3>4. Turn(s, i, AddressAt(s, i)) \in LoopStates(n)
      BY <3>1, <3>3, TurnCases
    <3>. QED  BY <3>2, <3>4
  <2>3. \A i \in 0 .. (n - 1) : i \in S
    <3>. HIDE DEF S
    <3>. QED  BY <1>1, <2>1, <2>2, LoopInduction
  <2>. HIDE DEF after, a
  <2>4. \A i \in 0 .. (n - 1) : after[i] \in LoopStates(n)
    BY <2>3
  <2>5. after = [i \in 0 .. (n - 1) |-> after[i]]
    BY <1>6
  <2>. QED  BY <2>4, <2>5
<1>10. ProcessTransaction(m, t) =
         [model |-> after[n - 1].model, response |-> after[n - 1].transaction]
  BY <1>1 DEF ProcessTransaction, After
<1>. QED  BY <1>7, <1>8, <1>9, <1>10

-----------------------------------------------------------------------------
(* What every transaction keeps                                            *)

\* The state derived from registers matches them.
Derived(m) ==
  /\ m.page_select = bitfield(m.registers[CONFIG1], 0, 1)
  /\ m.test_sr_sector = bitfield(m.registers[TEST_SR], 2, 5)

\* The address a transaction starts at, within its page.
Base(t) == t[1] % REGISTER_PAGE_SIZE

SamePage1(m, w) ==
  m.page_select = 1 /\ w.page_select = 1 =>
    /\ \A a \in 3 .. (REGISTER_PAGE_SIZE - 1) : w.registers[a] = m.registers[a]
    /\ w.shift_registers = m.shift_registers

SamePage0(m, w) ==
  m.page_select = 0 /\ w.page_select = 0 =>
    \A a \in REGISTER_PAGE_SIZE .. (size - 1) : w.registers[a] = m.registers[a]

SameUnused(m, w) ==
  \A a \in UnusedAddresses : w.registers[a] = m.registers[a]

SameLengths(m, w) ==
  \A b \in ShiftRegisters :
    Len(w.shift_registers[b]) = Len(m.shift_registers[b])

\* What no transaction may do to a model m, leaving w: let the derived state
\* lag, resize a shift register, write an unused address or the other page.
Kept(m, w) ==
  /\ Derived(m) => Derived(w)
  /\ SameLengths(m, w)
  /\ SameUnused(m, w)
  /\ SamePage1(m, w)
  /\ SamePage0(m, w)

\* The invariant of the loop, after i turns from model m on transaction t.
LoopInv(m, t, i, s) ==
  /\ s.transaction[1] = t[1]
  /\ is_write_transaction(t) => s.transaction = t
  /\ ~is_write_transaction(t) => s.model = m
  /\ i > 0 /\ s.running /\ s.model.page_select = 0 => Base(t) + i <= SR_CAL
  /\ i = 0 => s.model = m
  /\ Kept(m, s.model)

\* A transaction starts within a page.
LEMMA BaseInPage ==
  ASSUME NEW n \in Nat \ {0}, NEW t \in [1 .. n -> Byte]
  PROVE  Base(t) \in 0 .. (REGISTER_PAGE_SIZE - 1)
<1>1. t[1] \in Byte
  OBVIOUS
<1>2. t[1] \in Nat
  BY <1>1, Bytes
<1>. QED  BY <1>2, Bytes DEF Base

\* The address of a turn is looked up on the page selected when it runs.
LEMMA AddressOfTurn ==
  ASSUME NEW n \in Nat \ {0}, NEW t \in [1 .. n -> Byte], NEW i \in 1 .. (n - 1),
         NEW s \in LoopStates(n), s.transaction[1] = t[1]
  PROVE  LET x == Base(t) + (i - 1)
         IN /\ x \in Nat
            /\ s.model.page_select \in 0 .. 1
            /\ AddressAt(s, i) \in Nat
            /\ AddressAt(s, i) =
                 IF s.model.page_select = 1 /\ x > 2
                 THEN x + REGISTER_PAGE_SIZE ELSE x
<1>1. Base(t) \in Nat
  BY BaseInPage, Bytes
<1>2. s.model.page_select \in 0 .. 1
  BY DEF LoopStates, RegisterModels
<1>3. AddressAt(s, i) =
        calc_register_addr(s.model, Base(t) + (i - 1))
  BY DEF AddressAt, Base
<1>. QED  BY <1>1, <1>2, <1>3, Bytes DEF calc_register_addr

\* A write to a register of the selected page keeps what must be kept.
LEMMA RegisterWriteKeeps ==
  ASSUME NEW m \in RegisterModels, NEW w0 \in RegisterModels, Kept(m, w0),
         NEW a \in RegisterAddresses \ ShiftRegisters, NEW v \in Byte,
         w0.page_select = 1 => a \in 0 .. 2 \/ a > CHIP_BIAS,
         w0.page_select = 0 => a < SR_CAL,
         a = CONFIG1 => w0 = m
  PROVE  Kept(m, WriteRegister(w0, a, v))
<1>. DEFINE w == WriteRegister(w0, a, v)
<1>1. /\ w \in RegisterModels
      /\ w.registers = [w0.registers EXCEPT ![a] = v]
      /\ w.shift_registers = w0.shift_registers
      /\ w.page_select =
           IF a = CONFIG1 THEN bitfield(v, 0, 1) ELSE w0.page_select
      /\ w.test_sr_sector =
           IF a = TEST_SR THEN bitfield(v, 2, 5) ELSE w0.test_sr_sector
  BY WriteRegisterFields
<1>. HIDE DEF w
<1>2. /\ w0.registers \in [RegisterAddresses -> Byte]
      /\ w0.page_select \in 0 .. 1
      /\ m.page_select \in 0 .. 1
      /\ CONFIG1 \in RegisterAddresses /\ TEST_SR \in RegisterAddresses
      /\ \A b \in UnusedAddresses : b \in RegisterAddresses /\ b # a
  BY Bytes DEF RegisterModels, RegisterAddresses, CONFIG1, SR_CAL, CHIP_BIAS, UnusedAddresses
<1>3. \A b \in RegisterAddresses : w.registers[b] = IF b = a THEN v ELSE w0.registers[b]
  BY <1>1, <1>2
<1>4. Derived(m) => Derived(w)
  BY <1>1, <1>2, <1>3 DEF Kept, Derived
<1>5. SameLengths(m, w)
  BY <1>1 DEF Kept, SameLengths
<1>6. SameUnused(m, w)
  BY <1>2, <1>3 DEF Kept, SameUnused
<1>7. SamePage1(m, w)
  <2>1. SUFFICES ASSUME m.page_select = 1, w.page_select = 1
                 PROVE  /\ \A b \in 3 .. (REGISTER_PAGE_SIZE - 1) :
                             w.registers[b] = m.registers[b]
                        /\ w.shift_registers = m.shift_registers
    BY DEF SamePage1
  <2>2. w0.page_select = 1
    BY <1>1, <2>1
  <2>3. /\ \A b \in 3 .. (REGISTER_PAGE_SIZE - 1) : w0.registers[b] = m.registers[b]
        /\ w0.shift_registers = m.shift_registers
    BY <2>1, <2>2 DEF Kept, SamePage1
  <2>4. \A b \in 3 .. (REGISTER_PAGE_SIZE - 1) : b \in RegisterAddresses /\ b # a
    BY <2>2, Bytes DEF RegisterAddresses, CHIP_BIAS
  <2>. QED  BY <1>1, <1>3, <2>3, <2>4
<1>8. SamePage0(m, w)
  <2>1. SUFFICES ASSUME m.page_select = 0, w.page_select = 0,
                        NEW b \in REGISTER_PAGE_SIZE .. (size - 1)
                 PROVE  w.registers[b] = m.registers[b]
    BY DEF SamePage0
  <2>2. w0.page_select = 0
    BY <1>1, <2>1
  <2>3. w0.registers[b] = m.registers[b]
    BY <2>1, <2>2 DEF Kept, SamePage0
  <2>4. b \in RegisterAddresses /\ b # a
    BY <2>2, Bytes DEF RegisterAddresses, SR_CAL
  <2>. QED  BY <1>3, <2>3, <2>4
<1>. QED  BY <1>4, <1>5, <1>6, <1>7, <1>8 DEF Kept, w

\* Only a write to CONFIG1 changes the page.
LEMMA WriteRegisterPage ==
  ASSUME NEW m \in RegisterModels, NEW a \in RegisterAddresses, NEW v \in Byte,
         a # CONFIG1
  PROVE  WriteRegister(m, a, v).page_select = m.page_select
BY WriteRegisterFields

\* A write to a shift register, on page 0, keeps what must be kept.
LEMMA ShiftWriteKeeps ==
  ASSUME NEW n \in Nat, NEW s \in LoopStates(n), NEW i \in 1 .. (n - 1),
         NEW a \in ShiftRegisters, NEW w,
         NEW m \in RegisterModels, Kept(m, s.model), s.model.page_select = 0,
         TurnWritesShiftRegister(s, i, a, w)
  PROVE  Kept(m, w.model)
<1>1. Derived(m) => Derived(w.model)
  BY DEF Kept, Derived, TurnWritesShiftRegister
<1>2. SameLengths(m, w.model)
  BY DEF Kept, SameLengths, TurnWritesShiftRegister
<1>3. SameUnused(m, w.model)
  BY DEF Kept, SameUnused, TurnWritesShiftRegister
<1>4. SamePage1(m, w.model)
  BY DEF SamePage1, TurnWritesShiftRegister
<1>5. SamePage0(m, w.model)
  BY DEF Kept, SamePage0, TurnWritesShiftRegister
<1>. QED  BY <1>1, <1>2, <1>3, <1>4, <1>5 DEF Kept

\* Every turn keeps the invariant of the loop.
LEMMA LoopInvTurn ==
  ASSUME NEW m \in RegisterModels, NEW n \in Nat \ {0}, NEW t \in [1 .. n -> Byte],
         NEW i \in 1 .. (n - 1), NEW s \in LoopStates(n), LoopInv(m, t, i - 1, s)
  PROVE  LoopInv(m, t, i, Turn(s, i, AddressAt(s, i)))
<1>. DEFINE a == AddressAt(s, i)
            w == Turn(s, i, a)
            x == Base(t) + (i - 1)
<1>1. /\ x \in Nat /\ a \in Nat /\ s.model.page_select \in 0 .. 1
      /\ a = IF s.model.page_select = 1 /\ x > 2 THEN x + REGISTER_PAGE_SIZE ELSE x
  BY AddressOfTurn DEF LoopInv
<1>2. Base(t) \in 0 .. (REGISTER_PAGE_SIZE - 1)
  BY BaseInPage
<1>3. Writes(s) <=> is_write_transaction(t)
  BY DEF LoopInv, Writes, is_write_transaction
<1>4. /\ s.model \in RegisterModels /\ w \in LoopStates(n)
      /\ s.transaction \in [1 .. n -> Byte] /\ i + 1 \in 1 .. n
  BY <1>1, TurnCases DEF LoopStates
<1>5. CASE ~s.running
  <2>1. w = s
    BY <1>1, <1>5, TurnCases
  <2>. QED  BY <2>1, <1>5 DEF LoopInv
<1>6. CASE s.running /\ a \in ShiftRegisters
  <2>1. s.model.page_select = 0
    BY <1>1, <1>6, Bytes DEF ShiftRegisters, SR_CAL, SR_TEST
  <2>2. CASE Writes(s)
    <3>1. TurnWritesShiftRegister(s, i, a, w)
      BY <1>1, <1>6, <2>2, TurnCases
    <3>. HIDE DEF w, a
    <3>2. Kept(m, w.model)
      BY <2>1, <3>1, <1>6, ShiftWriteKeeps DEF LoopInv
    <3>3. w.transaction = s.transaction /\ ~w.running
      BY <3>1 DEF TurnWritesShiftRegister
    <3>. QED  BY <1>3, <2>2, <3>2, <3>3 DEF LoopInv, w, a
  <2>3. CASE ~Writes(s)
    <3>1. TurnReadsShiftRegister(s, i, a, w)
      BY <1>1, <1>6, <2>3, TurnCases
    <3>. HIDE DEF w, a
    <3>2. w.model = s.model /\ ~w.running /\ w.transaction[1] = s.transaction[1]
      BY <3>1 DEF TurnReadsShiftRegister
    <3>. QED  BY <1>3, <2>3, <3>2 DEF LoopInv, w, a
  <2>. QED  BY <2>2, <2>3
<1>7. CASE s.running /\ a \notin ShiftRegisters \cup RegisterAddresses
  <2>1. TurnEnds(s, w)
    BY <1>1, <1>7, TurnCases
  <2>. HIDE DEF w, a
  <2>. QED  BY <2>1 DEF LoopInv, TurnEnds, w, a
<1>8. CASE s.running /\ a \in RegisterAddresses \ ShiftRegisters
  <2>1. s.model.page_select = 0 => x < SR_CAL /\ a = x
    BY <1>1, <1>2, <1>8, Bytes DEF LoopInv, ShiftRegisters, SR_CAL, SR_TEST
  <2>2. s.model.page_select = 1 => a \in 0 .. 2 \/ a > CHIP_BIAS
    BY <1>1, Bytes DEF CHIP_BIAS
  <2>3. a = CONFIG1 => x = 0 /\ i - 1 = 0 /\ Base(t) = 0
    BY <1>1, <1>2, Bytes DEF CONFIG1
  <2>4. CASE Writes(s)
    <3>1. TurnWritesRegister(s, i, a, w)
      BY <1>1, <1>8, <2>4, TurnCases
    <3>. HIDE DEF w, a, x
    <3>2. s.transaction[i + 1] \in Byte
      BY <1>4
    <3>3. Kept(m, w.model)
      <4>1. a = CONFIG1 => s.model = m
        BY <2>3 DEF LoopInv
      <4>2. s.model.page_select = 0 => a < SR_CAL
        BY <2>1
      <4>. QED  BY <1>4, <1>8, <2>2, <3>1, <3>2, <4>1, <4>2, RegisterWriteKeeps
           DEF LoopInv, TurnWritesRegister
    <3>4. w.model.page_select = 0 => Base(t) + i <= SR_CAL
      <4>1. a # CONFIG1 => w.model.page_select = s.model.page_select
        <5>1. a \in RegisterAddresses /\ s.transaction[i + 1] \in Byte
          BY <1>8, <3>2
        <5>. QED  BY <1>4, <3>1, <5>1, WriteRegisterPage DEF TurnWritesRegister
      <4>2. CASE a = CONFIG1
        BY <2>3, <4>2, Bytes DEF SR_CAL
      <4>3. CASE a # CONFIG1
        BY <1>2, <2>1, <4>1, <4>3, Bytes DEF SR_CAL, x
      <4>. QED  BY <4>2, <4>3
    <3>5. w.transaction = s.transaction
      BY <3>1 DEF TurnWritesRegister
    <3>. QED  BY <1>3, <2>4, <3>3, <3>4, <3>5 DEF LoopInv, w, a
  <2>5. CASE ~Writes(s)
    <3>1. TurnReadsRegister(s, i, a, w)
      BY <1>1, <1>8, <2>5, TurnCases
    <3>. HIDE DEF w, a
    <3>2. w.model = s.model /\ w.transaction[1] = s.transaction[1]
      BY <3>1, <1>4 DEF TurnReadsRegister
    <3>3. w.model.page_select = 0 => Base(t) + i <= SR_CAL
      BY <2>1, <3>2, <1>2, Bytes DEF SR_CAL, x
    <3>. QED  BY <1>3, <2>5, <3>2, <3>3 DEF LoopInv, w, a
  <2>. QED  BY <2>4, <2>5
<1>. QED  BY <1>1, <1>5, <1>6, <1>7, <1>8

\* A sequence that is a transaction is a function on bytes.
LEMMA BytesOfTransaction ==
  ASSUME NEW X, NEW t \in Seq(X), t # << >>, IsTransaction(t)
  PROVE  Len(t) \in Nat \ {0} /\ t \in [1 .. Len(t) -> Byte]
<1>1. Len(t) \in Nat \ {0} /\ DOMAIN t = 1 .. Len(t)
  BY EmptySeq, LenProperties
<1>2. t = [i \in 1 .. Len(t) |-> t[i]]
  BY SeqDef, <1>1
<1>3. \A i \in 1 .. Len(t) : t[i] \in Byte
  BY <1>1 DEF IsTransaction
<1>. QED  BY <1>1, <1>2, <1>3

\* A model that stays as it is keeps everything.
LEMMA KeptReflexive ==
  ASSUME NEW m  PROVE  Kept(m, m)
BY DEF Kept, SameLengths, SameUnused, SamePage1, SamePage0

\* The invariant holds after every turn.
LEMMA ProcessTransactionInv ==
  ASSUME NEW m \in RegisterModels, NEW n \in Nat \ {0}, NEW t \in [1 .. n -> Byte]
  PROVE  \A i \in 0 .. (n - 1) : LoopInv(m, t, i, After(m, t)[i])
<1>. DEFINE after == After(m, t)
            N == n - 1
            S == {i \in 0 .. N : LoopInv(m, t, i, after[i])}
<1>1. /\ after \in [0 .. N -> LoopStates(n)]
      /\ after[0] = [model |-> m, transaction |-> t, running |-> TRUE]
      /\ \A i \in 1 .. N :
           after[i] = Turn(after[i - 1], i, AddressAt(after[i - 1], i))
  BY ProcessTransactionLoop
<1>. HIDE DEF after
<1>2. 0 \in S
  <2>1. LoopInv(m, t, 0, after[0])
    BY <1>1, KeptReflexive DEF LoopInv
  <2>. QED  BY <2>1
<1>3. ASSUME NEW i \in 1 .. N, i - 1 \in S PROVE i \in S
  <2>. DEFINE s == after[i - 1]
  <2>1. s \in LoopStates(n) /\ LoopInv(m, t, i - 1, s)
    BY <1>1, <1>3
  <2>2. after[i] = Turn(s, i, AddressAt(s, i))
    BY <1>1
  <2>. HIDE DEF s
  <2>3. LoopInv(m, t, i, Turn(s, i, AddressAt(s, i)))
    BY <2>1, LoopInvTurn
  <2>4. LoopInv(m, t, i, after[i])
    BY <2>2, <2>3
  <2>. QED  BY <2>4
<1>4. N \in Nat
  OBVIOUS
<1>. HIDE DEF S, N
<1>5. \A i \in 0 .. N : i \in S
  BY <1>2, <1>3, <1>4, LoopInduction
<1>. QED  BY <1>5 DEF S, N, after

\* Whatever is received, the answer leaves a model with all that must be kept,
\* has the length of what was received, and reads leave the model alone.
LEMMA AnswerProperties ==
  ASSUME NEW m \in RegisterModels, NEW X, NEW t \in Seq(X), t # << >>
  PROVE  LET answer == Answer(m, t)
         IN /\ answer.model \in RegisterModels
            /\ Kept(m, answer.model)
            /\ answer.response \in Seq(X \cup Byte)
            /\ Len(answer.response) = Len(t)
            /\ IsTransaction(t) /\ ~is_write_transaction(t) =>
                 answer.model = m
<1>. DEFINE answer == Answer(m, t)
<1>1. CASE ~IsTransaction(t)
  <2>1. answer.model = m /\ answer.response = t
    BY <1>1 DEF Answer
  <2>. QED  BY <2>1, <1>1, KeptReflexive
<1>2. CASE IsTransaction(t)
  <2>. DEFINE n == Len(t)
              s == After(m, t)[n - 1]
  <2>1. n \in Nat \ {0} /\ t \in [1 .. n -> Byte]
    BY <1>2, BytesOfTransaction
  <2>2. answer = ProcessTransaction(m, t)
    BY <1>2 DEF Answer
  <2>. HIDE DEF n
  <2>3. /\ answer = [model |-> s.model, response |-> s.transaction]
        /\ After(m, t) \in [0 .. (n - 1) -> LoopStates(n)]
    BY <2>1, <2>2, ProcessTransactionLoop
  <2>4. n - 1 \in 0 .. (n - 1)
    BY <2>1
  <2>5. s \in LoopStates(n) /\ LoopInv(m, t, n - 1, s)
    BY <2>1, <2>3, <2>4, ProcessTransactionInv
  <2>. HIDE DEF s, answer
  <2>6. answer.response \in [1 .. n -> Byte]
    BY <2>3, <2>5 DEF LoopStates
  <2>7. answer.response \in Seq(X \cup Byte) /\ Len(answer.response) = n
    BY <2>1, <2>6
  <2>8. /\ answer.model \in RegisterModels
        /\ Kept(m, answer.model)
        /\ ~is_write_transaction(t) => answer.model = m
    BY <2>3, <2>5 DEF LoopInv, LoopStates
  <2>. QED  BY <2>7, <2>8 DEF n, answer
<1>. QED  BY <1>1, <1>2

\* A new model is one.
LEMMA NewModelTyped ==
  /\ NewRegisterModel \in RegisterModels
  /\ Len(NewRegisterModel.shift_registers[SR_CAL]) = REGISTER_SR_CAL_SIZE
  /\ Len(NewRegisterModel.shift_registers[SR_TEST])
       = REGISTER_SR_TEST_NUM_SECTORS
<1>. DEFINE cal == [i \in 1 .. REGISTER_SR_CAL_SIZE |-> 0]
            test == [i \in 1 .. REGISTER_SR_TEST_NUM_SECTORS |-> Sector]
            sr == [a \in ShiftRegisters |-> IF a = SR_CAL THEN cal ELSE test]
            p == bitfield(DefaultValues[CONFIG1], 0, 1)
            t == bitfield(DefaultValues[TEST_SR], 2, 5)
            m == NewRegisterModel
<1>1. m = [registers |-> DefaultValues, shift_registers |-> sr,
           page_select |-> p, test_sr_sector |-> t]
  BY DEF NewRegisterModel
<1>2. /\ cal \in Seq(Byte \cup {Sector}) /\ Len(cal) = REGISTER_SR_CAL_SIZE
      /\ test \in Seq(Byte \cup {Sector})
      /\ Len(test) = REGISTER_SR_TEST_NUM_SECTORS
  <2>1. 0 \in Byte
    BY Bytes DEF Byte, ByteModulus
  <2>. QED  BY <2>1, LayoutAssumption
<1>3. DefaultValues[CONFIG1] \in Nat /\ DefaultValues[TEST_SR] \in Nat
  <2>1. CONFIG1 \in RegisterAddresses /\ TEST_SR \in RegisterAddresses
    BY Bytes DEF CONFIG1, RegisterAddresses, SR_CAL, CHIP_BIAS
  <2>. QED  BY <2>1, ValuesAssumption, Bytes
<1>4. p \in 0 .. 1 /\ t \in 0 .. 31
  BY <1>3, Bytes
<1>. HIDE DEF cal, test, p, t
<1>5. /\ sr \in [ShiftRegisters -> Seq(Byte \cup {Sector})]
      /\ sr[SR_CAL] = cal /\ sr[SR_TEST] = test
  BY <1>2, Bytes DEF ShiftRegisters, SR_CAL, SR_TEST
<1>. HIDE DEF sr, m
<1>6. m \in RegisterModels
  BY <1>1, <1>4, <1>5, ValuesAssumption DEF RegisterModels
<1>7. /\ Len(m.shift_registers[SR_CAL]) = REGISTER_SR_CAL_SIZE
      /\ Len(m.shift_registers[SR_TEST]) = REGISTER_SR_TEST_NUM_SECTORS
  BY <1>1, <1>2, <1>5
<1>. QED  BY <1>6, <1>7 DEF m

\* What goes over the wire is the call with its first byte changed.
LEMMA OnWireIsSequence ==
  ASSUME NEW call, IsCall(call)
  PROVE  /\ OnWire(call) \in Seq(Int \cup {NotInteger})
         /\ OnWire(call) # << >>
         /\ Len(OnWire(call)) = Len(call.transaction)
         /\ \A i \in 2 .. Len(call.transaction) :
              OnWire(call)[i] = call.transaction[i]
         /\ call.access = "write" =>
              OnWire(call)[1] = call.transaction[1] % REGISTER_PAGE_SIZE
         /\ call.access = "read" =>
              OnWire(call)[1] =
                IF bitfield(call.transaction[1] \div REGISTER_PAGE_SIZE, 0, 1) = 1
                THEN call.transaction[1]
                ELSE call.transaction[1] + REGISTER_PAGE_SIZE
<1>. DEFINE t == call.transaction
            X == Int \cup {NotInteger}
            x == IF call.access = "write" THEN t[1] % REGISTER_PAGE_SIZE
                 ELSE IF bitfield(t[1] \div REGISTER_PAGE_SIZE, 0, 1) = 1 THEN t[1]
                 ELSE t[1] + REGISTER_PAGE_SIZE
            w == [t EXCEPT ![1] = x]
<1>1. t \in Seq(X) /\ t # << >> /\ t[1] \in Int /\ call.access \in {"read", "write"}
  BY DEF IsCall
<1>2. OnWire(call) = w
  BY DEF OnWire
<1>3. x \in Int
  BY <1>1, Bytes
<1>4. x \in X
  BY <1>3
<1>. HIDE DEF t, x
<1>5. Len(t) \in Nat \ {0} /\ DOMAIN t = 1 .. Len(t) /\ 1 \in 1 .. Len(t)
  BY <1>1, EmptySeq, LenProperties
<1>6. w \in Seq(X) /\ Len(w) = Len(t)
  BY <1>1, <1>4, <1>5, ExceptSeq
<1>7. w[1] = x /\ \A i \in 2 .. Len(t) : w[i] = t[i]
  BY <1>5
<1>8. w # << >>
  BY <1>5, <1>6, EmptySeq
<1>. QED  BY <1>1, <1>2, <1>6, <1>7, <1>8 DEF t, x
=============================================================================
