------------------------ MODULE ControlSystem_proofs ------------------------
(***************************************************************************)
(* Proofs about ControlSystem for any number of processes, commands, lines *)
(* and shutdowns, and any configurations.                                  *)
(*                                                                         *)
(* SystemInv is the inductive invariant.  Its parts: what the variables    *)
(* hold (TypeInv), that the message of the running process is in one place *)
(* while it waits and in none when it has nothing to wait for (SocketInv), *)
(* that a message the server holds came over a connection that still       *)
(* exists if its process does (ConnectionInv), that the server task is     *)
(* there from the moment the emulator is loaded (ServerTaskLives), and     *)
(* that a shutdown which nobody cancelled awaits every task that runs      *)
(* besides it (TaskInv).                                                   *)
(*                                                                         *)
(* OrderInv, on top of it, is about the order in which shutdowns are       *)
(* created and begin: what an uncancelled shutdown does not await was      *)
(* created after it began, and has not begun itself.                       *)
(*                                                                         *)
(* SideInv, at the end, is inductive by itself: types, what a crash can be *)
(* blamed on, and that clients and events together account for the open    *)
(* connections.                                                            *)
(***************************************************************************)
EXTENDS ControlSystem, SequenceTheorems, FiniteSetTheorems, TLAPS

States == {"none", "created", "waiting", "sleeping", "gathering", "done"}

Messages == [identity : Int, session : Int, transaction : Seq(Int)]

ShellTyped ==
  /\ session \in Nat
  /\ Alive => session > 0
  /\ outgoing \in Seq(Messages)
  /\ task \in [TaskIds -> States]
  /\ gathered \in [Shutdowns -> SUBSET TaskIds]
  /\ test_at \in Nat

MessagesTyped ==
  /\ inbound \subseteq Messages
  /\ \A m \in inbound : m.identity = m.session /\ m.session <= session

Names == {section.name : section \in Sections}

ServerTyped == to_load \in Seq(Sections) /\ adapters \in Seq(Names)

TypeInv == ShellTyped /\ MessagesTyped /\ ServerTyped

\* The messages of the running process that the server's socket holds.
Own == {m \in inbound : m.session = session}

Nowhere == outgoing = << >> /\ incoming = << >> /\ Own = {}

InOnePlace ==
  \/ outgoing = <<Message>> /\ incoming = << >> /\ Own = {}
  \/ outgoing = << >> /\ incoming = << >> /\ Own = {Message}
  \/ outgoing = << >> /\ incoming = <<Message>> /\ Own = {}

\* The process waits, or its test loop was ended while it did.
Asked ==
  \/ shell.at = "awaiting"
  \/ shell = Testing /\ task[TestLoop] \in {"waiting", "done"}

SocketInv ==
  /\ ~Alive => outgoing = << >> /\ incoming = << >>
  /\ Alive => Nowhere \/ (Asked /\ InOnePlace)
  /\ Waits /\ ~lost => InOnePlace

ConnectionInv == Alive /\ Own # {} => Connected(session)

\* A task that has begun, or, for the test loop, will begin.
Runs(t) ==
  /\ task[t] \notin {"none", "done"}
  /\ t \in Shutdowns => task[t] # "created"

TaskInv ==
  /\ shell # Testing => \A t \in TaskIds : ~Runs(t)
  /\ \A s \in Shutdowns :
       task[s] = "gathering" /\ s \notin cancelled =>
         \A t \in TaskIds \ {s} : Runs(t) => t \in gathered[s]

SystemInv == TypeInv /\ SocketInv /\ ConnectionInv /\ ServerTaskLives /\ TaskInv

-----------------------------------------------------------------------------
(* Sequences of one element, and what a line or the test loop sends        *)

LEMMA OneElement ==
  ASSUME NEW x
  PROVE  /\ Append(<< >>, x) = <<x>> /\ <<x>> # << >>
         /\ Head(<<x>>) = x /\ Tail(<<x>>) = << >>
OBVIOUS

LEMMA ToSetAppend ==
  ASSUME NEW S, NEW s \in Seq(S), NEW e
  PROVE  ToSet(Append(s, e)) = ToSet(s) \cup {e}
<1>1. /\ DOMAIN s = 1 .. Len(s) /\ Len(s) \in Nat
      /\ DOMAIN Append(s, e) = 1 .. Len(s) + 1
      /\ \A i \in 1 .. Len(s) : Append(s, e)[i] = s[i]
      /\ Append(s, e)[Len(s) + 1] = e
  OBVIOUS
<1> QED
  BY <1>1 DEF ToSet

\* What do_read sends: an address with the RW bit set, and zeros.
LEMMA ReadTransaction ==
  ASSUME NEW line \in Lines, line.command = "read",
         ~ParseFails(line.args, Defaults(line))
  PROVE  LET address == IF 1 \in DOMAIN line.args THEN line.args[1] ELSE 0
         IN /\ address \in Int
            /\ Transaction(line) \in Seq(Int)
            /\ Transaction(line)[1] =
                 IF bitfield(address \div REGISTER_PAGE_SIZE, 0, 1) = 1
                 THEN address ELSE address + REGISTER_PAGE_SIZE
            /\ \A i \in DOMAIN Transaction(line) :
                 i # 1 => Transaction(line)[i] = 0
<1> DEFINE args == parse_args(line.args, Defaults(line))
           address == IF 1 \in DOMAIN line.args THEN line.args[1] ELSE 0
           zeros == [i \in 1 .. args[2] |-> 0]
           wire == <<args[1]>> \o zeros
           x == IF bitfield(address \div REGISTER_PAGE_SIZE, 0, 1) = 1
                THEN address ELSE address + REGISTER_PAGE_SIZE
<1>1. /\ line.args \in Seq(Int \cup {NotInteger})
      /\ REGISTER_PAGE_SIZE \in Nat \ {0}
      /\ Defaults(line) = <<0, 1, NotInteger>>
      /\ Transaction(line) = OnWire(register_read(args[1], args[2]))
  BY ShellAssumption, LayoutAssumption DEF Defaults, Transaction
<1>2. args[1] = address /\ args[1] \in Int /\ args[2] \in Int
  <2>1. \A i \in {1, 2} : i \in DOMAIN line.args => line.args[i] \in Int
    <3>1. \A i \in DOMAIN line.args : line.args[i] \in Int \cup {NotInteger}
      BY <1>1
    <3>2. \A i \in {1, 2} : IntegerAt(Defaults(line), i)
      BY <1>1, ShellAssumption DEF IntegerAt
    <3> QED
      BY <3>1, <3>2 DEF ParseFails
  <2>2. \A i \in {1, 2} :
          args[i] = IF i \in DOMAIN line.args THEN line.args[i]
                    ELSE Defaults(line)[i]
    BY <1>1 DEF parse_args
  <2> QED
    BY <1>1, <2>1, <2>2
<1>3. /\ zeros \in Seq(Int)
      /\ \A i \in 1 .. Len(zeros) : zeros[i] = 0
  <2>1. CASE args[2] \in Nat
    BY <2>1
  <2>2. CASE args[2] \notin Nat
    <3>1. 1 .. args[2] = {} /\ 1 .. 0 = {}
      BY <1>2, <2>2
    <3>2. zeros = [i \in 1 .. 0 |-> 0]
      BY <3>1
    <3>3. [i \in 1 .. 0 |-> 0] \in Seq(Int) /\ Len([i \in 1 .. 0 |-> 0]) = 0
      OBVIOUS
    <3> QED
      BY <3>2, <3>3
  <2> QED
    BY <2>1, <2>2
<1> HIDE DEF zeros
<1>4. /\ wire \in Seq(Int) /\ DOMAIN wire = 1 .. Len(wire)
      /\ Len(wire) \in Nat /\ Len(wire) >= 1
      /\ wire[1] = args[1]
      /\ \A i \in 1 .. Len(wire) : i # 1 => wire[i] = 0
  <2>1. <<args[1]>> \in Seq(Int) /\ Len(<<args[1]>>) = 1
    BY <1>2
  <2>2. /\ wire \in Seq(Int)
        /\ Len(wire) = 1 + Len(zeros)
        /\ \A i \in 1 .. 1 + Len(zeros) :
             wire[i] = IF i <= 1 THEN <<args[1]>>[i] ELSE zeros[i - 1]
    BY <1>3, <2>1, ConcatProperties
  <2>3. Len(zeros) \in Nat
    BY <1>3, LenProperties
  <2>4. \A i \in 1 .. 1 + Len(zeros) : i # 1 => i - 1 \in 1 .. Len(zeros)
    BY <2>3
  <2> HIDE DEF wire
  <2> QED
    BY <1>3, <2>2, <2>3, <2>4, LenProperties
<1>5. Transaction(line) = [wire EXCEPT ![1] = x]
  <2>1. Transaction(line) = OnWire([access |-> "read", transaction |-> wire])
    BY <1>1 DEF register_read, zeros
  <2> HIDE DEF wire, args
  <2>2. Transaction(line) =
          [wire EXCEPT ![1] =
             IF bitfield(wire[1] \div REGISTER_PAGE_SIZE, 0, 1) = 1 THEN wire[1]
             ELSE wire[1] + REGISTER_PAGE_SIZE]
    BY <1>1, <2>1 DEF OnWire
  <2> QED
    BY <1>2, <1>4, <2>2
<1>6. x \in Int
  BY <1>1, <1>2
<1> HIDE DEF wire, x
<1>7. /\ Transaction(line) \in Seq(Int)
      /\ Transaction(line)[1] = x
      /\ \A i \in DOMAIN Transaction(line) : i # 1 => Transaction(line)[i] = 0
  BY <1>4, <1>5, <1>6
<1> QED
  BY <1>2, <1>7 DEF x

\* What do_write sends: its arguments, the first without the RW bit.
LEMMA WriteTransaction ==
  ASSUME NEW line \in Lines, line.command = "write",
         ~ParseFails(line.args, Defaults(line)),
         parse_args(line.args, Defaults(line)) # << >>
  PROVE  /\ Transaction(line) \in Seq(Int)
         /\ DOMAIN Transaction(line) = DOMAIN line.args
         /\ Transaction(line)[1] = line.args[1] % REGISTER_PAGE_SIZE
         /\ \A i \in DOMAIN line.args :
              i # 1 => Transaction(line)[i] = line.args[i]
<1> DEFINE args == parse_args(line.args, Defaults(line))
           wire == <<line.args[1]>> \o Tail(line.args)
<1>1. /\ line.args \in Seq(Int \cup {NotInteger})
      /\ REGISTER_PAGE_SIZE \in Nat \ {0}
      /\ Defaults(line) = << >>
      /\ Transaction(line) = OnWire(register_write(args[1], Tail(args)))
  BY ShellAssumption, LayoutAssumption DEF Defaults, Transaction
<1>2. args = line.args
  <2>1. DOMAIN Defaults(line) = {}
    BY <1>1
  <2>2. args = [i \in DOMAIN line.args |-> line.args[i]]
    BY <2>1 DEF parse_args
  <2>3. line.args \in [1 .. Len(line.args) -> Int \cup {NotInteger}]
    BY <1>1, LenProperties
  <2> HIDE DEF args
  <2> QED
    BY <2>2, <2>3
<1>3. line.args \in Seq(Int) /\ line.args # << >>
  <2>1. \A i \in DOMAIN line.args : line.args[i] \in Int
    BY <1>1 DEF ParseFails, IntegerAt
  <2> QED
    BY <1>1, <1>2, <2>1
<1>4. wire \in Seq(Int) /\ wire = line.args
  BY <1>3
<1>5. /\ 1 \in DOMAIN line.args /\ line.args[1] % REGISTER_PAGE_SIZE \in Int
      /\ DOMAIN line.args = 1 .. Len(line.args)
  <2>1. /\ Len(line.args) \in Nat \ {0}
        /\ DOMAIN line.args = 1 .. Len(line.args)
    BY <1>3, EmptySeq, LenProperties
  <2>2. line.args[1] \in Int
    BY <1>3
  <2> QED
    BY <1>1, <2>1, <2>2
<1>6. Transaction(line)
        = [line.args EXCEPT ![1] = line.args[1] % REGISTER_PAGE_SIZE]
  <2>1. register_write(args[1], Tail(args))
          = [access |-> "write", transaction |-> wire]
    BY <1>2 DEF register_write
  <2> HIDE DEF wire, args
  <2> QED
    BY <1>1, <1>4, <2>1, SMTT(30) DEF OnWire
<1> QED
  BY <1>3, <1>5, <1>6

\* Whatever the prompt lets through consists of integers.
LEMMA TransactionOfIntegers ==
  ASSUME NEW line \in Lines, line.command # "quit",
         ~ParseFails(line.args, Defaults(line)),
         parse_args(line.args, Defaults(line)) # << >>
  PROVE  Transaction(line) \in Seq(Int)
BY ReadTransaction, WriteTransaction, ShellAssumption

\* A transaction that msgpack cannot pack has an argument it cannot pack:
\* what the client makes of an address fits 64 bits if the address does.
LEMMA UnpackedArgument ==
  ASSUME NEW line \in Lines, line.command # "quit",
         ~IsRefused(line), SendRaises(line), ~IsTooLong(line)
  PROVE  \E i \in DOMAIN line.args :
           line.args[i] \notin PackedIntegers \cup {NotInteger}
<1>1. /\ ~ParseFails(line.args, Defaults(line))
      /\ parse_args(line.args, Defaults(line)) # << >>
  BY DEF IsRefused
<1>2. PICK i \in DOMAIN Transaction(line) :
        Transaction(line)[i] \notin PackedIntegers \cup {NotInteger}
  BY <1>1 DEF SendRaises
<1>3. /\ REGISTER_PAGE_SIZE \in Nat \ {0}
      /\ \A n \in 0 .. (2 * REGISTER_PAGE_SIZE - 1) : n \in PackedIntegers
  BY LayoutAssumption, ShellAssumption DEF Byte, ByteModulus
<1>4. CASE line.command = "read"
  <2> DEFINE address == IF 1 \in DOMAIN line.args THEN line.args[1] ELSE 0
             P == REGISTER_PAGE_SIZE
  <2>1. /\ address \in Int
        /\ Transaction(line)[1] =
             IF bitfield(address \div P, 0, 1) = 1
             THEN address ELSE address + P
        /\ i # 1 => Transaction(line)[i] = 0
    BY <1>1, <1>2, <1>4, ReadTransaction
  <2>2. 0 \in PackedIntegers /\ P \in PackedIntegers
    BY <1>3
  <2>3. i = 1
    BY <1>2, <2>1, <2>2
  <2>4. \A n \in Int : bitfield(n \div P, 0, 1) = (n \div P) % 2
    <3>1. \A n \in Int : bitfield(n, 0, 1) = n % 2
      BY DEF bitfield
    <3>2. \A n \in Int : n \div P \in Int
      BY <1>3
    <3> QED
      BY <3>1, <3>2
  <2>5. \A n \in Int : (n \div P) % 2 \in {0, 1} /\ (0 \div P) % 2 = 0
    BY <1>3
  <2>6. CASE 1 \in DOMAIN line.args
    <3>1. address = line.args[1]
      BY <2>6
    <3> HIDE DEF address, P
    <3>2. address \notin PackedIntegers
      <4>1. CASE bitfield(address \div P, 0, 1) = 1
        BY <1>2, <2>1, <2>3, <4>1
      <4>2. CASE bitfield(address \div P, 0, 1) # 1
        <5>1. (address \div P) % 2 = 0 /\ address + P \notin PackedIntegers
          BY <1>2, <2>1, <2>3, <2>4, <2>5, <4>2
        <5> QED
          BY <5>1, ShellAssumption DEF P
      <4> QED
        BY <4>1, <4>2
    <3>3. address # NotInteger
      BY <2>1, ShellAssumption
    <3> QED
      BY <2>6, <3>1, <3>2, <3>3
  <2>7. CASE 1 \notin DOMAIN line.args
    <3>1. address = 0
      BY <2>7
    <3>2. bitfield(0 \div P, 0, 1) # 1
      BY <2>4, <2>5
    <3> HIDE DEF P
    <3>3. Transaction(line)[1] = P
      BY <1>3, <2>1, <3>1, <3>2 DEF P
    <3> QED
      BY <1>2, <2>2, <2>3, <3>3
  <2> QED
    BY <2>6, <2>7
<1>5. CASE line.command = "write"
  <2>1. /\ Transaction(line) \in Seq(Int)
        /\ DOMAIN Transaction(line) = DOMAIN line.args
        /\ Transaction(line)[1] = line.args[1] % REGISTER_PAGE_SIZE
        /\ i # 1 => Transaction(line)[i] = line.args[i]
    BY <1>1, <1>2, <1>5, WriteTransaction
  <2>2. CASE i = 1
    <3>1. Transaction(line)[1] \in Int
      BY <1>2, <2>1, <2>2
    <3>2. CASE line.args[1] \in Int
      <4>1. line.args[1] % REGISTER_PAGE_SIZE
              \in 0 .. (2 * REGISTER_PAGE_SIZE - 1)
        BY <1>3, <3>2
      <4> QED
        BY <1>2, <1>3, <2>1, <2>2, <4>1
    <3>3. CASE line.args[1] = NotInteger
      <4>1. IntegerAt(Defaults(line), 1)
        BY <1>5 DEF IntegerAt, Defaults
      <4> QED
        BY <1>1, <1>2, <2>1, <2>2, <3>3, <4>1 DEF ParseFails
    <3> QED
      BY <1>2, <2>1, <2>2, <3>2, <3>3, ShellAssumption
  <2>3. CASE i # 1
    BY <1>2, <2>1, <2>3
  <2> QED
    BY <2>2, <2>3
<1> QED
  BY <1>4, <1>5, ShellAssumption

\* The test loop goes round its transactions, which are bytes.
LEMMA TestTransactionOfIntegers ==
  ASSUME test_at \in Nat
  PROVE  LET next == (test_at % Len(TestTransactions)) + 1
         IN next \in Nat /\ TestTransactions[next] \in Seq(Int)
<1>1. /\ TestTransactions \in Seq(Seq(Byte))
      /\ Len(TestTransactions) \in Nat \ {0}
  BY ShellAssumption, EmptySeq, LenProperties
<1>2. Seq(Byte) \subseteq Seq(Int)
  <2>1. Byte \subseteq Int
    BY ShellAssumption
  <2> QED
    BY <2>1, SeqMonotonic
<1>3. (test_at % Len(TestTransactions)) + 1 \in 1 .. Len(TestTransactions)
  BY <1>1
<1> QED
  BY <1>1, <1>2, <1>3, ElementOfSeq

-----------------------------------------------------------------------------
(* Facts about one state *)

LEMMA Tasks ==
  /\ TestLoop \in TaskIds /\ TestLoop \notin Shutdowns
  /\ \A s \in Shutdowns : s \in TaskIds /\ s # TestLoop
BY ShellAssumption DEF TestLoop, TaskIds, Shutdowns

LEMMA ShellFacts ==
  /\ shell = Testing => Alive /\ shell.at = "testing"
  /\ shell = Prompt => Alive /\ shell.at = "prompt" /\ shell # Testing
  /\ shell.at = "awaiting" => Alive /\ shell # Testing
  /\ Waits => Alive /\ Asked
BY DEF Alive, Prompt, Testing, Waits, Asked

LEMMA InitSystemInv == Init => SystemInv
<1> SUFFICES ASSUME Init
             PROVE  SystemInv
  OBVIOUS
<1> USE DEF Init, ShellInit, ServerInit, NoShell, Alive
<1>1. TypeInv
  BY EmptySeq
  DEF TypeInv, ShellTyped, MessagesTyped, ServerTyped, NoTasks, NoneGathered,
      States
<1>2. SocketInv
  BY DEF SocketInv, Waits, Testing
<1>3. ConnectionInv
  BY DEF ConnectionInv
<1>4. ServerTaskLives
  BY DEF ServerTaskLives, Bound, Loaded, ToSet
<1>5. TaskInv
  BY Tasks DEF TaskInv, Runs, NoTasks, Testing
<1> QED
  BY <1>1, <1>2, <1>3, <1>4, <1>5 DEF SystemInv

-----------------------------------------------------------------------------
(* Steps of the shell.  The server and its messages stay as they are. *)

LEMMA ServerUntouched ==
  ASSUME SystemInv, UNCHANGED <<serverVars, inbound>>,
         session' \in Nat, session' >= session
  PROVE  MessagesTyped' /\ ServerTyped' /\ ServerTaskLives'
<1>1. MessagesTyped'
  <2>1. \A m \in inbound : m.session \in Int /\ m.session <= session
    BY DEF SystemInv, TypeInv, MessagesTyped, Messages
  <2>2. session \in Nat
    BY DEF SystemInv, TypeInv, ShellTyped
  <2> QED
    BY <2>1, <2>2 DEF SystemInv, TypeInv, MessagesTyped
<1>2. ServerTyped' /\ ServerTaskLives'
  BY DEF SystemInv, TypeInv, ServerTyped, ServerTaskLives, Bound, Loaded,
         serverVars
<1> QED
  BY <1>1, <1>2

LEMMA StartKeeps ==
  ASSUME SystemInv, StartShell \/ StartTest, UNCHANGED <<serverVars, inbound>>
  PROVE  SystemInv'
<1> USE DEF StartProcess
<1>0. PICK state \in {Prompt, Testing}, tasks \in [TaskIds -> {"none", "created"}] :
      /\ StartProcess(state, tasks)
      /\ \A s \in Shutdowns : tasks[s] = "none"
      /\ state = Prompt => tasks = NoTasks
  <2>1. CASE StartShell
    BY <2>1, Tasks DEF StartShell, NoTasks
  <2>2. CASE StartTest
    BY <2>2, Tasks DEF StartTest, NoTasks, Prompt, Testing
  <2> QED
    BY <2>1, <2>2
<1>1. session \in Nat
  BY DEF SystemInv, TypeInv, ShellTyped
<1>2. MessagesTyped' /\ ServerTyped' /\ ServerTaskLives'
  BY <1>0, <1>1, ServerUntouched
<1>3. ShellTyped'
  BY <1>0, <1>1, EmptySeq DEF ShellTyped, States, NoneGathered
<1>4. Own' = {}
  BY <1>0, <1>1 DEF Own, SystemInv, TypeInv, MessagesTyped, Messages
<1>5. SocketInv'
  BY <1>0, <1>4, Tasks DEF SocketInv, Nowhere, Waits, Prompt, Testing, Alive, NoTasks
<1>6. ConnectionInv'
  BY <1>4 DEF ConnectionInv
<1>7. TaskInv'
  BY <1>0, Tasks DEF TaskInv, Runs, NoTasks, Prompt, Testing
<1> QED
  BY <1>2, <1>3, <1>5, <1>6, <1>7 DEF SystemInv, TypeInv

\* The end of the process, with or without tasks.
LEMMA EndKeeps ==
  ASSUME SystemInv, UNCHANGED <<serverVars, inbound>>,
         NEW state, state.at \notin {"prompt", "awaiting", "testing"},
         EndProcess(state), task' \in [TaskIds -> States],
         \A t \in TaskIds : ~Runs(t)'
  PROVE  SystemInv'
<1> USE DEF EndProcess
<1>1. session \in Nat /\ test_at' = 0
  BY DEF SystemInv, TypeInv, ShellTyped
<1>2. MessagesTyped' /\ ServerTyped' /\ ServerTaskLives'
  BY <1>1, ServerUntouched
<1>3. ~Alive' /\ shell' # Testing /\ shell'.at # "awaiting"
  BY DEF Alive, Testing
<1>4. ShellTyped'
  BY <1>1, <1>3, EmptySeq DEF ShellTyped, NoneGathered
<1>5. SocketInv' /\ ConnectionInv'
  BY <1>3 DEF SocketInv, ConnectionInv, Waits
<1>6. TaskInv'
  BY <1>3, Tasks DEF TaskInv, Runs
<1> QED
  BY <1>2, <1>4, <1>5, <1>6 DEF SystemInv, TypeInv

LEMMA PromptEndKeeps ==
  ASSUME SystemInv, UNCHANGED <<serverVars, inbound>>,
         \/ Interrupt
         \/ \E line \in Lines : CommandRaises(line) \/ Quit(line)
  PROVE  SystemInv'
<1>1. PICK state : /\ state.at \notin {"prompt", "awaiting", "testing"}
                   /\ EndProcess(state)
  BY DEF Interrupt, CommandRaises, Quit, NoShell, Crashed
<1>2. shell # Testing /\ UNCHANGED task
  BY ShellFacts DEF Interrupt, CommandRaises, Quit, Testing
<1>3. task \in [TaskIds -> States] /\ \A t \in TaskIds : ~Runs(t)
  BY <1>2 DEF SystemInv, TypeInv, ShellTyped, TaskInv
<1> QED
  BY <1>1, <1>2, <1>3, EndKeeps DEF Runs

LEMMA RefuseKeeps ==
  ASSUME SystemInv, UNCHANGED <<shellVars, serverVars, inbound>>
  PROVE  SystemInv'
<1>1. session' \in Nat /\ session' >= session
  BY DEF SystemInv, TypeInv, ShellTyped, shellVars
<1>2. MessagesTyped' /\ ServerTyped' /\ ServerTaskLives'
  BY <1>1, ServerUntouched
<1>3. ShellTyped'
  BY DEF SystemInv, TypeInv, ShellTyped, Alive, shellVars, socketVars, loopVars
<1>4. SocketInv' /\ ConnectionInv' /\ TaskInv'
  BY DEF SystemInv, SocketInv, ConnectionInv, TaskInv, Alive, Nowhere, Asked,
         InOnePlace, Waits, Message, Identity, Awaited, Own, Runs, Connected,
         shellVars, socketVars, loopVars, serverVars, connectionVars
<1> QED
  BY <1>2, <1>3, <1>4 DEF SystemInv, TypeInv

\* A message is sent where none is under way.
LEMMA ExecuteKeeps ==
  ASSUME SystemInv, UNCHANGED <<serverVars, inbound>>,
         NEW line \in Lines, ExecuteCommand(line)
  PROVE  SystemInv'
<1> USE DEF ExecuteCommand, Send
<1> DEFINE transaction == Transaction(line)
           message == [identity |-> Identity(session), session |-> session,
                       transaction |-> transaction]
<1>1. session' = session /\ session \in Nat /\ session > 0 /\ UNCHANGED loopVars
  BY ShellFacts DEF SystemInv, TypeInv, ShellTyped
<1>2. MessagesTyped' /\ ServerTyped' /\ ServerTaskLives'
  BY <1>1, ServerUntouched
<1>3. transaction \in Seq(Int)
  BY TransactionOfIntegers DEF IsRefused
<1>4. shell' = Awaiting(transaction) /\ shell'.at = "awaiting" /\ Alive'
      /\ shell'.transaction = transaction
  BY DEF Awaiting, Alive
<1> HIDE DEF transaction
<1>5. message \in Messages
  BY <1>1, <1>3 DEF Messages, Identity
<1>6. Nowhere
  BY ShellFacts DEF SystemInv, SocketInv, Asked, Prompt
<1>7. outgoing' = <<message>> /\ Message' = message /\ incoming' = << >>
  BY <1>1, <1>4, <1>6, OneElement
  DEF Nowhere, transaction, Message, Awaited, Identity
<1>8. ShellTyped'
  BY <1>1, <1>5, <1>7 DEF SystemInv, TypeInv, ShellTyped, loopVars
<1>9. SocketInv' /\ ConnectionInv'
  BY <1>1, <1>4, <1>6, <1>7
  DEF SocketInv, ConnectionInv, Nowhere, Asked, InOnePlace, Own
<1>10. TaskInv'
  BY <1>1, <1>4, ShellFacts DEF SystemInv, TaskInv, Runs, Testing, loopVars
<1> QED
  BY <1>2, <1>8, <1>9, <1>10 DEF SystemInv, TypeInv

\* Where a message has arrived, it is the answer that was awaited.
LEMMA Arrived ==
  ASSUME SystemInv, incoming # << >>
  PROVE  /\ Alive /\ Asked /\ incoming = <<Message>>
         /\ outgoing = << >> /\ Own = {} /\ Tail(incoming) = << >>
BY OneElement DEF SystemInv, SocketInv, Nowhere, InOnePlace

LEMMA ShowKeeps ==
  ASSUME SystemInv, UNCHANGED <<serverVars, inbound>>, ShowResponse
  PROVE  SystemInv'
<1> USE DEF ShowResponse
<1>1. session' = session /\ session \in Nat /\ session > 0 /\ UNCHANGED loopVars
  BY ShellFacts DEF SystemInv, TypeInv, ShellTyped
<1>2. MessagesTyped' /\ ServerTyped' /\ ServerTaskLives'
  BY <1>1, ServerUntouched
<1>3. Alive' /\ shell'.at = "prompt" /\ shell' # Testing
  BY DEF Alive, Prompt, Testing
<1>4. ShellTyped'
  BY <1>1 DEF SystemInv, TypeInv, ShellTyped, loopVars
<1>5. Nowhere'
  BY <1>1, Arrived DEF Nowhere, Own
<1>6. SocketInv' /\ ConnectionInv'
  BY <1>3, <1>5 DEF SocketInv, ConnectionInv, Waits, Nowhere
<1>7. TaskInv'
  BY <1>1, <1>3, ShellFacts DEF SystemInv, TaskInv, Runs, loopVars
<1> QED
  BY <1>2, <1>4, <1>6, <1>7 DEF SystemInv, TypeInv

LEMMA SendTestKeeps ==
  ASSUME SystemInv, UNCHANGED <<serverVars, inbound>>, SendTest
  PROVE  SystemInv'
<1> USE DEF SendTest, Send
<1> DEFINE message == [identity |-> Identity(session), session |-> session,
                       transaction |-> TestTransactions[test_at']]
<1>1. session' = session /\ session \in Nat /\ session > 0
  BY ShellFacts DEF SystemInv, TypeInv, ShellTyped
<1>2. MessagesTyped' /\ ServerTyped' /\ ServerTaskLives'
  BY <1>1, ServerUntouched
<1>3. test_at' \in Nat /\ message \in Messages
  BY <1>1, TestTransactionOfIntegers
  DEF SystemInv, TypeInv, ShellTyped, Messages, Identity
<1>4. /\ task \in [TaskIds -> States]
      /\ task' = [task EXCEPT ![TestLoop] = "waiting"]
      /\ task'[TestLoop] = "waiting"
  BY Tasks DEF SystemInv, TypeInv, ShellTyped
<1>5. Alive /\ Alive' /\ shell' = Testing /\ shell'.at # "awaiting"
  BY ShellFacts DEF Alive
<1>6. Nowhere
  BY ShellFacts DEF SystemInv, SocketInv, Asked
<1>7. outgoing' = <<message>> /\ Message' = message /\ incoming' = << >>
  BY <1>1, <1>5, <1>6, OneElement DEF Nowhere, Message, Awaited, Identity
<1>8. ShellTyped'
  BY <1>1, <1>3, <1>4, <1>7 DEF SystemInv, TypeInv, ShellTyped, States
<1>9. SocketInv' /\ ConnectionInv'
  BY <1>1, <1>4, <1>5, <1>6, <1>7
  DEF SocketInv, ConnectionInv, Nowhere, Asked, InOnePlace, Own
<1>10. TaskInv'
  BY <1>4, <1>5, Tasks DEF SystemInv, TaskInv, Runs
<1> QED
  BY <1>2, <1>8, <1>9, <1>10 DEF SystemInv, TypeInv

LEMMA GotResponseKeeps ==
  ASSUME SystemInv, UNCHANGED <<serverVars, inbound>>, GotResponse
  PROVE  SystemInv'
<1> USE DEF GotResponse
<1>1. session' = session /\ session \in Nat /\ session > 0
  BY ShellFacts DEF SystemInv, TypeInv, ShellTyped
<1>2. MessagesTyped' /\ ServerTyped' /\ ServerTaskLives'
  BY <1>1, ServerUntouched
<1>3. /\ task \in [TaskIds -> States]
      /\ task' = [task EXCEPT ![TestLoop] = "sleeping"]
      /\ task'[TestLoop] = "sleeping"
  BY Tasks DEF SystemInv, TypeInv, ShellTyped
<1>4. Alive' /\ shell' = Testing /\ shell'.at # "awaiting"
  BY ShellFacts DEF Alive
<1>5. ShellTyped'
  BY <1>1, <1>3 DEF SystemInv, TypeInv, ShellTyped, States
<1>6. Nowhere'
  BY <1>1, Arrived DEF Nowhere, Own
<1>7. SocketInv' /\ ConnectionInv'
  BY <1>3, <1>4, <1>6 DEF SocketInv, ConnectionInv, Waits, Nowhere
<1>8. TaskInv'
  BY <1>3, <1>4, Tasks DEF SystemInv, TaskInv, Runs
<1> QED
  BY <1>2, <1>5, <1>7, <1>8 DEF SystemInv, TypeInv

\* Steps of tasks that send and receive nothing: the test loop stays as it is,
\* or ends.
LEMMA SocketUntouched ==
  ASSUME SystemInv, UNCHANGED <<serverVars, inbound>>,
         UNCHANGED <<session, shell, socketVars, test_at>>,
         shell = Testing,
         task'[TestLoop] = task[TestLoop] \/ task'[TestLoop] = "done"
  PROVE  SocketInv' /\ ConnectionInv'
<1>1. Alive /\ Alive' /\ shell.at # "awaiting"
  BY ShellFacts DEF Alive
<1>2. Message' = Message /\ Own' = Own
  BY <1>1 DEF Message, Awaited, Identity, Own, socketVars
<1>3. (Asked => Asked') /\ (Waits' => Waits)
  BY <1>1 DEF Asked, Waits
<1> QED
  BY <1>1, <1>2, <1>3
  DEF SystemInv, SocketInv, ConnectionInv, Nowhere, InOnePlace, Connected,
      socketVars, serverVars, connectionVars

LEMMA SignalKeeps ==
  ASSUME SystemInv, UNCHANGED <<serverVars, inbound>>,
         NEW s \in Shutdowns, Signal(s) \/ TestLoopFails(s)
  PROVE  SystemInv'
<1>1. /\ task \in [TaskIds -> States] /\ shell = Testing /\ task[s] = "none"
      /\ UNCHANGED <<session, shell, commands, socketVars, cancelled, gathered,
                     test_at>>
  BY DEF SystemInv, TypeInv, ShellTyped, Signal, TestLoopFails, NextShutdown
<1>2. /\ task' \in [TaskIds -> States]
      /\ \A t \in Shutdowns : task'[t] = IF t = s THEN "created" ELSE task[t]
      /\ task'[TestLoop] = task[TestLoop] \/ task'[TestLoop] = "done"
  BY <1>1, Tasks DEF Signal, TestLoopFails, States
<1>3. session' \in Nat /\ session' >= session
  BY <1>1 DEF SystemInv, TypeInv, ShellTyped
<1>4. MessagesTyped' /\ ServerTyped' /\ ServerTaskLives'
  BY <1>3, ServerUntouched
<1>5. ShellTyped'
  BY <1>1, <1>2 DEF SystemInv, TypeInv, ShellTyped, Alive, socketVars
<1>6. SocketInv' /\ ConnectionInv'
  BY <1>1, <1>2, SocketUntouched
<1>7. TaskInv'
  <2>1. \A t \in TaskIds : t \in Shutdowns \/ t = TestLoop
    BY DEF TaskIds
  <2> QED
    BY <1>1, <1>2, <2>1, Tasks DEF SystemInv, TaskInv, Runs
<1> QED
  BY <1>4, <1>5, <1>6, <1>7 DEF SystemInv, TypeInv

LEMMA EndCancelledKeeps ==
  ASSUME SystemInv, UNCHANGED <<serverVars, inbound>>,
         NEW t \in TaskIds, EndCancelled(t)
  PROVE  SystemInv'
<1> USE DEF EndCancelled
<1>1. /\ task \in [TaskIds -> States] /\ shell = Testing
      /\ \A u \in TaskIds : task'[u] = IF u = t THEN "done" ELSE task[u]
      /\ task' \in [TaskIds -> States]
  BY DEF SystemInv, TypeInv, ShellTyped, States
<1>2. session' \in Nat /\ session' >= session
  BY DEF SystemInv, TypeInv, ShellTyped
<1>3. MessagesTyped' /\ ServerTyped' /\ ServerTaskLives'
  BY <1>2, ServerUntouched
<1>4. ShellTyped'
  BY <1>1 DEF SystemInv, TypeInv, ShellTyped, Alive, socketVars
<1>5. SocketInv' /\ ConnectionInv'
  BY <1>1, Tasks, SocketUntouched
<1>6. TaskInv'
  BY <1>1, Tasks DEF SystemInv, TaskInv, Runs
<1> QED
  BY <1>3, <1>4, <1>5, <1>6 DEF SystemInv, TypeInv

\* A loop that is stopped has no other task: whoever stops it awaited them.
LEMMA StopLoopKeeps ==
  ASSUME SystemInv, UNCHANGED <<serverVars, inbound>>,
         NEW s \in Shutdowns, StopLoop(s),
         \A t \in TaskIds \ {s} : ~Runs(t)
  PROVE  SystemInv'
<1> USE DEF StopLoop
<1>1. /\ task \in [TaskIds -> States] /\ task' = [task EXCEPT ![s] = "done"]
      /\ task' \in [TaskIds -> States]
  BY DEF SystemInv, TypeInv, ShellTyped, States
<1>2. \A t \in TaskIds : ~Runs(t)'
  BY <1>1, Tasks DEF Runs
<1>3. EndProcess(NoShell) /\ NoShell.at \notin {"prompt", "awaiting", "testing"}
  BY DEF NoShell
<1> QED
  BY <1>1, <1>2, <1>3, EndKeeps

LEMMA FinishShutdownKeeps ==
  ASSUME SystemInv, UNCHANGED <<serverVars, inbound>>,
         NEW s \in Shutdowns, FinishShutdown(s)
  PROVE  SystemInv'
<1>1. \A t \in TaskIds \ {s} : ~Runs(t)
  BY DEF FinishShutdown, Gathered, SystemInv, TaskInv, Runs
<1> QED
  BY <1>1, StopLoopKeeps DEF FinishShutdown

LEMMA BeginShutdownKeeps ==
  ASSUME SystemInv, UNCHANGED <<serverVars, inbound>>,
         NEW s \in Shutdowns, BeginShutdown(s)
  PROVE  SystemInv'
<1> USE DEF BeginShutdown
<1>1. \A t \in TaskIds \ {s} : Runs(t) => t \in Others(s)
  BY DEF Runs, Others, Unfinished
<1>2. CASE Others(s) = {}
  BY <1>1, <1>2, StopLoopKeeps
<1>3. CASE Others(s) # {}
  <2>1. /\ task \in [TaskIds -> States] /\ shell = Testing
        /\ \A u \in TaskIds :
             task'[u] = IF u = s THEN "gathering" ELSE task[u]
        /\ task' \in [TaskIds -> States]
        /\ UNCHANGED <<session, shell, commands, socketVars, test_at>>
    BY <1>3, Tasks DEF SystemInv, TypeInv, ShellTyped, States
  <2>2. session' \in Nat /\ session' >= session
    BY <2>1 DEF SystemInv, TypeInv, ShellTyped
  <2>3. MessagesTyped' /\ ServerTyped' /\ ServerTaskLives'
    BY <2>2, ServerUntouched
  <2>4. Others(s) \subseteq TaskIds
    BY DEF Others, Unfinished
  <2>5. ShellTyped'
    BY <1>3, <2>1, <2>4 DEF SystemInv, TypeInv, ShellTyped, Alive, socketVars
  <2>6. SocketInv' /\ ConnectionInv'
    BY <2>1, Tasks, SocketUntouched
  <2>7. TaskInv'
    <3>1. /\ gathered \in [Shutdowns -> SUBSET TaskIds]
          /\ gathered' = [gathered EXCEPT ![s] = Others(s)]
          /\ cancelled' = cancelled \cup Others(s)
      BY <1>3 DEF SystemInv, TypeInv, ShellTyped
    <3>2. ASSUME NEW r \in Shutdowns, task'[r] = "gathering", r \notin cancelled',
                 NEW t \in TaskIds \ {r}, Runs(t)'
          PROVE  t \in gathered'[r]
      <4>1. r = s
        BY <2>1, <3>1, <3>2, Tasks DEF Others, Unfinished
      <4>2. Runs(t)
        BY <2>1, <3>2, <4>1 DEF Runs
      <4> QED
        BY <1>1, <3>1, <4>1, <4>2
    <3> QED
      BY <2>1, <3>2 DEF TaskInv
  <2> QED
    BY <2>3, <2>5, <2>6, <2>7 DEF SystemInv, TypeInv
<1> QED
  BY <1>2, <1>3

-----------------------------------------------------------------------------
(* Messages between the shell and the server *)

LEMMA TransmitKeeps ==
  ASSUME SystemInv, Transmit
  PROVE  SystemInv'
<1> USE DEF Transmit
<1>1. /\ session' = session /\ session \in Nat
      /\ UNCHANGED <<shell, incoming, lost, loopVars, serverVars>>
  BY DEF SystemInv, TypeInv, ShellTyped
<1>2. Alive /\ Asked /\ outgoing = <<Message>> /\ incoming = << >> /\ Own = {}
  BY DEF SystemInv, SocketInv, Nowhere, InOnePlace
<1>3. Message \in Messages
  BY <1>2 DEF SystemInv, TypeInv, ShellTyped
<1>4. /\ outgoing' = << >> /\ inbound' = inbound \cup {Message}
      /\ Message' = Message /\ Message.session = session
      /\ Message.identity = session
  BY <1>1, <1>2, OneElement DEF Message, Awaited, Identity, loopVars
<1>5. Own' = {Message}
  BY <1>1, <1>2, <1>4 DEF Own
<1>6. ShellTyped'
  BY <1>1, <1>4, EmptySeq DEF SystemInv, TypeInv, ShellTyped, Alive, loopVars
<1>7. MessagesTyped'
  BY <1>1, <1>3, <1>4 DEF SystemInv, TypeInv, MessagesTyped
<1>8. SocketInv'
  BY <1>1, <1>2, <1>4, <1>5 DEF SocketInv, InOnePlace, Asked, Alive, loopVars
<1>9. ConnectionInv' /\ ServerTyped' /\ ServerTaskLives'
  BY <1>1 DEF SystemInv, TypeInv, ConnectionInv, Connected, ServerTyped,
              ServerTaskLives, Bound, Loaded, serverVars, connectionVars
<1>10. TaskInv'
  BY <1>1 DEF SystemInv, TaskInv, Runs, loopVars
<1> QED
  BY <1>6, <1>7, <1>8, <1>9, <1>10 DEF SystemInv, TypeInv

\* An answer reaches the process that sent the message, or nobody; and no
\* message that a shell sends is a TypeError for the server.
LEMMA ServeKeeps ==
  ASSUME SystemInv, NEW message \in inbound, Serve(message)
  PROVE  SystemInv'
<1> USE DEF Serve
<1>1. /\ UNCHANGED <<session, shell, outgoing, lost, loopVars, to_load,
                     adapters, connectionVars>>
      /\ inbound' = inbound \ {message} /\ session \in Nat
  BY DEF SystemInv, TypeInv, ShellTyped
<1>2. message \in Messages /\ message.identity = message.session
  BY DEF SystemInv, TypeInv, MessagesTyped
<1>3. serving'
  <2>1. message.transaction \in Seq(Int)
    BY <1>2 DEF Messages
  <2>2. \A i \in DOMAIN message.transaction : message.transaction[i] \in Int
    BY <2>1
  <2> QED
    BY <2>2, ShellAssumption DEF RaisesTypeError
<1>4. incoming' = IF Alive /\ Connected(session) /\ session = message.session
                  THEN Append(incoming, message) ELSE incoming
  BY <1>2, <1>3 DEF Respond, Deliver, Identity
<1>5. Message' = Message /\ (Asked' <=> Asked) /\ (Waits' <=> Waits)
      /\ (Alive' <=> Alive)
  BY <1>1 DEF Message, Awaited, Identity, Asked, Waits, Alive, loopVars
<1>6. SocketInv'
  <2>1. CASE message \in Own /\ Alive
    <3>1. Asked /\ outgoing = << >> /\ incoming = << >> /\ Own = {Message}
          /\ message = Message
      BY <2>1 DEF SystemInv, SocketInv, Nowhere, InOnePlace
    <3>2. Connected(session) /\ session = message.session
      BY <2>1 DEF SystemInv, ConnectionInv, Own
    <3>3. incoming' = <<Message>>
      BY <1>4, <2>1, <3>1, <3>2, OneElement
    <3>4. Own' = {}
      BY <1>1, <3>1 DEF Own
    <3> QED
      BY <1>1, <1>5, <2>1, <3>1, <3>3, <3>4 DEF SocketInv, InOnePlace
  <2>2. CASE ~(message \in Own /\ Alive)
    <3>1. incoming' = incoming
      BY <1>4, <2>2 DEF Own
    <3>2. Alive => Own' = Own
      BY <1>1, <2>2 DEF Own
    <3>3. Waits => Alive
      BY ShellFacts
    <3> QED
      BY <1>1, <1>5, <3>1, <3>2, <3>3
      DEF SystemInv, SocketInv, Nowhere, InOnePlace
  <2> QED
    BY <2>1, <2>2
<1>7. ConnectionInv'
  BY <1>1, <1>5 DEF SystemInv, ConnectionInv, Own, Connected, connectionVars
<1>8. TypeInv' /\ ServerTaskLives'
  BY <1>1, <1>3, <1>5
  DEF SystemInv, TypeInv, ShellTyped, MessagesTyped, ServerTyped,
      ServerTaskLives, loopVars
<1>9. TaskInv'
  BY <1>1 DEF SystemInv, TaskInv, Runs, loopVars
<1> QED
  BY <1>6, <1>7, <1>8, <1>9 DEF SystemInv

LEMMA StopsServerKeeps ==
  ASSUME SystemInv, StopsServer
  PROVE  SystemInv'
<1> USE DEF StopsServer, StopServer
<1>1. /\ UNCHANGED <<session, shell, outgoing, loopVars>>
      /\ inbound' = {} /\ Own' = {}
      /\ incoming' \in {incoming, << >>}
      /\ lost' = (lost \/ incoming' # incoming \/ Own # {})
  BY DEF Own
<1>2. Message' = Message /\ (Asked' <=> Asked) /\ (Waits' <=> Waits)
      /\ (Alive' <=> Alive)
  BY <1>1 DEF Message, Awaited, Identity, Asked, Waits, Alive, loopVars
<1>3. TypeInv'
  BY <1>1, <1>2, EmptySeq
  DEF SystemInv, TypeInv, ShellTyped, MessagesTyped, ServerTyped, loopVars
<1>4. SocketInv'
  <2>1. SocketInv
    BY DEF SystemInv
  <2>2. ~Alive' => outgoing' = << >> /\ incoming' = << >>
    BY <1>1, <1>2, <2>1 DEF SocketInv
  <2>3. Alive' => Nowhere' \/ (Asked' /\ InOnePlace')
    BY <1>1, <1>2, <2>1 DEF SocketInv, Nowhere, InOnePlace
  <2>4. Waits' /\ ~lost' => InOnePlace'
    <3>1. ASSUME Waits', ~lost'
          PROVE  InOnePlace'
      <4>1. Waits /\ ~lost /\ incoming' = incoming /\ Own = {}
        BY <1>1, <1>2, <3>1
      <4> QED
        BY <1>1, <1>2, <2>1, <4>1 DEF SocketInv, InOnePlace
    <3> QED
      BY <3>1
  <2> QED
    BY <2>2, <2>3, <2>4 DEF SocketInv
<1>5. ConnectionInv'
  BY <1>1 DEF ConnectionInv
<1>6. ServerTaskLives'
  BY DEF ServerTaskLives, Bound, Loaded, ToSet
<1>7. TaskInv'
  BY <1>1 DEF SystemInv, TaskInv, Runs, loopVars
<1> QED
  BY <1>3, <1>4, <1>5, <1>6, <1>7 DEF SystemInv

-----------------------------------------------------------------------------
(* Steps of the server alone *)

LEMMA ShellUntouched ==
  ASSUME SystemInv, UNCHANGED <<shellVars, inbound>>
  PROVE  /\ ShellTyped' /\ MessagesTyped' /\ SocketInv' /\ TaskInv'
         /\ (Alive' <=> Alive) /\ Own' = Own /\ session' = session
<1>1. /\ UNCHANGED <<session, shell, outgoing, incoming, lost, task, cancelled,
                     gathered, test_at, inbound>>
  BY DEF shellVars, socketVars, loopVars
<1>2. Message' = Message /\ (Asked' <=> Asked) /\ (Waits' <=> Waits)
      /\ (Alive' <=> Alive) /\ Own' = Own
  BY <1>1 DEF Message, Awaited, Identity, Asked, Waits, Alive, Own
<1>3. ShellTyped' /\ MessagesTyped'
  BY <1>1, <1>2 DEF SystemInv, TypeInv, ShellTyped, MessagesTyped
<1>4. SocketInv'
  BY <1>1, <1>2 DEF SystemInv, SocketInv, Nowhere, InOnePlace
<1>5. TaskInv'
  BY <1>1 DEF SystemInv, TaskInv, Runs
<1> QED
  BY <1>1, <1>2, <1>3, <1>4, <1>5

\* The server task starts with the emulator's adapter; a PUT to the detector
\* does not touch it.
LEMMA ServerLoopKeeps ==
  ASSUME SystemInv, UNCHANGED <<shellVars, inbound>>,
         StartServer \/ ServerLoop \/ DetectorPut
  PROVE  SystemInv'
<1>1. UNCHANGED sockets
  BY DEF ServerLoop, StartServer, LoadAdapter, AdapterFails, Initialize,
         MonitorEvent, DetectorPut, connectionVars
<1>2. ConnectionInv'
  BY <1>1, ShellUntouched DEF SystemInv, ConnectionInv, Connected
<1>3. to_load \in Seq(Sections) /\ adapters \in Seq(Names)
      /\ (Bound => serving)
  BY DEF SystemInv, TypeInv, ServerTyped, ServerTaskLives
<1>4. ServerTyped' /\ ServerTaskLives'
  <2>1. CASE LoadAdapter
    <3>1. /\ Head(to_load) \in Sections /\ Tail(to_load) \in Seq(Sections)
      BY <1>3, <2>1, HeadTailProperties DEF LoadAdapter
    <3>2. /\ to_load' = Tail(to_load)
          /\ adapters' = Append(adapters, Head(to_load).name)
          /\ serving' = (serving \/ Head(to_load).name = "asic_emulator")
      BY <2>1 DEF LoadAdapter
    <3>3. Head(to_load).name \in Names
      BY <3>1 DEF Names
    <3>4. ToSet(adapters') = ToSet(adapters) \cup {Head(to_load).name}
      BY <1>3, <3>2, ToSetAppend
    <3>5. adapters' \in Seq(Names)
      BY <1>3, <3>2, <3>3, AppendProperties
    <3> QED
      BY <1>3, <3>1, <3>2, <3>4, <3>5
      DEF ServerTyped, ServerTaskLives, Bound, Loaded
  <2>2. CASE AdapterFails
    <3>1. Tail(to_load) \in Seq(Sections)
      BY <1>3, <2>2, HeadTailProperties DEF AdapterFails
    <3> QED
      BY <1>3, <2>2, <3>1
      DEF AdapterFails, ServerTyped, ServerTaskLives, Bound, Loaded
  <2>3. CASE StartServer
    BY <1>3, <2>3, ServerAssumption
    DEF StartServer, ServerTyped, ServerTaskLives, Bound, Loaded
  <2>4. CASE Initialize \/ MonitorEvent \/ DetectorPut
    BY <1>3, <2>4
    DEF Initialize, MonitorEvent, DetectorPut, ServerTyped, ServerTaskLives,
        Bound, Loaded
  <2> QED
    BY <2>1, <2>2, <2>3, <2>4 DEF ServerLoop
<1> QED
  BY <1>2, <1>4, ShellUntouched DEF SystemInv, TypeInv

\* A connection lasts as long as both its ends.
LEMMA ConnectionsKeep ==
  ASSUME SystemInv, UNCHANGED <<shellVars, inbound>>, Connections
  PROVE  SystemInv'
<1>1. UNCHANGED <<to_load, adapters, serving>>
  BY DEF Connections, Accept, Close
<1>2. ServerTyped' /\ ServerTaskLives'
  BY <1>1
  DEF SystemInv, TypeInv, ServerTyped, ServerTaskLives, Bound, Loaded
<1>3. Alive /\ Connected(session) => Connected(session)'
  <2>1. session' = session
    BY ShellUntouched
  <2>2. SUFFICES ASSUME Alive, NEW fd \in DOMAIN sockets, sockets[fd] = session
                 PROVE  fd \in DOMAIN sockets' /\ sockets'[fd] = session
    BY <2>1 DEF Connected, Range
  <2>3. CASE \E p \in 0 .. MaxSessions : Peer(p) /\ Accept(p)
    BY <2>2, <2>3 DEF Accept
  <2>4. CASE \E other \in 1 .. MaxFd :
               other \in DOMAIN sockets /\ ~Peer(sockets[other]) /\ Close(other)
    <3>1. PICK other \in DOMAIN sockets : ~Peer(sockets[other]) /\ Close(other)
      BY <2>4
    <3>2. Peer(session)
      BY <2>2 DEF Peer, Device, SystemInv, TypeInv, ShellTyped
    <3> QED
      BY <2>2, <3>1, <3>2 DEF Close, Restrict
  <2> QED
    BY <2>3, <2>4 DEF Connections
<1>4. ConnectionInv'
  BY <1>3, ShellUntouched DEF SystemInv, ConnectionInv
<1> QED
  BY <1>2, <1>4, ShellUntouched DEF SystemInv, TypeInv

-----------------------------------------------------------------------------
(* The invariant, and what follows from it *)

LEMMA NextKeeps == SystemInv /\ [Next]_vars => SystemInv'
<1> SUFFICES ASSUME SystemInv, [Next]_vars
             PROVE  SystemInv'
  OBVIOUS
<1>1. CASE ShellNext /\ UNCHANGED <<serverVars, inbound>>
  <2>1. CASE StartShell \/ StartTest
    BY <1>1, <2>1, StartKeeps
  <2>2. ASSUME NEW line \in Lines, RefuseCommand(line)
        PROVE  SystemInv'
    BY <1>1, <2>2, RefuseKeeps DEF RefuseCommand
  <2>3. ASSUME NEW line \in Lines, ExecuteCommand(line)
        PROVE  SystemInv'
    BY <1>1, <2>3, ExecuteKeeps
  <2>4. CASE \/ Interrupt
             \/ \E line \in Lines : CommandRaises(line) \/ Quit(line)
    BY <1>1, <2>4, PromptEndKeeps
  <2>5. CASE ShowResponse \/ SendTest \/ GotResponse
    BY <1>1, <2>5, ShowKeeps, SendTestKeeps, GotResponseKeeps
  <2>6. ASSUME NEW s \in Shutdowns,
               \/ Signal(s) \/ TestLoopFails(s)
               \/ BeginShutdown(s) \/ FinishShutdown(s)
        PROVE  SystemInv'
    BY <1>1, <2>6, SignalKeeps, BeginShutdownKeeps, FinishShutdownKeeps
  <2>7. ASSUME NEW t \in TaskIds, EndCancelled(t)
        PROVE  SystemInv'
    BY <1>1, <2>7, EndCancelledKeeps
  <2> QED
    BY <1>1, <2>1, <2>2, <2>3, <2>4, <2>5, <2>6, <2>7 DEF ShellNext
<1>2. CASE ServerNext /\ UNCHANGED <<shellVars, inbound>>
  BY <1>2, ServerLoopKeeps, ConnectionsKeep DEF ServerNext
<1>3. CASE Transmit
  BY <1>3, TransmitKeeps
<1>4. CASE \E message \in inbound : Serve(message)
  BY <1>4, ServeKeeps
<1>5. CASE StopsServer
  BY <1>5, StopsServerKeeps
<1>6. CASE UNCHANGED vars
  BY <1>6, RefuseKeeps DEF vars
<1> QED
  BY <1>1, <1>2, <1>3, <1>4, <1>5, <1>6 DEF Next

LEMMA SystemInvariant == Spec => []SystemInv
<1>1. Init => SystemInv
  BY InitSystemInv
<1>2. SystemInv /\ [Next]_vars => SystemInv'
  BY NextKeeps
<1> QED
  BY <1>1, <1>2, PTL DEF Spec

\* An answer is for the message its process sent last, whatever the processes
\* before it left unanswered.
THEOREM AnswersReachTheirProcess == Spec => []AnswersAreAwaited
<1>1. SystemInv => AnswersAreAwaited
  <2>1. ASSUME SystemInv, NEW i \in DOMAIN incoming
        PROVE  /\ Waits \/ (shell = Testing /\ task[TestLoop] = "done")
               /\ incoming[i] = Message
    <3>1. incoming # << >>
      BY <2>1
    <3>2. Asked /\ incoming = <<Message>>
      BY <2>1, <3>1, Arrived
    <3> QED
      BY <2>1, <3>2 DEF Asked, Waits
  <2> QED
    BY <2>1 DEF AnswersAreAwaited
<1> QED
  BY <1>1, SystemInvariant, PTL

\* A message that is waited for is under way as long as nobody stops the
\* server with it.
THEOREM RequestsSurvive == Spec => []OnlyStopLosesRequests
<1>1. SystemInv => OnlyStopLosesRequests
  BY DEF SystemInv, SocketInv, InOnePlace, Own, Message, OnlyStopLosesRequests
<1> QED
  BY <1>1, SystemInvariant, PTL

\* The server task is there to answer as long as the emulator is, whatever is
\* typed into shells.
THEOREM ServerTaskSurvives == Spec => []ServerTaskLives
<1>1. SystemInv => ServerTaskLives
  BY DEF SystemInv
<1> QED
  BY <1>1, SystemInvariant, PTL

-----------------------------------------------------------------------------
(* The order of shutdowns *)

IsUnfinished(t) == task[t] \notin {"none", "done"}

\* A shutdown that was created after every one that has begun.
IsLate(t) ==
  /\ t \in Shutdowns /\ task[t] = "created"
  /\ \A r \in Shutdowns :
       r >= t => task[r] \in {"none", "created"} /\ r \notin cancelled

OrderInv ==
  /\ \A r, s \in Shutdowns : r < s /\ task[r] = "none" => task[s] = "none"
  /\ shell = Testing =>
       /\ \A t \in TaskIds \cap cancelled : task[t] # "none"
       /\ \A s \in Shutdowns : task[s] = "gathering" /\ s \notin cancelled =>
            \A t \in TaskIds \ {s} :
              IsUnfinished(t) => t \in gathered[s] \/ IsLate(t)
  /\ StopAwaitsBegunTasks

LEMMA TaskNumbers ==
  /\ \A t \in TaskIds : t \in Nat /\ (t \in Shutdowns \/ t = TestLoop)
  /\ \A s \in Shutdowns : s \in TaskIds /\ s \in Nat /\ s > 0 /\ s # TestLoop
  /\ TestLoop = 0 /\ TestLoop \in TaskIds
BY ShellAssumption DEF TestLoop, TaskIds, Shutdowns

\* A step that touches no task.
LEMMA OrderUntouched ==
  ASSUME OrderInv, UNCHANGED <<shell, task, cancelled, gathered>>
  PROVE  OrderInv'
BY DEF OrderInv, IsUnfinished, IsLate, StopAwaitsBegunTasks

LEMMA OrderAtStart ==
  ASSUME StartShell \/ StartTest
  PROVE  OrderInv'
<1>1. CASE StartShell
  <2>1. shell' = Prompt /\ Prompt # Testing /\ task' = NoTasks
    BY <1>1 DEF StartShell, StartProcess, Prompt, Testing
  <2> QED
    BY <2>1, TaskNumbers DEF OrderInv, StopAwaitsBegunTasks, NoTasks
<1>2. CASE StartTest
  <2>1. /\ shell' = Testing /\ cancelled' = {}
        /\ \A s \in Shutdowns : task'[s] = "none"
    BY <1>2, TaskNumbers DEF StartTest, StartProcess, NoTasks
  <2> QED
    BY <2>1 DEF OrderInv, StopAwaitsBegunTasks
<1> QED
  BY <1>1, <1>2

\* A prompt has no tasks, and its end leaves those there were before.
LEMMA OrderAtPrompt ==
  ASSUME OrderInv,
         \/ ShowResponse \/ Interrupt
         \/ \E line \in Lines :
              \/ RefuseCommand(line) \/ ExecuteCommand(line)
              \/ CommandRaises(line) \/ Quit(line)
  PROVE  OrderInv'
<1>1. shell # Testing /\ shell' # Testing /\ task' = task
  BY DEF ShowResponse, Interrupt, RefuseCommand, ExecuteCommand, CommandRaises,
         Quit, EndProcess, NoShell, Prompt, Testing, Crashed, Awaiting,
         shellVars, loopVars
<1> QED
  BY <1>1 DEF OrderInv, StopAwaitsBegunTasks

\* The test loop goes on, or fails, or a signal arrives.
LEMMA OrderOfLoop ==
  ASSUME OrderInv, task \in [TaskIds -> States], SendTest \/ GotResponse
  PROVE  OrderInv'
<1>1. /\ shell = Testing /\ shell' = Testing
      /\ UNCHANGED <<cancelled, gathered>>
      /\ task[TestLoop] \notin {"none", "done"}
      /\ \A s \in Shutdowns : task'[s] = task[s]
      /\ task'[TestLoop] # "none"
  BY TaskNumbers DEF SendTest, GotResponse
<1>2. \A t \in TaskIds : IsUnfinished(t)' => IsUnfinished(t)
  BY <1>1, TaskNumbers DEF IsUnfinished
<1>3. \A t \in TaskIds : IsLate(t) => IsLate(t)'
  BY <1>1 DEF IsLate
<1>4. \A t \in TaskIds \cap cancelled' : task'[t] # "none"
  BY <1>1, TaskNumbers DEF OrderInv
<1> QED
  BY <1>1, <1>2, <1>3, <1>4 DEF OrderInv, StopAwaitsBegunTasks

LEMMA OrderOfSignals ==
  ASSUME OrderInv, task \in [TaskIds -> States],
         NEW n \in Shutdowns, Signal(n) \/ TestLoopFails(n)
  PROVE  OrderInv'
<1>1. /\ shell = Testing /\ shell' = Testing
      /\ UNCHANGED <<cancelled, gathered>>
      /\ task[n] = "none" /\ \A r \in 1 .. (n - 1) : task[r] # "none"
      /\ \A s \in Shutdowns :
           task'[s] = IF s = n THEN "created" ELSE task[s]
      /\ task'[TestLoop] \in {task[TestLoop], "done"}
  BY TaskNumbers DEF Signal, TestLoopFails, NextShutdown
<1>2. \A s \in Shutdowns : s > n => task[s] = "none"
  BY <1>1 DEF OrderInv
<1>3. n \notin cancelled /\ \A s \in Shutdowns : s >= n => s \notin cancelled
  BY <1>1, <1>2, TaskNumbers DEF OrderInv
<1>4. IsLate(n)'
  BY <1>1, <1>2, <1>3, TaskNumbers DEF IsLate
<1>5. \A t \in TaskIds : IsLate(t) => IsLate(t)'
  BY <1>1 DEF IsLate
<1>6. \A t \in TaskIds \ {n} : IsUnfinished(t)' => IsUnfinished(t)
  BY <1>1, TaskNumbers DEF IsUnfinished
<1>7. \A r, s \in Shutdowns : r < s /\ task'[r] = "none" => task'[s] = "none"
  <2> SUFFICES ASSUME NEW r \in Shutdowns, NEW s \in Shutdowns, r < s,
                      task'[r] = "none"
               PROVE  task'[s] = "none"
    OBVIOUS
  <2>1. r # n /\ task[r] = "none"
    BY <1>1
  <2>2. r > n
    BY <1>1, <2>1 DEF Shutdowns
  <2> QED
    BY <1>1, <1>2, <2>2, TaskNumbers
<1>8. \A t \in TaskIds \cap cancelled' : task'[t] # "none"
  BY <1>1, TaskNumbers DEF OrderInv
<1>9. ASSUME NEW s \in Shutdowns, task'[s] = "gathering", s \notin cancelled',
             NEW t \in TaskIds \ {s}, IsUnfinished(t)'
      PROVE  t \in gathered'[s] \/ IsLate(t)'
  <2>1. task[s] = "gathering" /\ s \notin cancelled
    BY <1>1, <1>9
  <2> QED
    BY <1>1, <1>4, <1>5, <1>6, <1>9, <2>1 DEF OrderInv
<1> QED
  BY <1>1, <1>7, <1>8, <1>9 DEF OrderInv, StopAwaitsBegunTasks

\* A cancelled task ends: it is none of the late ones.
LEMMA OrderOfCancelled ==
  ASSUME OrderInv, task \in [TaskIds -> States],
         NEW c \in TaskIds, EndCancelled(c)
  PROVE  OrderInv'
<1>1. /\ shell = Testing /\ shell' = Testing /\ c \in cancelled
      /\ UNCHANGED <<cancelled, gathered>>
      /\ \A t \in TaskIds : task'[t] = IF t = c THEN "done" ELSE task[t]
  BY DEF EndCancelled
<1>2. task[c] # "none"
  BY <1>1 DEF OrderInv
<1>3. \A t \in TaskIds : IsLate(t) => IsLate(t)'
  BY <1>1, TaskNumbers DEF IsLate
<1>4. \A t \in TaskIds : IsUnfinished(t)' => IsUnfinished(t) /\ t # c
  BY <1>1 DEF IsUnfinished
<1>5. \A s \in Shutdowns : task'[s] = "none" <=> task[s] = "none"
  BY <1>1, <1>2, TaskNumbers
<1> QED
  BY <1>1, <1>3, <1>4, <1>5, TaskNumbers DEF OrderInv, StopAwaitsBegunTasks

\* When a shutdown stops the loop, only late tasks are left, and it is none.
LEMMA OrderAtStop ==
  ASSUME OrderInv, task \in [TaskIds -> States],
         NEW s \in Shutdowns, shell = Testing, task[s] \notin {"none", "done"},
         StopLoop(s),
         \A t \in TaskIds \ {s} :
           IsUnfinished(t) => IsLate(t) /\ task[s] = "gathering"
  PROVE  OrderInv'
<1>1. /\ shell' # Testing
      /\ \A t \in TaskIds : task'[t] = IF t = s THEN "done" ELSE task[t]
  BY DEF StopLoop, EndProcess, NoShell, Testing
<1>2. \A r, t \in Shutdowns : r < t /\ task'[r] = "none" => task'[t] = "none"
  <2>1. \A t \in Shutdowns : task'[t] = "none" <=> task[t] = "none"
    BY <1>1, TaskNumbers
  <2> QED
    BY <2>1 DEF OrderInv
<1>3. ASSUME NEW t \in TaskIds, IsUnfinished(t)'
      PROVE  /\ task'[t] = "created"
             /\ \E r \in Shutdowns : r < t /\ task'[r] = "done"
             /\ \A r \in Shutdowns : task'[r] = "done" => r < t
  <2>1. t # s /\ IsUnfinished(t)
    BY <1>1, <1>3 DEF IsUnfinished
  <2>2. IsLate(t) /\ task[s] = "gathering"
    BY <2>1
  <2>3. ASSUME NEW r \in Shutdowns, task'[r] = "done"
        PROVE  r < t
    <3>1. task[r] \notin {"none", "created"}
      BY <1>1, <2>2, <2>3, TaskNumbers
    <3> QED
      BY <2>2, <3>1, TaskNumbers DEF IsLate
  <2>4. task'[s] = "done"
    BY <1>1, TaskNumbers
  <2> QED
    BY <1>1, <2>1, <2>2, <2>3, <2>4 DEF IsLate
<1> QED
  BY <1>1, <1>2, <1>3 DEF OrderInv, StopAwaitsBegunTasks, IsUnfinished

LEMMA OrderOfShutdowns ==
  ASSUME OrderInv, task \in [TaskIds -> States],
         gathered \in [Shutdowns -> SUBSET TaskIds],
         NEW s \in Shutdowns, BeginShutdown(s) \/ FinishShutdown(s)
  PROVE  OrderInv'
<1>1. CASE FinishShutdown(s)
  <2>1. /\ shell = Testing /\ task[s] = "gathering" /\ s \notin cancelled
        /\ \A t \in gathered[s] : task[t] = "done"
        /\ StopLoop(s)
    BY <1>1 DEF FinishShutdown, Gathered
  <2>2. \A t \in TaskIds \ {s} : IsUnfinished(t) => IsLate(t)
    BY <2>1 DEF OrderInv, IsUnfinished
  <2> QED
    BY <2>1, <2>2, OrderAtStop
<1>2. CASE BeginShutdown(s) /\ Others(s) = {}
  <2>1. \A t \in TaskIds \ {s} : ~IsUnfinished(t)
    BY <1>2 DEF Others, Unfinished, IsUnfinished
  <2> QED
    BY <1>2, <2>1, OrderAtStop DEF BeginShutdown
<1>3. CASE BeginShutdown(s) /\ Others(s) # {}
  <2>1. /\ shell = Testing /\ shell' = Testing /\ task[s] = "created"
        /\ cancelled' = cancelled \cup Others(s)
        /\ gathered' = [gathered EXCEPT ![s] = Others(s)]
        /\ \A t \in TaskIds :
             task'[t] = IF t = s THEN "gathering" ELSE task[t]
    BY <1>3, TaskNumbers DEF BeginShutdown
  <2>2. \A t \in TaskIds : t \in Others(s) <=> t # s /\ IsUnfinished(t)
    BY DEF Others, Unfinished, IsUnfinished
  <2>3. \A t \in TaskIds \ {s} : IsUnfinished(t)' => t \in gathered'[s]
    BY <2>1, <2>2 DEF IsUnfinished
  <2>4. \A r \in Shutdowns :
          task'[r] = "gathering" /\ r \notin cancelled' => r = s
    BY <2>1, <2>2, TaskNumbers DEF IsUnfinished
  <2>5. \A t \in TaskIds \cap cancelled' : task'[t] # "none"
    BY <2>1, <2>2 DEF OrderInv, IsUnfinished
  <2>6. \A t \in Shutdowns : task'[t] = "none" <=> task[t] = "none"
    BY <2>1, TaskNumbers
  <2> QED
    BY <2>1, <2>3, <2>4, <2>5, <2>6 DEF OrderInv, StopAwaitsBegunTasks
<1> QED
  BY <1>1, <1>2, <1>3

LEMMA OrderInvariant == Spec => []OrderInv
<1>1. Init => OrderInv
  BY TaskNumbers
  DEF Init, ShellInit, NoTasks, NoShell, Testing, OrderInv, StopAwaitsBegunTasks
<1>2. SystemInv /\ OrderInv /\ [Next]_vars => OrderInv'
  <2> SUFFICES ASSUME SystemInv, OrderInv, [Next]_vars
               PROVE  OrderInv'
    OBVIOUS
  <2>1. /\ task \in [TaskIds -> States]
        /\ gathered \in [Shutdowns -> SUBSET TaskIds]
    BY DEF SystemInv, TypeInv, ShellTyped
  <2>2. CASE ShellNext
    <3>1. CASE \E t \in TaskIds : EndCancelled(t)
      BY <2>1, <3>1, OrderOfCancelled
    <3>2. CASE \E s \in Shutdowns : BeginShutdown(s) \/ FinishShutdown(s)
      BY <2>1, <3>2, OrderOfShutdowns
    <3>3. CASE \E s \in Shutdowns : Signal(s) \/ TestLoopFails(s)
      BY <2>1, <3>3, OrderOfSignals
    <3>4. CASE StartShell \/ StartTest
      BY <3>4, OrderAtStart
    <3>5. CASE SendTest \/ GotResponse
      BY <2>1, <3>5, OrderOfLoop
    <3>6. CASE \/ ShowResponse \/ Interrupt
               \/ \E line \in Lines :
                    \/ RefuseCommand(line) \/ ExecuteCommand(line)
                    \/ CommandRaises(line) \/ Quit(line)
      BY <3>6, OrderAtPrompt
    <3> QED
      BY <2>2, <3>1, <3>2, <3>3, <3>4, <3>5, <3>6 DEF ShellNext
  <2>3. CASE UNCHANGED <<shell, task, cancelled, gathered>>
    BY <2>3, OrderUntouched
  <2> QED
    BY <2>2, <2>3
    DEF Next, vars, shellVars, loopVars, Transmit, Serve, StopsServer
<1> QED
  BY <1>1, <1>2, SystemInvariant, PTL DEF Spec

\* The shutdown that stops the loop has awaited all tasks that were there when
\* it began, however many signals arrive and shutdowns cancel each other; what
\* is left was created later and has not begun.
THEOREM ShutdownAwaitsBegunTasks == Spec => []StopAwaitsBegunTasks
<1>1. OrderInv => StopAwaitsBegunTasks
  BY DEF OrderInv
<1> QED
  BY <1>1, OrderInvariant, PTL

-----------------------------------------------------------------------------
(* Types, crashes and connections: these invariants need no other.         *)

\* What the shell is doing, as TypeOK and ShellSurvives describe it.
ShellTypeOK ==
  /\ session \in 0 .. MaxSessions /\ commands \in 0 .. MaxCommands
  /\ \/ shell \in {NoShell, Prompt, Testing}
     \/ (shell.at = "awaiting" /\ shell.transaction \in Seq(Int))
     \/ (shell.at = "crashed" /\ shell.line \in Lines)
  /\ cancelled \subseteq TaskIds
  /\ test_at \in 0 .. Len(TestTransactions)

ServerTypeOK ==
  /\ phase \in {"down", "loading", "running"}
  /\ serving \in BOOLEAN /\ lost \in BOOLEAN /\ status \in Values

\* Descriptors of connections, events and clients.
Event == [event : {"accepted", "disconnected"}, value : 1 .. MaxFd]

ConnectionsTypeOK ==
  /\ IsInjective(sockets) /\ DOMAIN sockets \subseteq 1 .. MaxFd
  /\ sockets = [fd \in DOMAIN sockets |-> sockets[fd]]
  /\ events \in Seq(Event)
  /\ clients \subseteq 1 .. MaxFd

\* ReportedClients, what is still in the monitor's queue counted in.
ConnectionsCounted ==
  \A fd \in 1 .. MaxFd :
    fd \in DOMAIN sockets <=>
      \/ /\ fd \in clients
         /\ \A i \in DOMAIN events : events[i].value # fd
      \/ \E i \in DOMAIN events :
           LastEvent(fd, i) /\ events[i].event = "accepted"

LEMMA Bounds ==
  /\ Len(TestTransactions) \in Nat \ {0}
  /\ MaxSessions \in Nat /\ MaxCommands \in Nat
  /\ 0 \in 0 .. Len(TestTransactions)
  /\ 0 \in 0 .. MaxSessions /\ 0 \in 0 .. MaxCommands
<1>1. /\ Len(TestTransactions) \in Nat \ {0}
      /\ MaxSessions \in Nat /\ MaxCommands \in Nat
  BY ShellAssumption, EmptySeq, LenProperties
<1> QED
  BY <1>1

LEMMA InitTypes == Init => ShellTypeOK /\ ServerTypeOK
BY Bounds, ServerAssumption
DEF Init, ShellInit, ServerInit, ShellTypeOK, ServerTypeOK

LEMMA ShellStepTyped ==
  ASSUME ShellTypeOK, lost \in BOOLEAN, ShellNext
  PROVE  ShellTypeOK' /\ lost' \in BOOLEAN
<1> USE DEF ShellTypeOK, socketVars, loopVars, shellVars
<1>1. CASE StartShell \/ StartTest
  <2>1. session' \in 0 .. MaxSessions /\ test_at' \in 0 .. Len(TestTransactions)
    BY <1>1, Bounds DEF StartShell, StartTest, StartProcess
  <2> QED
    BY <1>1, <2>1 DEF StartShell, StartTest, StartProcess
<1>2. ASSUME NEW state, EndProcess(state),
             \/ state = NoShell
             \/ \E line \in Lines : state = Crashed(line)
      PROVE  ShellTypeOK' /\ lost' \in BOOLEAN
  <2>1. \/ shell' = NoShell
        \/ shell'.at = "crashed" /\ shell'.line \in Lines
    BY <1>2 DEF EndProcess, Crashed
  <2>2. test_at' \in 0 .. Len(TestTransactions)
    BY <1>2, Bounds DEF EndProcess
  <2> QED
    BY <1>2, <2>1, <2>2 DEF EndProcess
<1>3. CASE \E line \in Lines : RefuseCommand(line)
  BY <1>3 DEF RefuseCommand, NoShell, Prompt, Testing
<1>4. CASE \E line \in Lines : ExecuteCommand(line)
  <2>1. PICK line \in Lines : ExecuteCommand(line)
    BY <1>4
  <2>2. Transaction(line) \in Seq(Int)
    BY <2>1, TransactionOfIntegers DEF ExecuteCommand, IsRefused
  <2>3. shell'.at = "awaiting" /\ shell'.transaction \in Seq(Int)
    BY <2>1, <2>2 DEF ExecuteCommand, Awaiting
  <2>4. commands' \in 0 .. MaxCommands
    BY <2>1, Bounds DEF ExecuteCommand
  <2> QED
    BY <2>1, <2>3, <2>4 DEF ExecuteCommand, Send
<1>5. CASE \E line \in Lines : CommandRaises(line) \/ Quit(line)
  BY <1>2, <1>5 DEF CommandRaises, Quit
<1>6. CASE ShowResponse
  BY <1>6 DEF ShowResponse
<1>7. CASE Interrupt
  BY <1>2, <1>7 DEF Interrupt
<1>8. CASE SendTest
  <2>1. test_at' \in 0 .. Len(TestTransactions)
    BY <1>8, Bounds DEF SendTest
  <2> QED
    BY <1>8, <2>1 DEF SendTest, Send
<1>9. CASE GotResponse
  BY <1>9 DEF GotResponse, Testing
<1>10. CASE \E s \in Shutdowns : Signal(s) \/ TestLoopFails(s)
  BY <1>10 DEF Signal, TestLoopFails, Testing
<1>11. ASSUME NEW s \in Shutdowns, BeginShutdown(s) \/ FinishShutdown(s)
       PROVE  ShellTypeOK' /\ lost' \in BOOLEAN
  <2>1. CASE StopLoop(s)
    BY <1>2, <2>1 DEF StopLoop
  <2>2. CASE ~StopLoop(s)
    <3>1. /\ cancelled' = cancelled \cup Others(s)
          /\ shell = Testing
          /\ UNCHANGED <<session, shell, commands, socketVars, test_at>>
      BY <1>11, <2>2 DEF BeginShutdown, FinishShutdown
    <3>2. Others(s) \subseteq TaskIds
      BY DEF Others, Unfinished
    <3> QED
      BY <3>1, <3>2
  <2> QED
    BY <2>1, <2>2
<1>12. CASE \E t \in TaskIds : EndCancelled(t)
  BY <1>12 DEF EndCancelled, Testing
<1> QED
  BY <1>1, <1>3, <1>4, <1>5, <1>6, <1>7, <1>8, <1>9, <1>10, <1>11, <1>12
  DEF ShellNext

LEMMA ServerStepTyped ==
  ASSUME ServerTypeOK, ServerNext, UNCHANGED lost
  PROVE  ServerTypeOK'
<1>1. CASE DetectorPut
  <2>1. ASSUME NEW path \in Paths, NEW body \in Bodies
        PROVE  StatusAfter(path, body) \in Values
    <3>1. status \in Values /\ (body.is = "value" => body.value \in Values)
      BY DEF ServerTypeOK, Bodies
    <3>2. DetectorSet(path, body).raises
            \/ DetectorSet(path, body).value \in Values
      BY <3>1 DEF DetectorSet, Returns, Raises
    <3> QED
      BY <3>1, <3>2 DEF StatusAfter
  <2>2. status' \in Values
    BY <1>1, <2>1 DEF DetectorPut
  <2> QED
    BY <1>1, <2>2 DEF DetectorPut, ServerTypeOK
<1>2. CASE ~DetectorPut
  BY <1>2
  DEF ServerTypeOK, ServerNext, StartServer, ServerLoop, LoadAdapter,
      AdapterFails, Initialize, MonitorEvent, Connections, Accept, Close,
      treeVars
<1> QED
  BY <1>1, <1>2

LEMMA TypesKept ==
  ASSUME ShellTypeOK, ServerTypeOK, [Next]_vars
  PROVE  ShellTypeOK' /\ ServerTypeOK'
<1>1. CASE ShellNext /\ UNCHANGED <<serverVars, inbound>>
  BY <1>1, ShellStepTyped DEF ServerTypeOK, serverVars
<1>2. CASE ServerNext /\ UNCHANGED <<shellVars, inbound>>
  BY <1>2, ServerStepTyped
  DEF ShellTypeOK, shellVars, socketVars, loopVars
<1>3. CASE Transmit
  BY <1>3 DEF Transmit, ShellTypeOK, ServerTypeOK, serverVars, loopVars
<1>4. CASE \E message \in inbound : Serve(message)
  <2>1. serving' \in BOOLEAN
    BY <1>4 DEF Serve
  <2> QED
    BY <1>4, <2>1 DEF Serve, ShellTypeOK, ServerTypeOK, loopVars, treeVars
<1>5. CASE StopsServer
  <2>1. lost' \in BOOLEAN
    BY <1>5 DEF StopsServer
  <2> QED
    BY <1>5, <2>1, ServerAssumption
    DEF StopsServer, StopServer, ShellTypeOK, ServerTypeOK, loopVars
<1>6. CASE UNCHANGED vars
  BY <1>6
  DEF vars, ShellTypeOK, ServerTypeOK, shellVars, socketVars, loopVars,
      serverVars
<1> QED
  BY <1>1, <1>2, <1>3, <1>4, <1>5, <1>6 DEF Next

\* A crash has an argument to blame, or the memory a read asked for.
LEMMA CrashesExplained ==
  ASSUME ShellSurvives, [Next]_vars
  PROVE  ShellSurvives'
<1> USE DEF ShellSurvives
<1>1. ASSUME NEW line \in Lines, CommandRaises(line)
      PROVE  ShellSurvives'
  <2>1. /\ line.command # "quit" /\ ~IsRefused(line) /\ SendRaises(line)
        /\ shell' = Crashed(line)
    BY <1>1 DEF CommandRaises, EndProcess
  <2>2. shell'.line = line
    BY <2>1 DEF Crashed
  <2>3. IsTooLong(line)
          \/ \E i \in DOMAIN line.args :
               line.args[i] \notin PackedIntegers \cup {NotInteger}
    BY <2>1, UnpackedArgument
  <2> QED
    BY <2>2, <2>3
<1>2. CASE shell' = shell
  BY <1>2
<1>3. CASE shell'.at # "crashed"
  BY <1>3
<1>4. \/ shell' = shell \/ shell'.at # "crashed"
      \/ \E line \in Lines : CommandRaises(line)
  <2>1. CASE ShellNext
    <3>1. CASE StartShell \/ StartTest
      BY <3>1 DEF StartShell, StartTest, StartProcess, Prompt, Testing
    <3>2. CASE \E line \in Lines : RefuseCommand(line) \/ ExecuteCommand(line)
      BY <3>2 DEF RefuseCommand, ExecuteCommand, shellVars, Awaiting
    <3>3. CASE \E line \in Lines : Quit(line)
      BY <3>3 DEF Quit, EndProcess, NoShell
    <3>4. CASE ShowResponse \/ Interrupt
      BY <3>4 DEF ShowResponse, Interrupt, EndProcess, NoShell, Prompt
    <3>5. CASE SendTest \/ GotResponse
      BY <3>5 DEF SendTest, GotResponse
    <3>6. CASE \E s \in Shutdowns :
                \/ Signal(s) \/ TestLoopFails(s)
                \/ BeginShutdown(s) \/ FinishShutdown(s)
      BY <3>6
      DEF Signal, TestLoopFails, BeginShutdown, FinishShutdown, StopLoop,
          EndProcess, NoShell
    <3>7. CASE \E t \in TaskIds : EndCancelled(t)
      BY <3>7 DEF EndCancelled
    <3> QED
      BY <2>1, <3>1, <3>2, <3>3, <3>4, <3>5, <3>6, <3>7 DEF ShellNext
  <2>2. CASE ~ShellNext
    BY <2>2
    DEF Next, vars, shellVars, Transmit, Serve, StopsServer
  <2> QED
    BY <2>1, <2>2
<1> QED
  BY <1>1, <1>2, <1>3, <1>4

-----------------------------------------------------------------------------
(* Connections                                                             *)

\* Connections and clients as they were.
LEMMA ConnectionsUntouched ==
  ASSUME ConnectionsTypeOK, ConnectionsCounted, UNCHANGED connectionVars
  PROVE  ConnectionsTypeOK' /\ ConnectionsCounted'
BY DEF ConnectionsTypeOK, ConnectionsCounted, LastEvent, connectionVars,
       IsInjective, Event

\* An event at the end of the queue: the last one of its descriptor.
LEMMA EventAdded ==
  ASSUME ConnectionsTypeOK, ConnectionsCounted,
         NEW fd \in 1 .. MaxFd, NEW kind \in {"accepted", "disconnected"},
         events' = Append(events, [event |-> kind, value |-> fd]),
         clients' = clients,
         DOMAIN sockets' =
           IF kind = "accepted" THEN DOMAIN sockets \cup {fd}
           ELSE DOMAIN sockets \ {fd}
  PROVE  events' \in Seq(Event) /\ ConnectionsCounted'
<1> DEFINE n == Len(events)
           e == [event |-> kind, value |-> fd]
<1>1. /\ n \in Nat
      /\ DOMAIN events = 1 .. n
      /\ events' \in Seq(Event)
      /\ DOMAIN events' = 1 .. (n + 1)
      /\ \A i \in 1 .. n : events'[i] = events[i]
      /\ events'[n + 1] = e
  <2>1. e \in Event /\ events \in Seq(Event)
    BY DEF Event, ConnectionsTypeOK
  <2> HIDE DEF e
  <2>2. /\ events' \in Seq(Event)
        /\ Len(events') = n + 1
        /\ \A i \in 1 .. n : events'[i] = events[i]
        /\ events'[n + 1] = e
    BY <2>1, AppendProperties DEF e
  <2> QED
    BY <2>1, <2>2, LenProperties
<1>2. e.event = kind /\ e.value = fd
  OBVIOUS
<1> HIDE DEF n, e
<1>3. ASSUME NEW other \in 1 .. MaxFd
      PROVE  other \in DOMAIN sockets' <=>
               \/ /\ other \in clients'
                  /\ \A i \in DOMAIN events' : events'[i].value # other
               \/ \E i \in DOMAIN events' :
                    LastEvent(other, i)' /\ events'[i].event = "accepted"
  <2>1. CASE other = fd
    <3>1. \A i \in DOMAIN events' : LastEvent(fd, i)' <=> i = n + 1
      BY <1>1, <1>2 DEF LastEvent
    <3>2. n + 1 \in DOMAIN events' /\ events'[n + 1].value = fd
      BY <1>1, <1>2
    <3>3. fd \in DOMAIN sockets' <=> kind = "accepted"
      OBVIOUS
    <3> QED
      BY <1>1, <1>2, <2>1, <3>1, <3>2, <3>3
  <2>2. CASE other # fd
    <3>1. \A i \in DOMAIN events' : events'[i].value = other => i \in 1 .. n
      BY <1>1, <1>2, <2>2
    <3>2. (\A i \in DOMAIN events' : events'[i].value # other)
            <=> (\A i \in DOMAIN events : events[i].value # other)
      BY <1>1, <3>1
    <3>3. \A i \in 1 .. n : LastEvent(other, i)' <=> LastEvent(other, i)
      BY <1>1, <3>1 DEF LastEvent
    <3>4. (\E i \in DOMAIN events' :
             LastEvent(other, i)' /\ events'[i].event = "accepted")
            <=> (\E i \in DOMAIN events :
                   LastEvent(other, i) /\ events[i].event = "accepted")
      BY <1>1, <3>1, <3>3 DEF LastEvent
    <3>5. other \in DOMAIN sockets' <=> other \in DOMAIN sockets
      BY <2>2
    <3> QED
      BY <3>2, <3>4, <3>5 DEF ConnectionsCounted
  <2> QED
    BY <2>1, <2>2
<1> QED
  BY <1>1, <1>3 DEF ConnectionsCounted

LEMMA AcceptKeeps ==
  ASSUME ConnectionsTypeOK, ConnectionsCounted, NEW peer, Accept(peer)
  PROVE  ConnectionsTypeOK' /\ ConnectionsCounted'
<1>1. PICK fd \in (1 .. MaxFd) \ DOMAIN sockets :
        /\ sockets' = [f \in DOMAIN sockets \cup {fd} |->
                         IF f = fd THEN peer ELSE sockets[f]]
        /\ events' = Append(events, [event |-> "accepted", value |-> fd])
  BY DEF Accept
<1>2. clients' = clients /\ ~Connected(peer)
  BY DEF Accept
<1>3. DOMAIN sockets' = DOMAIN sockets \cup {fd}
  BY <1>1
<1>4. events' \in Seq(Event) /\ ConnectionsCounted'
  BY <1>1, <1>2, <1>3, EventAdded
<1>5. IsInjective(sockets')
  BY <1>1, <1>2 DEF ConnectionsTypeOK, IsInjective, Connected, Range
<1>6. sockets' = [f \in DOMAIN sockets' |-> sockets'[f]]
  BY <1>1
<1> QED
  BY <1>2, <1>3, <1>4, <1>5, <1>6 DEF ConnectionsTypeOK, Event

LEMMA CloseKeeps ==
  ASSUME ConnectionsTypeOK, ConnectionsCounted,
         NEW fd \in 1 .. MaxFd, Close(fd)
  PROVE  ConnectionsTypeOK' /\ ConnectionsCounted'
<1>1. /\ sockets' = [f \in DOMAIN sockets \ {fd} |-> sockets[f]]
      /\ events' = Append(events, [event |-> "disconnected", value |-> fd])
      /\ clients' = clients
  BY DEF Close, Restrict
<1>2. DOMAIN sockets' = DOMAIN sockets \ {fd}
  BY <1>1
<1>3. events' \in Seq(Event) /\ ConnectionsCounted'
  BY <1>1, <1>2, EventAdded
<1>4. IsInjective(sockets')
  BY <1>1 DEF ConnectionsTypeOK, IsInjective
<1>5. sockets' = [f \in DOMAIN sockets' |-> sockets'[f]]
  BY <1>1
<1> QED
  BY <1>1, <1>2, <1>3, <1>4, <1>5 DEF ConnectionsTypeOK, Event

\* The first event of the queue takes effect.
LEMMA MonitorKeeps ==
  ASSUME ConnectionsTypeOK, ConnectionsCounted, MonitorEvent
  PROVE  ConnectionsTypeOK' /\ ConnectionsCounted'
<1> DEFINE n == Len(events)
           e == events[1]
<1>1. /\ sockets' = sockets
      /\ events # << >> /\ events \in Seq(Event)
      /\ clients' = AfterEvent(clients, Head(events))
      /\ events' = Tail(events)
  BY DEF MonitorEvent, ConnectionsTypeOK
<1>2. /\ n \in Nat \ {0}
      /\ DOMAIN events = 1 .. n
      /\ events' \in Seq(Event)
      /\ DOMAIN events' = 1 .. (n - 1)
      /\ \A i \in 1 .. (n - 1) : events'[i] = events[i + 1]
      /\ Head(events) = e /\ e \in Event
  <2>1. n \in Nat \ {0} /\ DOMAIN events = 1 .. n
    BY <1>1, EmptySeq, LenProperties
  <2>2. /\ events' \in Seq(Event) /\ Len(events') = n - 1
        /\ \A i \in 1 .. Len(events') : events'[i] = events[i + 1]
        /\ Head(events) = e /\ Head(events) \in Event
    BY <1>1, HeadTailProperties
  <2> HIDE DEF n, e
  <2> QED
    BY <2>1, <2>2, LenProperties
<1>3. /\ e.event \in {"accepted", "disconnected"} /\ e.value \in 1 .. MaxFd
      /\ clients' = IF e.event = "accepted" THEN clients \cup {e.value}
                    ELSE clients \ {e.value}
  BY <1>1, <1>2 DEF Event, AfterEvent
<1> HIDE DEF n, e
<1>4. \A i \in 1 .. n : i = 1 \/ (i - 1 \in 1 .. (n - 1) /\ (i - 1) + 1 = i)
  BY <1>2
<1>5. \A i \in 1 .. (n - 1) : i + 1 \in 1 .. n /\ i + 1 # 1
  BY <1>2
<1>6. 1 \in 1 .. n
  BY <1>2
<1>7. ASSUME NEW fd \in 1 .. MaxFd
      PROVE  fd \in DOMAIN sockets' <=>
               \/ /\ fd \in clients'
                  /\ \A i \in DOMAIN events' : events'[i].value # fd
               \/ \E i \in DOMAIN events' :
                    LastEvent(fd, i)' /\ events'[i].event = "accepted"
  <2>1. (\A i \in DOMAIN events' : events'[i].value # fd)
          <=> \A i \in 1 .. n : i # 1 => events[i].value # fd
    <3>1. ASSUME NEW i \in 1 .. n, i # 1,
                 \A k \in 1 .. (n - 1) : events'[k].value # fd
          PROVE  events[i].value # fd
      <4>1. i - 1 \in 1 .. (n - 1) /\ (i - 1) + 1 = i
        BY <1>4, <3>1
      <4>2. events'[i - 1] = events[i]
        BY <1>2, <4>1
      <4> QED
        BY <3>1, <4>1, <4>2
    <3>2. ASSUME NEW k \in 1 .. (n - 1),
                 \A i \in 1 .. n : i # 1 => events[i].value # fd
          PROVE  events'[k].value # fd
      BY <1>2, <1>5, <3>2
    <3> QED
      BY <1>2, <3>1, <3>2
  <2>2. \A i \in 1 .. (n - 1) :
          (\A j \in 1 .. (n - 1) : events[j + 1].value = fd => j <= i)
            <=> (\A j \in 1 .. n : events[j].value = fd => j <= i + 1)
    <3>1. ASSUME NEW i \in 1 .. (n - 1), NEW j \in 1 .. n,
                 \A k \in 1 .. (n - 1) : events[k + 1].value = fd => k <= i,
                 events[j].value = fd
          PROVE  j <= i + 1
      <4>1. CASE j = 1
        BY <4>1
      <4>2. CASE j # 1
        <5>1. j - 1 \in 1 .. (n - 1) /\ (j - 1) + 1 = j
          BY <1>4, <4>2
        <5>2. j - 1 <= i
          BY <3>1, <5>1
        <5> QED
          BY <5>2
      <4> QED
        BY <4>1, <4>2
    <3>2. ASSUME NEW i \in 1 .. (n - 1), NEW k \in 1 .. (n - 1),
                 \A j \in 1 .. n : events[j].value = fd => j <= i + 1,
                 events[k + 1].value = fd
          PROVE  k <= i
      <4>1. k + 1 <= i + 1
        BY <1>5, <3>2
      <4> QED
        BY <4>1
    <3> QED
      BY <3>1, <3>2
  <2>3. \A i \in 1 .. (n - 1) : LastEvent(fd, i)' <=> LastEvent(fd, i + 1)
    BY <1>2, <2>2 DEF LastEvent
  <2>4. (\E i \in DOMAIN events' :
           LastEvent(fd, i)' /\ events'[i].event = "accepted")
          <=> \E i \in 1 .. n :
                i # 1 /\ LastEvent(fd, i) /\ events[i].event = "accepted"
    <3>1. ASSUME NEW i \in 1 .. n, i # 1, LastEvent(fd, i),
                 events[i].event = "accepted"
          PROVE  \E k \in 1 .. (n - 1) :
                   LastEvent(fd, k)' /\ events'[k].event = "accepted"
      <4>1. i - 1 \in 1 .. (n - 1) /\ (i - 1) + 1 = i
        BY <1>4, <3>1
      <4>2. events'[i - 1] = events[i] /\ LastEvent(fd, i - 1)'
        BY <1>2, <2>3, <3>1, <4>1
      <4> QED
        BY <3>1, <4>1, <4>2
    <3>2. ASSUME NEW k \in 1 .. (n - 1), LastEvent(fd, k)',
                 events'[k].event = "accepted"
          PROVE  \E i \in 1 .. n :
                   i # 1 /\ LastEvent(fd, i) /\ events[i].event = "accepted"
      <4>1. k + 1 \in 1 .. n /\ k + 1 # 1
        BY <1>5
      <4>2. LastEvent(fd, k + 1) /\ events[k + 1].event = "accepted"
        BY <1>2, <2>3, <3>2
      <4> QED
        BY <4>1, <4>2
    <3> QED
      BY <1>2, <3>1, <3>2
  <2>5. LastEvent(fd, 1) <=>
          /\ e.value = fd
          /\ \A i \in 1 .. n : i # 1 => events[i].value # fd
    <3>1. \A i \in 1 .. n : i <= 1 <=> i = 1
      BY <1>2
    <3> QED
      BY <1>2, <3>1 DEF LastEvent, e
  <2>6. fd \in DOMAIN sockets <=>
          \/ /\ fd \in clients
             /\ \A i \in 1 .. n : events[i].value # fd
          \/ \E i \in 1 .. n :
               LastEvent(fd, i) /\ events[i].event = "accepted"
    BY <1>2 DEF ConnectionsCounted
  <2>7. fd \in clients' <=>
          \/ e.value = fd /\ e.event = "accepted"
          \/ e.value # fd /\ fd \in clients
    BY <1>3
  <2>8. fd \in DOMAIN sockets <=>
          \/ /\ fd \in clients /\ e.value # fd
             /\ \A i \in 1 .. n : i # 1 => events[i].value # fd
          \/ LastEvent(fd, 1) /\ e.event = "accepted"
          \/ \E i \in 1 .. n :
               i # 1 /\ LastEvent(fd, i) /\ events[i].event = "accepted"
    BY <1>6, <2>6 DEF e
  <2> QED
    BY <1>1, <2>1, <2>4, <2>5, <2>7, <2>8
<1>8. clients' \subseteq 1 .. MaxFd
  BY <1>3 DEF ConnectionsTypeOK
<1> QED
  BY <1>1, <1>2, <1>7, <1>8 DEF ConnectionsTypeOK, ConnectionsCounted, IsInjective, Event

LEMMA NoConnections ==
  ASSUME sockets = << >>, events = << >>, clients = {}
  PROVE  ConnectionsTypeOK /\ ConnectionsCounted
BY EmptySeq DEF ConnectionsTypeOK, ConnectionsCounted, IsInjective

LEMMA ConnectionsKept ==
  ASSUME ConnectionsTypeOK, ConnectionsCounted, [Next]_vars
  PROVE  ConnectionsTypeOK' /\ ConnectionsCounted'
<1>1. CASE UNCHANGED connectionVars
  BY <1>1, ConnectionsUntouched
<1>2. CASE StopsServer
  <2>1. sockets' = << >> /\ events' = << >> /\ clients' = {}
    BY <1>2 DEF StopsServer, StopServer
  <2> QED
    BY <2>1, EmptySeq DEF ConnectionsTypeOK, ConnectionsCounted, IsInjective
<1>3. CASE MonitorEvent
  BY <1>3, MonitorKeeps
<1>4. CASE Connections
  BY <1>4, AcceptKeeps, CloseKeeps DEF Connections
<1>5. CASE ServerNext /\ ~MonitorEvent /\ ~Connections
  BY <1>1, <1>5
  DEF ServerNext, ServerLoop, StartServer, LoadAdapter, AdapterFails,
      Initialize, DetectorPut
<1>6. CASE Transmit \/ \E message \in inbound : Serve(message)
  BY <1>1, <1>6 DEF Transmit, Serve, serverVars, connectionVars
<1>7. CASE UNCHANGED serverVars
  BY <1>1, <1>7 DEF serverVars, connectionVars
<1> QED
  BY <1>2, <1>3, <1>4, <1>5, <1>6, <1>7 DEF Next, vars

\* The whole of this invariant, and what follows from it.
SideInv ==
  /\ ShellTypeOK /\ ServerTypeOK
  /\ ShellSurvives
  /\ ConnectionsTypeOK /\ ConnectionsCounted

LEMMA SideInvariant == Spec => []SideInv
<1>1. Init => SideInv
  <2> SUFFICES ASSUME Init PROVE SideInv
    OBVIOUS
  <2>1. ShellSurvives
    BY DEF Init, ShellInit, NoShell, ShellSurvives
  <2>2. ConnectionsTypeOK /\ ConnectionsCounted
    BY NoConnections DEF Init, ServerInit
  <2> QED
    BY <2>1, <2>2, InitTypes DEF SideInv
<1>2. SideInv /\ [Next]_vars => SideInv'
  BY TypesKept, CrashesExplained, ConnectionsKept DEF SideInv
<1> QED
  BY <1>1, <1>2, PTL DEF Spec

\* Variables keep their types in every life of the shell and of the server,
\* and a descriptor has one connection, whoever comes and goes.
THEOREM SystemTypeCorrect == Spec => []TypeOK
<1>1. SystemInv /\ SideInv => TypeOK
  BY DEF SystemInv, TypeInv, ShellTyped, States, SideInv, ShellTypeOK,
         ServerTypeOK, ConnectionsTypeOK, TypeOK
<1> QED
  BY <1>1, SystemInvariant, SideInvariant, PTL

\* No line can end the shell but one with an integer that 64 bits do not
\* hold and a read that memory does not: what read and write make of the
\* others can be packed.
THEOREM ShellRefusesTheRest == Spec => []ShellSurvives
<1>1. SideInv => ShellSurvives
  BY DEF SideInv
<1> QED
  BY <1>1, SideInvariant, PTL

\* Each open connection is reported as a client, and nothing else is, once
\* the monitor's queue is empty, however descriptors are used again.
THEOREM ClientsAreConnections == Spec => []ReportedClients
<1>1. SideInv => ReportedClients
  <2> SUFFICES ASSUME SideInv PROVE ReportedClients
    OBVIOUS
  <2>1. ConnectionsTypeOK /\ ConnectionsCounted
    BY DEF SideInv
  <2>2. ASSUME events = << >>
        PROVE  /\ clients = DOMAIN sockets
               /\ connected = (sockets # << >>)
    <3>1. DOMAIN events = {}
      BY <2>2
    <3>2. \A fd \in 1 .. MaxFd : fd \in DOMAIN sockets <=> fd \in clients
      BY <2>1, <3>1 DEF ConnectionsCounted
    <3>3. clients = DOMAIN sockets
      BY <2>1, <3>2 DEF ConnectionsTypeOK
    <3>4. IsFiniteSet(clients)
      <4>1. MaxFd \in Nat
        BY ServerAssumption
      <4> QED
        BY <2>1, <4>1, FS_Interval, FS_Subset DEF ConnectionsTypeOK
    <3>5. Cardinality(clients) > 0 <=> clients # {}
      <4>1. Cardinality(clients) \in Nat
        BY <3>4, FS_CardinalityType
      <4>2. Cardinality(clients) = 0 <=> clients = {}
        BY <3>4, FS_EmptySet
      <4> QED
        BY <4>1, <4>2
    <3>6. DOMAIN sockets # {} <=> sockets # << >>
      <4>1. ASSUME DOMAIN sockets = {} PROVE sockets = << >>
        <5>1. sockets = [fd \in {} |-> sockets[fd]]
          BY <2>1, <4>1 DEF ConnectionsTypeOK
        <5>2. << >> = [fd \in {} |-> sockets[fd]]
          OBVIOUS
        <5> QED
          BY <5>1, <5>2
      <4>2. DOMAIN << >> = {}
        OBVIOUS
      <4> QED
        BY <4>1, <4>2
    <3> QED
      BY <3>3, <3>5, <3>6 DEF connected
  <2>3. ASSUME events = << >>,
               NEW reply \in {EmulatorGet("status", << >>),
                              EmulatorPut("status", [is |-> "empty"], << >>)}
        PROVE  reply.response = [connected |-> sockets # << >>,
                                 clients |-> DOMAIN sockets]
    <3>1. /\ EmulatorTree("status", << >>).raises = FALSE
          /\ EmulatorTree("status", << >>).value =
               [connected |-> connected, clients |-> clients]
      BY DEF EmulatorTree, Returns
    <3>2. ~EmulatorSet("status", [is |-> "empty"]).raises
      BY DEF EmulatorSet, Returns
    <3>3. reply = get(EmulatorTree("status", << >>))
      BY <2>3, <3>2 DEF EmulatorGet, EmulatorPut, put
    <3>4. reply.response = [connected |-> connected, clients |-> clients]
      BY <3>1, <3>3 DEF get
    <3> QED
      BY <2>2, <2>3, <3>4
  <2> QED
    BY <2>1, <2>3 DEF ReportedClients, ConnectionsCounted
<1> QED
  BY <1>1, SideInvariant, PTL
=============================================================================
