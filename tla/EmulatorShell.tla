---------------------------- MODULE EmulatorShell ----------------------------
(***************************************************************************)
(* The emulator's shell (asic_emulator/shell.py) and the client it owns    *)
(* (asic_emulator/client.py): one process at a time, which either reads    *)
(* commands from a prompt or, with --test, runs the client's test loop     *)
(* until a signal or an error shuts its tasks down.                        *)
(*                                                                         *)
(* An argument of a command is an integer or a word, NotInteger.  An empty *)
(* line repeats the line before and an unknown command changes nothing     *)
(* (cmd.Cmd): neither needs an action.                                     *)
(***************************************************************************)
EXTENDS MercuryAsicRegisterModel

CONSTANTS
  Lines,           \* lines that may be typed: a command, its arguments
  TestTransactions,  \* what the test loop transfers, in this order
  PackedIntegers,  \* the integers msgpack encodes, -2^63 .. 2^64 - 1
  MaxLength,       \* registers of the longest read there is memory for
  MaxSessions,     \* bound: processes started
  MaxCommands,     \* bound: commands sent from prompts
  MaxShutdowns     \* bound: shutdown tasks created in one process

\* The bounds of 64-bit integers are multiples of ByteModulus: to set the RW
\* bit of an integer within them stays within them.
ASSUME ShellAssumption ==
  /\ \A line \in Lines :
       /\ line.command \in {"read", "write", "quit"}
       /\ line.args \in Seq(Int \cup {NotInteger})
  /\ Byte \subseteq PackedIntegers /\ PackedIntegers \subseteq Int
  /\ \A n \in PackedIntegers :
       (n \div REGISTER_PAGE_SIZE) % 2 = 0 =>
         n + REGISTER_PAGE_SIZE \in PackedIntegers
  /\ NotInteger \notin Int /\ MaxLength \in Nat
  /\ TestTransactions \in Seq(Seq(Byte)) /\ TestTransactions # << >>
  /\ MaxSessions \in Nat /\ MaxCommands \in Nat /\ MaxShutdowns \in Nat

\* The tasks of a test run: the test loop, and shutdown as often as a
\* signal or an error asks for it.
TestLoop == 0
Shutdowns == 1 .. MaxShutdowns
TaskIds == {TestLoop} \cup Shutdowns

VARIABLES
  session,      \* processes started so far; the last one may be running
  shell,        \* what it is doing
  commands,     \* commands sent so far, by all of them
  outgoing,     \* messages its socket has not transmitted yet
  incoming,     \* messages that arrived at its socket
  lost,         \* history: the message it waits for was lost
  task,         \* state of each task of the test run
  cancelled,    \* tasks that have been cancelled
  gathered,     \* the tasks whose end a shutdown awaits
  test_at       \* index of the transaction the test loop sent last

socketVars == <<outgoing, incoming, lost>>
loopVars == <<task, cancelled, gathered, test_at>>
shellVars == <<session, shell, commands, socketVars, loopVars>>

NoShell == [at |-> "none"]
Prompt == [at |-> "prompt"]
Awaiting(transaction) == [at |-> "awaiting", transaction |-> transaction]
Crashed(line) == [at |-> "crashed", line |-> line]
Testing == [at |-> "testing"]

Alive == shell.at \in {"prompt", "awaiting", "testing"}

NoTasks == [t \in TaskIds |-> "none"]
NoneGathered == [s \in Shutdowns |-> {}]

ShellInit ==
  /\ session = 0
  /\ shell = NoShell
  /\ commands = 0
  /\ outgoing = << >> /\ incoming = << >> /\ lost = FALSE
  /\ task = NoTasks
  /\ cancelled = {}
  /\ gathered = NoneGathered
  /\ test_at = 0

-----------------------------------------------------------------------------
(* The client *)

\* Every process names its socket anew, at random.
Mutant_FixedIdentity(n) == 1

Identity(n) == n

\* transfer, up to its receive.
Send(transaction) ==
  /\ outgoing' = Append(outgoing,
       [identity |-> Identity(session), session |-> session,
        transaction |-> transaction])
  /\ lost' = FALSE
  /\ UNCHANGED incoming

StartProcess(state, tasks) ==
  /\ ~Alive
  /\ session < MaxSessions
  /\ session' = session + 1
  /\ shell' = state
  /\ outgoing' = << >> /\ incoming' = << >> /\ lost' = FALSE
  /\ task' = tasks
  /\ cancelled' = {}
  /\ gathered' = NoneGathered
  /\ test_at' = 0
  /\ UNCHANGED commands

\* What the socket of a process holds goes with it.
EndProcess(state) ==
  /\ shell' = state
  /\ outgoing' = << >> /\ incoming' = << >> /\ lost' = FALSE
  /\ cancelled' = {} /\ gathered' = NoneGathered /\ test_at' = 0
  /\ UNCHANGED <<session, commands>>

-----------------------------------------------------------------------------
(* The prompt *)

StartShell == StartProcess(Prompt, NoTasks)

\* An argument is a word only where the default is one.
IntegerAt(defaults, i) == ~(i <= Len(defaults) /\ defaults[i] = NotInteger)

Mutant_ParseErrorIgnored(arg, defaults) == FALSE

ParseFails(arg, defaults) ==
  \E i \in DOMAIN arg : IntegerAt(defaults, i) /\ arg[i] = NotInteger

parse_args(arg, defaults) ==
  [i \in DOMAIN arg \cup DOMAIN defaults |->
     IF i \in DOMAIN arg THEN arg[i] ELSE defaults[i]]

\* Address 0, one register, "hex".
Defaults(line) ==
  IF line.command = "read" THEN <<0, 1, NotInteger>> ELSE << >>

\* A command that goes no further: it cannot be parsed, or has no arguments.
Mutant_EmptyWriteSent(line) == ParseFails(line.args, Defaults(line))

IsRefused(line) ==
  \/ ParseFails(line.args, Defaults(line))
  \/ parse_args(line.args, Defaults(line)) = << >>

\* do_read and do_write, up to the client.  For a read that is too long there
\* is no such list in the code.
Transaction(line) ==
  LET args == parse_args(line.args, Defaults(line))
  IN OnWire(IF line.command = "read" THEN register_read(args[1], args[2])
            ELSE register_write(args[1], Tail(args)))

\* do_read makes a list of its length: MemoryError, or OverflowError.
IsTooLong(line) ==
  /\ line.command = "read"
  /\ parse_args(line.args, Defaults(line))[2] > MaxLength

\* The list does not fit into memory, the client indexes the address of an
\* empty one, msgpack packs no longer integers.
SendRaises(line) ==
  \/ IsTooLong(line)
  \/ parse_args(line.args, Defaults(line)) = << >>
  \/ \E i \in DOMAIN Transaction(line) :
       Transaction(line)[i] \notin PackedIntegers \cup {NotInteger}

RefuseCommand(line) ==
  /\ shell = Prompt
  /\ line.command # "quit"
  /\ IsRefused(line)
  /\ UNCHANGED shellVars

ExecuteCommand(line) ==
  /\ shell = Prompt
  /\ line.command # "quit"
  /\ ~IsRefused(line) /\ ~SendRaises(line)
  /\ commands < MaxCommands
  /\ commands' = commands + 1
  /\ shell' = Awaiting(Transaction(line))
  /\ Send(Transaction(line))
  /\ UNCHANGED <<session, loopVars>>

\* Nothing catches what do_read, the client or msgpack raises: the shell ends.
CommandRaises(line) ==
  /\ shell = Prompt
  /\ line.command # "quit"
  /\ ~IsRefused(line) /\ SendRaises(line)
  /\ EndProcess(Crashed(line))
  /\ UNCHANGED task

Quit(line) ==
  /\ shell = Prompt
  /\ line.command = "quit"
  /\ EndProcess(NoShell)
  /\ UNCHANGED task

\* The response is there: it is printed, the loop prompts again.
ShowResponse ==
  /\ shell.at = "awaiting"
  /\ incoming # << >>
  /\ incoming' = Tail(incoming)
  /\ shell' = Prompt
  /\ UNCHANGED <<session, commands, outgoing, lost, loopVars>>

\* KeyboardInterrupt, at the prompt or in run_until_complete.
Interrupt ==
  /\ shell.at \in {"prompt", "awaiting"}
  /\ EndProcess(NoShell)
  /\ UNCHANGED task

-----------------------------------------------------------------------------
(* The test loop and its end *)

StartTest == StartProcess(Testing, [NoTasks EXCEPT ![TestLoop] = "created"])

\* The loop starts, or wakes from its sleep, and transfers the next one.
SendTest ==
  /\ shell = Testing
  /\ task[TestLoop] \in {"created", "sleeping"}
  /\ TestLoop \notin cancelled
  /\ test_at' = (test_at % Len(TestTransactions)) + 1
  /\ Send(TestTransactions[test_at'])
  /\ task' = [task EXCEPT ![TestLoop] = "waiting"]
  /\ UNCHANGED <<session, shell, commands, cancelled, gathered>>

GotResponse ==
  /\ shell = Testing
  /\ task[TestLoop] = "waiting"
  /\ TestLoop \notin cancelled
  /\ incoming # << >>
  /\ incoming' = Tail(incoming)
  /\ task' = [task EXCEPT ![TestLoop] = "sleeping"]
  /\ UNCHANGED <<session, shell, commands, outgoing, lost,
                 cancelled, gathered, test_at>>

NextShutdown(s) == task[s] = "none" /\ \A r \in 1 .. (s - 1) : task[r] # "none"

\* SIGHUP, SIGTERM or SIGINT: its handler creates a shutdown task.
Signal(s) ==
  /\ shell = Testing
  /\ NextShutdown(s)
  /\ task' = [task EXCEPT ![s] = "created"]
  /\ UNCHANGED <<session, shell, commands, socketVars,
                 cancelled, gathered, test_at>>

\* The socket raises an error: the test loop ends, and handle_exception
\* creates a shutdown task.
TestLoopFails(s) ==
  /\ shell = Testing
  /\ task[TestLoop] = "waiting"
  /\ TestLoop \notin cancelled
  /\ NextShutdown(s)
  /\ task' = [task EXCEPT ![TestLoop] = "done", ![s] = "created"]
  /\ UNCHANGED <<session, shell, commands, socketVars,
                 cancelled, gathered, test_at>>

Unfinished == {t \in TaskIds : task[t] \notin {"none", "done"}}

\* all_tasks() without the current one.
Mutant_CancelsItself(s) == Unfinished

Others(s) == Unfinished \ {s}

\* Is every task that shutdown s awaits done?
Mutant_NotAwaited(s) == TRUE

Gathered(s) == \A t \in gathered[s] : task[t] = "done"

\* ioloop.stop(): run_forever returns, the loop is closed.
StopLoop(s) ==
  /\ task' = [task EXCEPT ![s] = "done"]
  /\ EndProcess(NoShell)

\* A shutdown cancels all other tasks, shutdowns among them, and awaits
\* them, if there are any.
BeginShutdown(s) ==
  /\ shell = Testing
  /\ task[s] = "created"
  /\ s \notin cancelled
  /\ IF Others(s) = {} THEN StopLoop(s)
     ELSE /\ cancelled' = cancelled \cup Others(s)
          /\ gathered' = [gathered EXCEPT ![s] = Others(s)]
          /\ task' = [task EXCEPT ![s] = "gathering"]
          /\ UNCHANGED <<session, shell, commands, socketVars, test_at>>

FinishShutdown(s) ==
  /\ shell = Testing
  /\ task[s] = "gathering"
  /\ s \notin cancelled
  /\ Gathered(s)
  /\ StopLoop(s)

\* CancelledError is thrown into a cancelled task: at once, or, where it
\* gathers others, when these are done.
EndCancelled(t) ==
  /\ shell = Testing
  /\ t \in cancelled
  /\ task[t] \notin {"none", "done"}
  /\ task[t] = "gathering" => Gathered(t)
  /\ task' = [task EXCEPT ![t] = "done"]
  /\ UNCHANGED <<session, shell, commands, socketVars,
                 cancelled, gathered, test_at>>

-----------------------------------------------------------------------------
ShellNext ==
  \/ StartShell \/ StartTest
  \/ \E line \in Lines :
       \/ RefuseCommand(line) \/ ExecuteCommand(line)
       \/ CommandRaises(line) \/ Quit(line)
  \/ ShowResponse \/ Interrupt
  \/ SendTest \/ GotResponse
  \/ \E s \in Shutdowns :
       \/ Signal(s) \/ TestLoopFails(s)
       \/ BeginShutdown(s) \/ FinishShutdown(s)
  \/ \E t \in TaskIds : EndCancelled(t)
=============================================================================
