----------------------------- MODULE MCAsicLink -----------------------------
(***************************************************************************)
(* Two threads of the control server on one client, and the interactive    *)
(* shell, a process of its own, on another.  Registers as in               *)
(* MCRegisterAccess.                                                       *)
(***************************************************************************)
EXTENDS AsicLink

CONSTANTS t1, t2, shell, device_client, shell_client

MCClientOf == [t \in Tasks |->
  IF t = shell THEN shell_client ELSE device_client]

MCDefaultValues == [a \in RegisterAddresses |-> IF a = CONFIG1 THEN 2 ELSE 0]

\* Change the page, write and read a paged register, write a value that does
\* not fit a byte and one that is not an integer.
MCCalls ==
  {register_write(CONFIG1, <<1>>), register_write(4, <<7>>),
   register_read(4, 1), register_write(5, <<16>>),
   register_write(4, <<NotInteger>>)}
=============================================================================
