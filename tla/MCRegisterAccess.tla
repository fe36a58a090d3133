-------------------------- MODULE MCRegisterAccess --------------------------
(***************************************************************************)
(* A scaled-down register space for TLC: pages of 8 registers (CONFIG1, 1, *)
(* 2, TEST_SR, 4, 5, SR_CAL, SR_TEST), 13 registers in all, of which       *)
(* CHIP_BIAS is register 10, and shift registers of two entries.           *)
(***************************************************************************)
EXTENDS RegisterAccess

\* CONFIG1 starts with the page bit clear and another bit set.
MCDefaultValues == [a \in RegisterAddresses |-> IF a = CONFIG1 THEN 2 ELSE 0]

\* Bursts across a page change, into the shift registers and past the end
\* of the register space; reads of what they write; a value that does not
\* fit a byte and one that is not an integer.
MCCalls ==
  {register_write(0, v) : v \in {<<0>>, <<1>>, <<1, 1, 0, 5>>, <<2, 0, 1, 4>>}}
  \cup {register_write(3, <<4, 1>>), register_write(3, <<5>>),
        register_write(5, <<1, 1, 0>>), register_write(6, <<1>>),
        register_write(7, <<1, 0>>), register_write(7, <<1, 0, 1>>),
        register_write(11, <<1, 1>>),
        register_write(4, <<16>>), register_write(4, <<NotInteger>>)}
  \cup {register_read(0, 4), register_read(3, 5), register_read(7, 1)}
=============================================================================
