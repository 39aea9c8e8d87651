-------------------------- MODULE MCInterruptEntry -------------------------
(***************************************************************************)
(* InterruptEntry with two threads: which exceptions they raise.           *)
(***************************************************************************)
EXTENDS InterruptEntry

None == {}

\* Divide error (panic returns with IF = 0) and invalid opcode (with IF = 1).
NoErrorCode == {[num |-> 0, code |-> FALSE, haltOn |-> FALSE],
                [num |-> 6, code |-> FALSE, haltOn |-> TRUE]}

\* General protection fault.
WithErrorCode == {[num |-> 13, code |-> TRUE, haltOn |-> FALSE]}
=============================================================================
