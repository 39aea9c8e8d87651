---------------------------- MODULE MCPageStack ----------------------------
(***************************************************************************)
(* PageStack on the list init_virt_mem would build from six pages.        *)
(***************************************************************************)
EXTENDS PageStack

PageValues == 1 .. 6
BootListValue == [s \in 0 .. 5 |-> s + 1]
=============================================================================
