------------------------------ MODULE MCPrintf -----------------------------
(***************************************************************************)
(* The calls Printf is run on: two directives, of which one is plain,      *)
(* illegal, or a number printed without flags.                             *)
(***************************************************************************)
EXTENDS Printf

Probes == {f \in Fields : /\ f.conv = "d" /\ f.mod = "" /\ f.wd = 0 /\ ~f.lj /\ ~f.lz
                          /\ \A w \in Words : w <= f.words[1]}

Pairs(S, T) == {<<x, y>> : x \in S, y \in T} \cup {<<y, x>> : x \in S, y \in T}

AskedCalls == Pairs(Plain, Fields) \cup Pairs(Probes, Fields) \cup Pairs(Plain, Plain)
=============================================================================
