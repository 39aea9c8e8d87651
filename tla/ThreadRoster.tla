---------------------------- MODULE ThreadRoster ---------------------------
(***************************************************************************)
(* What the list of threads promises whoever looks at it: a sequence that  *)
(* a new thread enters at the front and a dying one leaves, each at one    *)
(* instant, and a listing that shows all of it, the oldest thread first.   *)
(***************************************************************************)
EXTENDS Sequences, SequencesExt

CONSTANT Thread

VARIABLES roster, listing

Init == roster = <<>> /\ listing = <<>>

Enter ==
    /\ \E t \in Thread \ ToSet(roster) : roster' = <<t>> \o roster
    /\ UNCHANGED listing

Leave ==
    /\ \E i \in DOMAIN roster : roster' = RemoveAt(roster, i)
    /\ UNCHANGED listing

Show ==
    /\ listing' = Reverse(roster)
    /\ UNCHANGED roster

Next == Enter \/ Leave \/ Show

Spec == Init /\ [][Next]_<<roster, listing>>
=============================================================================
