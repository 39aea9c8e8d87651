------------------------------- MODULE MCBoot ------------------------------
(***************************************************************************)
(* The floppies of the runs of Boot.  Clusters are in no particular order  *)
(* and the two ends of a chain that FAT12 allows both occur.               *)
(***************************************************************************)
EXTENDS Boot

File(ten, eleventh, first) == [kind |-> "file", name |-> <<ten, eleventh>>, first |-> first]
Deleted == [kind |-> "deleted", name |-> <<"KTUXKRNL", " ">>, first |-> 9]
Unused == [kind |-> "free", name |-> <<"nul", " ">>, first |-> 0]

Layout(text, data, bss) == [text |-> text, data |-> data, bss |-> bss]
Floppy(loader, kernel, end, root, layout, defect) ==
    [loader |-> loader, kernel |-> kernel, other |-> <<20>>, end |-> end, root |-> root,
     layout |-> layout, defect |-> defect]

Root(loader, kernel) ==
    <<Deleted, File("README", " ", 20), File("KTUXKRNL", " ", kernel),
      File("KLOADER", " ", loader), Unused>>

Small(defect) ==
    Floppy(<<2, 3>>, <<4, 5, 6>>, 4095, Root(2, 4), Layout(1, 1, 1), defect)
Scattered ==
    Floppy(<<5, 2>>, <<257, 3, 7, 4>>, 4088, Root(5, 257), Layout(2, 1, 1), "none")
Large ==
    Floppy(<<3>>, <<8, 2, 9, 4, 5, 11>>, 4095, Root(3, 8), Layout(3, 2, 1), "none")
NoBss == [Small("none") EXCEPT !.layout.bss = 0]
NoKernel ==
    [Small("none") EXCEPT !.root = <<File("KLOADER", " ", 2), Unused>>]
NoLoader == [Small("none") EXCEPT !.root = <<File("KTUXKRNL", " ", 4)>>]

GoodDisks == {Scattered, Large, Small("none"), NoBss, NoKernel, NoLoader,
              Small("magic"), Small("layout"), Small("align")}

\* What the proofs ask of a floppy, these are.
ASSUME GoodDisksInOrder == \A d \in GoodDisks : InOrder(d)

\* A file whose name differs from the kernel's in its eleventh character.
NamesakeDisks ==
    {[Small("none") EXCEPT !.root =
          <<File("KLOADER", " ", 2), File("KTUXKRNL", "T", 20), File("KTUXKRNL", " ", 4)>>]}

\* A kernel further than 256 clusters into the disk.
FarDisks == {[Small("none") EXCEPT !.kernel = <<300, 301, 302>>, !.root = Root(2, 300)]}

NoBssDisks == {NoBss}
ErrorDisks == {Small("layout")}
=============================================================================
