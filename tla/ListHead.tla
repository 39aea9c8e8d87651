------------------------------ MODULE ListHead -----------------------------
(***************************************************************************)
(* The intrusive lists of include/list.h as operators on the memory they   *)
(* change.  links maps every cell (a list head or the member of a struct)  *)
(* to its two pointers; an inline function is the sequence of stores it    *)
(* makes, which ThreadList lets an interrupt separate.                     *)
(***************************************************************************)
EXTENDS Integers, Sequences, FiniteSets, SequencesExt

CONSTANTS
    Cells,          \* the cells: list heads and entries
    NULL

VARIABLE links      \* [next, prev] of every cell

Pointers == [next : Cells \cup {NULL}, prev : Cells \cup {NULL}]

Store(cell, field, value) == [cell |-> cell, field |-> field, value |-> value]
Apply1(l, s) == [l EXCEPT ![s.cell][s.field] = s.value]

\* The links after all of them.
Apply(l, stores) ==
    LET After[n \in 0 .. Len(stores)] ==
            IF n = 0 THEN l ELSE Apply1(After[n - 1], stores[n])
    IN  After[Len(stores)]

init_list_head(p) == <<Store(p, "next", p), Store(p, "prev", p)>>

Add(new, prev, next) ==
    <<Store(next, "prev", new), Store(new, "next", next),
      Store(new, "prev", prev), Store(prev, "next", new)>>

list_add(l, new, head) == Add(new, head, l[head].next)
list_add_tail(l, new, head) == Add(new, l[head].prev, head)

Del(prev, next) == <<Store(next, "prev", prev), Store(prev, "next", next)>>

list_del(l, entry) ==
    Del(l[entry].prev, l[entry].next)
        \o <<Store(entry, "next", NULL), Store(entry, "prev", NULL)>>

list_del_init(l, entry) ==
    Del(l[entry].prev, l[entry].next) \o init_list_head(entry)

\* Mutant of list_move: the add reads the links from before the deletion.
MutantMoveStale(l, entry, head) ==
    Del(l[entry].prev, l[entry].next) \o list_add(l, entry, head)

\* The add of a move reads the links the deletion left.
list_move(l, entry, head) ==
    LET del == Del(l[entry].prev, l[entry].next)
    IN  del \o list_add(Apply(l, del), entry, head)

list_move_tail(l, entry, head) ==
    LET del == Del(l[entry].prev, l[entry].next)
    IN  del \o list_add_tail(Apply(l, del), entry, head)

list_empty(l, head) == l[head].next = head

Splice(l, list, head) ==
    LET first == l[list].next
        last == l[list].prev
        at == l[head].next
    IN  <<Store(first, "prev", head), Store(head, "next", first),
          Store(last, "next", at), Store(at, "prev", last)>>

list_splice(l, list, head) ==
    IF list_empty(l, list) THEN <<>> ELSE Splice(l, list, head)

list_splice_init(l, list, head) ==
    IF list_empty(l, list) THEN <<>>
    ELSE Splice(l, list, head) \o init_list_head(list)

-----------------------------------------------------------------------------
(* The loops.  A loop that runs into NULL, or that has not come back to the *)
(* head after one turn per cell, ends in NULL.                             *)

Bound == Cardinality(Cells)

\* list_for_each ("next") and list_for_each_prev ("prev"): what pos visits.
Visits(l, head, field) ==
    LET From[turns \in 0 .. Bound] ==      \* from pos on, in so many turns
            [pos \in Cells \cup {NULL} |->
                IF pos = head THEN <<>>
                ELSE IF pos = NULL \/ turns = 0 THEN <<NULL>>
                ELSE <<pos>> \o From[turns - 1][l[pos][field]]]
    IN  From[Bound][l[head][field]]

list_for_each(l, head) == Visits(l, head, "next")
list_for_each_prev(l, head) == Visits(l, head, "prev")

(* list_for_each_safe with a body that deletes what it visits: what it     *)
(* visits, and the links when it is through.  n is read before the body.   *)
DrainSafely(l, head) ==
    LET NextOf(m, pos) == IF pos = NULL THEN NULL ELSE m[pos].next
        Turn(at) ==
            LET m == Apply(at.links, list_del(at.links, at.pos))
            IN  IF at.pos \in {head, NULL} THEN at
                ELSE [links |-> m, pos |-> at.n, n |-> NextOf(m, at.n),
                      visited |-> Append(at.visited, at.pos)]
        first == l[head].next
        After[turns \in 0 .. Bound] ==
            IF turns = 0
            THEN [links |-> l, pos |-> first, n |-> NextOf(l, first), visited |-> <<>>]
            ELSE Turn(After[turns - 1])
    IN  After[Bound]
=============================================================================
