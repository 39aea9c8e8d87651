-------------------------- MODULE ThreadListProofs -------------------------
(***************************************************************************)
(* Proofs about ThreadList, for any set of threads, any threads of the     *)
(* boot and any cells beside the list.                                     *)
(***************************************************************************)
EXTENDS ThreadList, SequenceTheorems, FiniteSetTheorems, WellFoundedInduction, TLAPS

(***************************************************************************)
(* Walks.  A list is the sequence s of its entries: with the head in front *)
(* and behind, each cell of it points at the one after, or before, it.     *)
(***************************************************************************)

\* The cell at place i of the ring: the head at 0 and behind the last entry.
Spot(head, s, i) == IF i \in 1 .. Len(s) THEN s[i] ELSE head

\* The pointers in a field lead from the head through s and back.
Chain(l, head, field, s) ==
    \A i \in 0 .. Len(s) : l[Spot(head, s, i)][field] = Spot(head, s, i + 1)

\* A list can have these entries.
Entries(head) == {s \in Seq(Cells \ {head}) : IsInjective(s)}

\* What Visits defines From by.
Turn(h, l, head, field, turns) ==
    [pos \in Cells \cup {NULL} |->
        IF pos = head THEN <<>>
        ELSE IF pos = NULL \/ turns = 0 THEN <<NULL>>
        ELSE <<pos>> \o h[turns - 1][l[pos][field]]]

IsWalk(h, n, l, head, field) ==
    h = [turns \in 0 .. n |-> Turn(h, l, head, field, turns)]

\* What the walk h sees from pos on.
Seen(h, turns, pos) == h[turns][pos]

Ahead(l, pos, field) == l[pos][field]

Suffix(s, i) == SubSeq(s, i, Len(s))

LEMMA Induction ==
    ASSUME NEW S, 0 \in S, \A n \in Nat : n \in S => n + 1 \in S
    PROVE  Nat \subseteq S
<1> SUFFICES ASSUME NEW m \in Nat, m \notin S PROVE FALSE
  OBVIOUS
<1> DEFINE T == Nat \ S
<1>1. T \subseteq Nat /\ T # {}
  OBVIOUS
<1>2. PICK x \in T : \A y \in T : ~(<<y, x>> \in OpToRel(<, Nat))
  BY <1>1, NatLessThanWellFounded, WFMin, Zenon
<1>3. x \in Nat /\ x # 0 /\ x \notin S
  OBVIOUS
<1>4. x - 1 \in Nat /\ x - 1 < x /\ (x - 1) + 1 = x
  BY <1>3
<1>5. x - 1 \in T => <<x - 1, x>> \in OpToRel(<, Nat)
  BY <1>3, <1>4 DEF OpToRel
<1> QED
  BY <1>2, <1>3, <1>4, <1>5

LEMMA CellsFinite ==
    /\ Bound \in Nat /\ NULL \notin Cells
    /\ lThreads \in Cells /\ Threads \subseteq Cells /\ lThreads \notin Threads
    /\ spare \in Cells /\ Spares \subseteq Cells
  BY ThreadListAssumption, FS_CardinalityType DEF Bound

LEMMA TurnOn ==
    ASSUME NEW h, NEW l, NEW head, NEW field, NEW turns \in Nat \ {0},
           NEW pos \in Cells, pos # head
    PROVE  Turn(h, l, head, field, turns)[pos] = Cons(pos, Seen(h, turns - 1, Ahead(l, pos, field)))
  BY CellsFinite DEF Turn, Seen, Cons, Ahead

LEMMA TurnBack ==
    ASSUME NEW h, NEW l, NEW head \in Cells, NEW field, NEW turns
    PROVE  Turn(h, l, head, field, turns)[head] = <<>>
  BY DEF Turn

LEMMA TurnsAlike ==
    ASSUME NEW h, NEW g, NEW l, NEW head, NEW field, NEW turns \in Nat,
           turns # 0 => g[turns - 1] = h[turns - 1]
    PROVE  Turn(h, l, head, field, turns) = Turn(g, l, head, field, turns)
<1>1. CASE turns = 0
  BY <1>1 DEF Turn
<1>2. CASE turns # 0
  BY <1>2 DEF Turn
<1> QED
  BY <1>1, <1>2

LEMMA WalkExists ==
    ASSUME NEW l, NEW head, NEW field
    PROVE  \A n \in Nat : \E h : IsWalk(h, n, l, head, field)
<1> DEFINE S == {n \in Nat : \E h : IsWalk(h, n, l, head, field)}
<1>1. 0 \in S
  <2> DEFINE none == [x \in {} |-> x]
             h == [turns \in 0 .. 0 |-> Turn(none, l, head, field, 0)]
  <2>1. h = [turns \in 0 .. 0 |-> Turn(h, l, head, field, turns)]
    <3>1. Turn(none, l, head, field, 0) = Turn(h, l, head, field, 0)
      BY TurnsAlike
    <3> HIDE DEF none
    <3>2. \A turns \in 0 .. 0 : turns = 0
      OBVIOUS
    <3> QED
      BY <3>1, <3>2
  <2> QED
    BY <2>1 DEF IsWalk
<1>2. ASSUME NEW n \in Nat, n \in S PROVE n + 1 \in S
  <2>1. PICK g : IsWalk(g, n, l, head, field)
    BY <1>2
  <2> DEFINE h == [turns \in 0 .. (n + 1) |->
                      IF turns <= n THEN g[turns] ELSE Turn(g, l, head, field, turns)]
  <2>2. ASSUME NEW turns \in 0 .. (n + 1)
        PROVE  h[turns] = Turn(h, l, head, field, turns)
    <3>1. turns \in Nat /\ (turns # 0 => turns - 1 \in 0 .. (n + 1) /\ turns - 1 <= n)
      OBVIOUS
    <3>2. turns # 0 => h[turns - 1] = g[turns - 1]
      BY <3>1
    <3>3. h[turns] = Turn(g, l, head, field, turns)
      <4>1. CASE turns <= n
        <5>1. turns \in 0 .. n
          BY <4>1
        <5>2. g[turns] = Turn(g, l, head, field, turns)
          BY <2>1, <5>1 DEF IsWalk
        <5> QED
          BY <4>1, <5>2
      <4>2. CASE ~(turns <= n)
        BY <4>2
      <4> QED
        BY <4>1, <4>2
    <3> HIDE DEF h
    <3> QED
      BY <3>1, <3>2, <3>3, TurnsAlike
  <2>3. IsWalk(h, n + 1, l, head, field)
    <3>1. DOMAIN h = 0 .. (n + 1) /\ h = [turns \in 0 .. (n + 1) |-> h[turns]]
      OBVIOUS
    <3> HIDE DEF h
    <3> QED
      BY <2>2, <3>1 DEF IsWalk
  <2> QED
    BY <2>3
<1> HIDE DEF S
<1>3. Nat \subseteq S
  BY <1>1, <1>2, Induction
<1> QED
  BY <1>3 DEF S

\* From turns are enough for as many entries.
LEMMA WalkFollows ==
    ASSUME NEW l, NEW head \in Cells, NEW field, NEW s \in Entries(head),
           Chain(l, head, field, s),
           NEW n \in Nat, NEW h, IsWalk(h, n, l, head, field)
    PROVE  \A turns \in 0 .. n : \A i \in 1 .. (Len(s) + 1) :
              Len(s) + 1 - i <= turns =>
                 Seen(h, turns, Spot(head, s, i)) = Suffix(s, i)
<1> DEFINE Good(turns) == \A i \in 1 .. (Len(s) + 1) :
              Len(s) + 1 - i <= turns =>
                 Seen(h, turns, Spot(head, s, i)) = Suffix(s, i)
           S == {turns \in Nat : turns <= n => Good(turns)}
<1>1. s \in Seq(Cells \ {head}) /\ Len(s) \in Nat
      /\ \A i \in 1 .. Len(s) : s[i] \in Cells /\ s[i] # head
  BY LenProperties DEF Entries
<1>2. ASSUME NEW turns \in Nat, turns <= n
      PROVE  h[turns] = Turn(h, l, head, field, turns)
  <2>1. turns \in 0 .. n
    BY <1>2
  <2> QED
    BY <2>1 DEF IsWalk
<1>3. ASSUME NEW turns \in Nat, turns <= n
      PROVE  Seen(h, turns, Spot(head, s, Len(s) + 1)) = Suffix(s, Len(s) + 1)
  <2>1. Spot(head, s, Len(s) + 1) = head
    BY <1>1 DEF Spot
  <2>2. Suffix(s, Len(s) + 1) = <<>>
    BY <1>1, SubSeqEmpty DEF Suffix
  <2> QED
    <3>1. h[turns] = Turn(h, l, head, field, turns)
      BY <1>2, <1>3
    <3>2. Turn(h, l, head, field, turns)[head] = <<>>
      BY TurnBack, Zenon
    <3> QED
      BY <2>1, <2>2, <3>1, <3>2, Zenon DEF Seen
<1>4. 0 \in S
  <2>1. ASSUME NEW i \in 1 .. (Len(s) + 1), Len(s) + 1 - i <= 0 PROVE i = Len(s) + 1
    BY <1>1, <2>1
  <2> QED
    BY <1>3, <2>1
<1>5. ASSUME NEW m \in Nat, m \in S PROVE m + 1 \in S
  <2> SUFFICES ASSUME m + 1 <= n, NEW i \in 1 .. (Len(s) + 1), Len(s) + 1 - i <= m + 1
               PROVE  Seen(h, m + 1, Spot(head, s, i)) = Suffix(s, i)
    OBVIOUS
  <2>1. CASE i = Len(s) + 1
    BY <1>3, <2>1
  <2>2. CASE i \in 1 .. Len(s)
    <3>1. Spot(head, s, i) = s[i] /\ s[i] \in Cells /\ s[i] # head
      BY <1>1, <2>2 DEF Spot
    <3>2. l[s[i]][field] = Spot(head, s, i + 1)
      <4>1. i \in 0 .. Len(s)
        BY <2>2, <1>1
      <4> QED
        BY <3>1, <4>1 DEF Chain
    <3>3. Seen(h, m, Spot(head, s, i + 1)) = Suffix(s, i + 1)
      <4>1. i + 1 \in 1 .. (Len(s) + 1) /\ Len(s) + 1 - (i + 1) <= m /\ m <= n
        BY <1>1, <2>2
      <4>2. Good(m)
        BY <1>5, <4>1
      <4> QED
        BY <4>1, <4>2
    <3>4. Seen(h, m + 1, s[i]) = Cons(s[i], Seen(h, m, Spot(head, s, i + 1)))
      <4> DEFINE k == m + 1
      <4>1. k \in Nat \ {0} /\ k <= n /\ k - 1 = m
        OBVIOUS
      <4> HIDE DEF k
      <4>2. h[k] = Turn(h, l, head, field, k)
        BY <4>1, <1>2
      <4>3. Turn(h, l, head, field, k)[s[i]] = Cons(s[i], Seen(h, k - 1, Spot(head, s, i + 1)))
        <5>1. Turn(h, l, head, field, k)[s[i]]
                 = Cons(s[i], Seen(h, k - 1, Ahead(l, s[i], field)))
          BY <4>1, <3>1, TurnOn
        <5>2. Ahead(l, s[i], field) = Spot(head, s, i + 1)
          BY <3>2 DEF Ahead
        <5> QED
          BY <5>1, <5>2
      <4> QED
        BY <4>1, <4>2, <4>3 DEF k, Seen
    <3>5. Suffix(s, i) = Cons(s[i], Suffix(s, i + 1))
      <4>1. Len(s) \in i .. Len(s)
        BY <1>1, <2>2
      <4> QED
        BY <1>1, <2>2, <4>1, SubSeqRecursiveFirst DEF Suffix, Cons
    <3> QED
      BY <3>1, <3>2, <3>3, <3>4, <3>5
  <2> QED
    BY <1>1, <2>1, <2>2
<1> HIDE DEF Good
<1>6. Nat \subseteq S
  <2> HIDE DEF S
  <2> QED
    BY <1>4, <1>5, Induction
<1>7. \A turns \in 0 .. n : Good(turns)
  BY <1>6
<1> QED
  BY <1>7 DEF Good

LEMMA FitsCells ==
    ASSUME NEW head \in Cells, NEW s \in Entries(head)
    PROVE  Len(s) \in Nat /\ Len(s) <= Bound
<1>1. s \in [1 .. Len(s) -> Cells] /\ Len(s) \in Nat
  BY LenProperties DEF Entries
<1>2. s \in Injection(1 .. Len(s), Cells)
  BY <1>1 DEF Injection, IsInjective, Entries
<1>3. Cardinality(1 .. Len(s)) = Len(s)
  <2>1. Cardinality(1 .. Len(s)) = IF 1 > Len(s) THEN 0 ELSE Len(s) - 1 + 1
    BY <1>1, FS_Interval, 1 \in Int, Len(s) \in Int
  <2> QED
    BY <1>1, <2>1
<1>4. Cardinality(1 .. Len(s)) <= Cardinality(Cells)
  BY <1>2, FS_Injection, ThreadListAssumption
<1> QED
  BY <1>1, <1>3, <1>4 DEF Bound

(***************************************************************************)
(* A loop over a list visits its entries, in the order of the pointers.    *)
(***************************************************************************)
LEMMA VisitsChain ==
    ASSUME NEW l, NEW head \in Cells, NEW field, NEW s \in Entries(head),
           Chain(l, head, field, s)
    PROVE  Visits(l, head, field) = s
<1> DEFINE h == CHOOSE h : IsWalk(h, Bound, l, head, field)
<1>1. IsWalk(h, Bound, l, head, field)
  BY CellsFinite, WalkExists
<1>2. Visits(l, head, field) = Seen(h, Bound, l[head][field])
  BY DEF Visits, IsWalk, Turn, Seen
<1> HIDE DEF h
<1>3. s \in Seq(Cells \ {head}) /\ Len(s) \in Nat /\ Len(s) <= Bound
  BY FitsCells DEF Entries
<1>4. l[head][field] = Spot(head, s, 1)
  <2>1. 0 \in 0 .. Len(s) /\ 0 + 1 = 1 /\ Spot(head, s, 0) = head
    BY <1>3 DEF Spot
  <2> QED
    BY <2>1 DEF Chain
<1>5. Seen(h, Bound, Spot(head, s, 1)) = Suffix(s, 1)
  <2>1. Bound \in 0 .. Bound /\ 1 \in 1 .. (Len(s) + 1) /\ Len(s) + 1 - 1 <= Bound
    BY <1>3, CellsFinite
  <2> QED
    <3>1. \A i \in 1 .. (Len(s) + 1) :
             Len(s) + 1 - i <= Bound =>
                Seen(h, Bound, Spot(head, s, i)) = Suffix(s, i)
      <4>1. \A turns \in 0 .. Bound : \A i \in 1 .. (Len(s) + 1) :
              Len(s) + 1 - i <= turns =>
                 Seen(h, turns, Spot(head, s, i)) = Suffix(s, i)
        BY <1>1, CellsFinite, WalkFollows
      <4> QED
        BY <2>1, <4>1, Zenon
    <3> QED
      BY <2>1, <3>1, Zenon
<1>6. Suffix(s, 1) = s
  BY <1>3, SubSeqFull DEF Suffix
<1> QED
  BY <1>2, <1>4, <1>5, <1>6

-----------------------------------------------------------------------------
(* Stores and what they do to a list. *)

Fields == {"next", "prev"}

\* m is l with one pointer changed.
Changed(m, l, cell, field, value) ==
    /\ m \in [Cells -> Pointers]
    /\ \A c \in Cells, f \in Fields :
          m[c][f] = IF c = cell /\ f = field THEN value ELSE l[c][f]

(***************************************************************************)
(* A store changes one pointer of one cell.                                *)
(***************************************************************************)
LEMMA Stored ==
    ASSUME NEW l \in [Cells -> Pointers], NEW cell \in Cells, NEW field \in Fields,
           NEW value \in Cells \cup {NULL}
    PROVE  Changed(Apply1(l, Store(cell, field, value)), l, cell, field, value)
<1> DEFINE m == Apply1(l, Store(cell, field, value))
<1>1. m = [l EXCEPT ![cell] = [l[cell] EXCEPT ![field] = value]]
  BY DEF Apply1, Store
<1>2. l[cell] \in Pointers
  OBVIOUS
<1>3. /\ [l[cell] EXCEPT ![field] = value] \in Pointers
      /\ \A f \in Fields : [l[cell] EXCEPT ![field] = value][f] =
              IF f = field THEN value ELSE l[cell][f]
  BY <1>2 DEF Pointers, Fields
<1> HIDE DEF m
<1>4. m \in [Cells -> Pointers]
  BY <1>1, <1>3
<1>5. ASSUME NEW c \in Cells, NEW f \in Fields
      PROVE m[c][f] = IF c = cell /\ f = field THEN value ELSE l[c][f]
  <2>1. m[c] = IF c = cell THEN [l[cell] EXCEPT ![field] = value] ELSE l[c]
    BY <1>1
  <2> QED
    BY <2>1, <1>3
<1> QED
  BY <1>4, <1>5 DEF Changed, m

\* The list at head has the entries s, and its pointers agree both ways.
Ring(l, head, s) ==
    /\ Chain(l, head, "next", s)
    /\ \A i \in 0 .. Len(s) : l[Spot(head, s, i + 1)]["prev"] = Spot(head, s, i)

LEMMA SpotFacts ==
    ASSUME NEW head \in Cells, NEW s \in Entries(head)
    PROVE  /\ Len(s) \in Nat
           /\ Spot(head, s, 0) = head /\ Spot(head, s, Len(s) + 1) = head
           /\ \A i \in 1 .. Len(s) : Spot(head, s, i) = s[i] /\ s[i] \in Cells /\ s[i] # head
           /\ \A i \in 0 .. (Len(s) + 1) : Spot(head, s, i) \in Cells
           /\ \A i, j \in 0 .. Len(s) : Spot(head, s, i) = Spot(head, s, j) => i = j
           /\ \A i, j \in 1 .. (Len(s) + 1) : Spot(head, s, i) = Spot(head, s, j) => i = j
<1>1. /\ s \in Seq(Cells \ {head}) /\ Len(s) \in Nat /\ DOMAIN s = 1 .. Len(s)
      /\ \A i \in 1 .. Len(s) : s[i] \in Cells /\ s[i] # head
      /\ \A i, j \in 1 .. Len(s) : s[i] = s[j] => i = j
  BY LenProperties DEF Entries, IsInjective
<1>2. \A i \in 1 .. Len(s) : Spot(head, s, i) = s[i]
  BY DEF Spot
<1>3. Spot(head, s, 0) = head /\ Spot(head, s, Len(s) + 1) = head
  BY <1>1 DEF Spot
<1>4. \A i \in 0 .. (Len(s) + 1) : i \in 1 .. Len(s) \/ i = 0 \/ i = Len(s) + 1
  BY <1>1
<1>5. \A i, j \in 0 .. Len(s) : Spot(head, s, i) = Spot(head, s, j) => i = j
  <2> TAKE i, j \in 0 .. Len(s)
  <2>1. (i \in 1 .. Len(s) \/ i = 0) /\ (j \in 1 .. Len(s) \/ j = 0)
    BY <1>1
  <2> QED
    BY <1>1, <1>2, <1>3, <2>1
<1>6. \A i, j \in 1 .. (Len(s) + 1) : Spot(head, s, i) = Spot(head, s, j) => i = j
  <2> TAKE i, j \in 1 .. (Len(s) + 1)
  <2>1. (i \in 1 .. Len(s) \/ i = Len(s) + 1) /\ (j \in 1 .. Len(s) \/ j = Len(s) + 1)
    BY <1>1
  <2> QED
    BY <1>1, <1>2, <1>3, <2>1
<1>7. \A i \in 0 .. (Len(s) + 1) : Spot(head, s, i) \in Cells
  BY <1>1, <1>2, <1>3, <1>4
<1> QED
  BY <1>1, <1>2, <1>3, <1>5, <1>6, <1>7

\* t is s with new behind its entry at place k, or in front for k = 0.
Inserted(t, s, k, new) ==
    /\ Len(t) = Len(s) + 1
    /\ \A i \in 1 .. (Len(s) + 1) :
          t[i] = IF i <= k THEN s[i] ELSE IF i = k + 1 THEN new ELSE s[i - 1]

LEMMA InsertedSpots ==
    ASSUME NEW head \in Cells, NEW s \in Entries(head), NEW k \in 0 .. Len(s),
           NEW new \in Cells \ {head}, \A i \in 1 .. Len(s) : s[i] # new,
           NEW t \in Seq(Cells \ {head}), Inserted(t, s, k, new)
    PROVE  /\ t \in Entries(head)
           /\ \A i \in 0 .. k : Spot(head, t, i) = Spot(head, s, i)
           /\ Spot(head, t, k + 1) = new
           /\ \A i \in (k + 2) .. (Len(s) + 2) : Spot(head, t, i) = Spot(head, s, i - 1)
<1>1. /\ Len(s) \in Nat /\ k \in Nat /\ k <= Len(s) /\ Len(t) = Len(s) + 1
      /\ DOMAIN t = 1 .. (Len(s) + 1)
  BY SpotFacts DEF Inserted
<1>2. \A i, j \in 1 .. Len(s) : s[i] = s[j] => i = j
  <2>1. DOMAIN s = 1 .. Len(s)
    BY LenProperties DEF Entries
  <2> QED
    BY <2>1 DEF Entries, IsInjective
<1>3. ASSUME NEW i \in 1 .. (Len(s) + 1), NEW j \in 1 .. (Len(s) + 1), t[i] = t[j]
      PROVE  i = j
  <2>1. /\ i <= k => t[i] = s[i] /\ i \in 1 .. Len(s)
        /\ i = k + 1 => t[i] = new
        /\ i > k + 1 => t[i] = s[i - 1] /\ i - 1 \in 1 .. Len(s)
    BY <1>1 DEF Inserted
  <2>2. /\ j <= k => t[j] = s[j] /\ j \in 1 .. Len(s)
        /\ j = k + 1 => t[j] = new
        /\ j > k + 1 => t[j] = s[j - 1] /\ j - 1 \in 1 .. Len(s)
    BY <1>1 DEF Inserted
  <2>3. (i <= k \/ i = k + 1 \/ i > k + 1) /\ (j <= k \/ j = k + 1 \/ j > k + 1)
    BY <1>1
  <2>4. CASE i <= k
    BY <1>1, <1>2, <1>3, <2>1, <2>2, <2>3, <2>4
  <2>5. CASE i = k + 1
    BY <1>1, <1>2, <1>3, <2>1, <2>2, <2>3, <2>5
  <2>6. CASE i > k + 1
    BY <1>1, <1>2, <1>3, <2>1, <2>2, <2>3, <2>6
  <2> QED
    BY <2>3, <2>4, <2>5, <2>6
<1>4. t \in Entries(head)
  BY <1>1, <1>3 DEF Entries, IsInjective
<1>5. ASSUME NEW i \in 0 .. k PROVE Spot(head, t, i) = Spot(head, s, i)
  BY <1>1 DEF Spot, Inserted
<1>6. Spot(head, t, k + 1) = new
  BY <1>1 DEF Spot, Inserted
<1>7. ASSUME NEW i \in (k + 2) .. (Len(s) + 2) PROVE Spot(head, t, i) = Spot(head, s, i - 1)
  BY <1>1 DEF Spot, Inserted
<1> QED
  BY <1>4, <1>5, <1>6, <1>7

\* m is l with new between prev and next.
Joined(m, l, prev, new, next) ==
    \A c \in Cells :
       /\ m[c]["next"] = IF c = prev THEN new ELSE IF c = new THEN next ELSE l[c]["next"]
       /\ m[c]["prev"] = IF c = new THEN prev ELSE IF c = next THEN new ELSE l[c]["prev"]

(***************************************************************************)
(* __list_add between the entries at places k and k + 1.                   *)
(***************************************************************************)
LEMMA InsertRing ==
    ASSUME NEW l \in [Cells -> Pointers], NEW head \in Cells, NEW s \in Entries(head),
           Ring(l, head, s), NEW k \in 0 .. Len(s),
           NEW new \in Cells \ {head}, \A i \in 1 .. Len(s) : s[i] # new,
           NEW m, Joined(m, l, Spot(head, s, k), new, Spot(head, s, k + 1)),
           NEW t \in Seq(Cells \ {head}), Inserted(t, s, k, new)
    PROVE  t \in Entries(head) /\ Ring(m, head, t)
<1> DEFINE prev == Spot(head, s, k)
           next == Spot(head, s, k + 1)
<1>0. \A c \in Cells :
         /\ m[c]["next"] = IF c = prev THEN new ELSE IF c = new THEN next ELSE l[c]["next"]
         /\ m[c]["prev"] = IF c = new THEN prev ELSE IF c = next THEN new ELSE l[c]["prev"]
  BY DEF Joined
<1>1. /\ t \in Entries(head) /\ Len(t) = Len(s) + 1
      /\ \A i \in 0 .. k : Spot(head, t, i) = Spot(head, s, i)
      /\ Spot(head, t, k + 1) = new
      /\ \A i \in (k + 2) .. (Len(s) + 2) : Spot(head, t, i) = Spot(head, s, i - 1)
  <2>1. Len(t) = Len(s) + 1
    BY DEF Inserted
  <2> QED
    BY <2>1, InsertedSpots
<1>2. /\ Len(s) \in Nat
      /\ \A i \in 0 .. (Len(s) + 1) : Spot(head, s, i) \in Cells /\ Spot(head, s, i) # new
      /\ \A i, j \in 0 .. Len(s) : Spot(head, s, i) = Spot(head, s, j) => i = j
      /\ \A i, j \in 1 .. (Len(s) + 1) : Spot(head, s, i) = Spot(head, s, j) => i = j
  <2>1. \A i \in 0 .. (Len(s) + 1) : Spot(head, s, i) # new
    BY DEF Spot
  <2> QED
    BY <2>1, SpotFacts
<1>3. ASSUME NEW i \in 0 .. Len(t)
      PROVE  m[Spot(head, t, i)]["next"] = Spot(head, t, i + 1)
  <2>1. CASE i < k
    <3>1. /\ i \in 0 .. Len(s) /\ k \in 0 .. Len(s) /\ i # k
          /\ i \in 0 .. k /\ i + 1 \in 0 .. k /\ i \in 0 .. (Len(s) + 1)
      BY <1>1, <1>2, <2>1
    <3>2. Spot(head, s, i) # prev
      BY <1>2, <3>1
    <3>3. l[Spot(head, s, i)]["next"] = Spot(head, s, i + 1)
      BY <3>1 DEF Ring, Chain
    <3> QED
      BY <1>0, <1>1, <1>2, <3>1, <3>2, <3>3
  <2>2. CASE i = k
    <3>1. i \in 0 .. k /\ i \in 0 .. (Len(s) + 1)
      BY <1>2, <2>2
    <3> QED
      BY <1>0, <1>1, <1>2, <2>2, <3>1
  <2>3. CASE i = k + 1
    <3>1. i + 1 \in (k + 2) .. (Len(s) + 2) /\ (i + 1) - 1 = k + 1 /\ k \in 0 .. (Len(s) + 1)
      BY <1>1, <1>2, <2>3
    <3>2. Spot(head, t, i + 1) = next /\ Spot(head, t, i) = new /\ new # prev
      BY <1>1, <1>2, <2>3, <3>1
    <3> QED
      BY <1>0, <1>1, <1>2, <3>2
  <2>4. CASE i > k + 1
    <3>1. /\ i - 1 \in 0 .. Len(s) /\ k \in 0 .. Len(s) /\ i - 1 # k /\ (i - 1) + 1 = i
          /\ i \in (k + 2) .. (Len(s) + 2) /\ i + 1 \in (k + 2) .. (Len(s) + 2)
          /\ (i + 1) - 1 = i /\ i - 1 \in 0 .. (Len(s) + 1)
      BY <1>1, <1>2, <2>4
    <3>2. Spot(head, s, i - 1) # prev
      BY <1>2, <3>1
    <3>3. l[Spot(head, s, i - 1)]["next"] = Spot(head, s, i)
      BY <3>1 DEF Ring, Chain
    <3> QED
      BY <1>0, <1>1, <1>2, <3>1, <3>2, <3>3
  <2> QED
    BY <1>1, <1>2, <2>1, <2>2, <2>3, <2>4
<1>4. ASSUME NEW i \in 0 .. Len(t)
      PROVE  m[Spot(head, t, i + 1)]["prev"] = Spot(head, t, i)
  <2>1. CASE i < k
    <3>1. /\ i \in 0 .. Len(s) /\ i + 1 \in 1 .. (Len(s) + 1) /\ k + 1 \in 1 .. (Len(s) + 1)
          /\ i + 1 # k + 1 /\ i \in 0 .. k /\ i + 1 \in 0 .. k /\ i + 1 \in 0 .. (Len(s) + 1)
      BY <1>1, <1>2, <2>1
    <3>2. Spot(head, s, i + 1) # next
      BY <1>2, <3>1
    <3>3. l[Spot(head, s, i + 1)]["prev"] = Spot(head, s, i)
      BY <3>1 DEF Ring
    <3> QED
      BY <1>0, <1>1, <1>2, <3>1, <3>2, <3>3
  <2>2. CASE i = k
    <3>1. i \in 0 .. k
      BY <1>2, <2>2
    <3> QED
      BY <1>0, <1>1, <1>2, <2>2, <3>1
  <2>3. CASE i = k + 1
    <3>1. /\ i + 1 \in (k + 2) .. (Len(s) + 2) /\ (i + 1) - 1 = k + 1
          /\ k + 1 \in 0 .. (Len(s) + 1)
      BY <1>1, <1>2, <2>3
    <3>2. Spot(head, t, i + 1) = next /\ Spot(head, t, i) = new /\ new # next /\ next \in Cells
      BY <1>1, <1>2, <2>3, <3>1
    <3> QED
      BY <1>0, <1>1, <1>2, <3>2
  <2>4. CASE i > k + 1
    <3>1. /\ i - 1 \in 0 .. Len(s) /\ i \in 1 .. (Len(s) + 1) /\ k + 1 \in 1 .. (Len(s) + 1)
          /\ i # k + 1 /\ (i - 1) + 1 = i /\ i \in 0 .. (Len(s) + 1)
          /\ i \in (k + 2) .. (Len(s) + 2) /\ i + 1 \in (k + 2) .. (Len(s) + 2)
          /\ (i + 1) - 1 = i
      BY <1>1, <1>2, <2>4
    <3>2. Spot(head, s, i) # next
      BY <1>2, <3>1
    <3>3. l[Spot(head, s, i)]["prev"] = Spot(head, s, i - 1)
      BY <3>1 DEF Ring
    <3> QED
      BY <1>0, <1>1, <1>2, <3>1, <3>2, <3>3
  <2> QED
    BY <1>1, <1>2, <2>1, <2>2, <2>3, <2>4
<1> QED
  BY <1>1, <1>3, <1>4 DEF Ring, Chain

\* t is s without its entry at place k.
Removed(t, s, k) ==
    /\ Len(t) = Len(s) - 1
    /\ \A i \in 1 .. (Len(s) - 1) : t[i] = IF i < k THEN s[i] ELSE s[i + 1]

LEMMA RemovedSpots ==
    ASSUME NEW head \in Cells, NEW s \in Entries(head), NEW k \in 1 .. Len(s),
           NEW t \in Seq(Cells \ {head}), Removed(t, s, k)
    PROVE  /\ t \in Entries(head)
           /\ \A i \in 0 .. (k - 1) : Spot(head, t, i) = Spot(head, s, i)
           /\ \A i \in k .. Len(s) : Spot(head, t, i) = Spot(head, s, i + 1)
<1>1. /\ Len(s) \in Nat /\ k \in Nat /\ k >= 1 /\ k <= Len(s) /\ Len(t) = Len(s) - 1
      /\ DOMAIN t = 1 .. (Len(s) - 1)
  BY SpotFacts DEF Removed
<1>2. \A i, j \in 1 .. Len(s) : s[i] = s[j] => i = j
  <2>1. DOMAIN s = 1 .. Len(s)
    BY LenProperties DEF Entries
  <2> QED
    BY <2>1 DEF Entries, IsInjective
<1>3. ASSUME NEW i \in 1 .. (Len(s) - 1), NEW j \in 1 .. (Len(s) - 1), t[i] = t[j]
      PROVE  i = j
  <2>1. /\ i < k => t[i] = s[i] /\ i \in 1 .. Len(s)
        /\ ~(i < k) => t[i] = s[i + 1] /\ i + 1 \in 1 .. Len(s)
    BY <1>1 DEF Removed
  <2>2. /\ j < k => t[j] = s[j] /\ j \in 1 .. Len(s)
        /\ ~(j < k) => t[j] = s[j + 1] /\ j + 1 \in 1 .. Len(s)
    BY <1>1 DEF Removed
  <2> QED
    BY <1>1, <1>2, <1>3, <2>1, <2>2
<1>4. t \in Entries(head)
  BY <1>1, <1>3 DEF Entries, IsInjective
<1>5. ASSUME NEW i \in 0 .. (k - 1) PROVE Spot(head, t, i) = Spot(head, s, i)
  BY <1>1 DEF Spot, Removed
<1>6. ASSUME NEW i \in k .. Len(s) PROVE Spot(head, t, i) = Spot(head, s, i + 1)
  BY <1>1 DEF Spot, Removed
<1> QED
  BY <1>4, <1>5, <1>6

\* m is l with prev and next joined, and any pointers in the entry between.
Parted(m, l, prev, entry, next) ==
    \A c \in Cells \ {entry} :
       /\ m[c]["next"] = IF c = prev THEN next ELSE l[c]["next"]
       /\ m[c]["prev"] = IF c = next THEN prev ELSE l[c]["prev"]

(***************************************************************************)
(* __list_del around the entry at place k, whose own pointers may become   *)
(* anything.                                                               *)
(***************************************************************************)
LEMMA RemoveRing ==
    ASSUME NEW l \in [Cells -> Pointers], NEW head \in Cells, NEW s \in Entries(head),
           Ring(l, head, s), NEW k \in 1 .. Len(s),
           NEW m, Parted(m, l, Spot(head, s, k - 1), s[k], Spot(head, s, k + 1)),
           NEW t \in Seq(Cells \ {head}), Removed(t, s, k)
    PROVE  t \in Entries(head) /\ Ring(m, head, t)
<1> DEFINE prev == Spot(head, s, k - 1)
           next == Spot(head, s, k + 1)
<1>0. \A c \in Cells \ {s[k]} :
         /\ m[c]["next"] = IF c = prev THEN next ELSE l[c]["next"]
         /\ m[c]["prev"] = IF c = next THEN prev ELSE l[c]["prev"]
  BY DEF Parted
<1>1. /\ t \in Entries(head) /\ Len(t) = Len(s) - 1
      /\ \A i \in 0 .. (k - 1) : Spot(head, t, i) = Spot(head, s, i)
      /\ \A i \in k .. Len(s) : Spot(head, t, i) = Spot(head, s, i + 1)
  <2>1. Len(t) = Len(s) - 1
    BY DEF Removed
  <2> QED
    BY <2>1, RemovedSpots
<1>2. /\ Len(s) \in Nat /\ k \in Nat /\ k >= 1 /\ k <= Len(s)
      /\ Spot(head, s, k) = s[k]
      /\ \A i \in 0 .. (Len(s) + 1) : Spot(head, s, i) \in Cells
      /\ \A i, j \in 0 .. Len(s) : Spot(head, s, i) = Spot(head, s, j) => i = j
      /\ \A i, j \in 1 .. (Len(s) + 1) : Spot(head, s, i) = Spot(head, s, j) => i = j
  BY SpotFacts
<1>3. ASSUME NEW i \in 0 .. Len(s), i # k PROVE Spot(head, s, i) \in Cells \ {s[k]}
  BY <1>2, <1>3
<1>4. ASSUME NEW i \in 1 .. (Len(s) + 1), i # k PROVE Spot(head, s, i) \in Cells \ {s[k]}
  BY <1>2, <1>4
<1>5. ASSUME NEW i \in 0 .. Len(t)
      PROVE  m[Spot(head, t, i)]["next"] = Spot(head, t, i + 1)
  <2>1. CASE i < k - 1
    <3>1. /\ i \in 0 .. Len(s) /\ k - 1 \in 0 .. Len(s) /\ i # k - 1 /\ i # k
          /\ i \in 0 .. (k - 1) /\ i + 1 \in 0 .. (k - 1)
      BY <1>1, <1>2, <2>1
    <3>2. Spot(head, s, i) # prev
      BY <1>2, <3>1
    <3>3. l[Spot(head, s, i)]["next"] = Spot(head, s, i + 1)
      BY <3>1 DEF Ring, Chain
    <3>4. Spot(head, s, i) \in Cells \ {s[k]}
      BY <1>3, <3>1
    <3> QED
      BY <1>0, <1>1, <3>1, <3>2, <3>3, <3>4
  <2>2. CASE i = k - 1
    <3>1. /\ i \in 0 .. Len(s) /\ i # k /\ i \in 0 .. (k - 1)
          /\ i + 1 \in k .. Len(s) /\ (i + 1) + 1 = k + 1
      BY <1>1, <1>2, <2>2
    <3>2. Spot(head, s, i) \in Cells \ {s[k]}
      BY <1>3, <3>1
    <3> QED
      BY <1>0, <1>1, <2>2, <3>1, <3>2
  <2>3. CASE i > k - 1
    <3>1. /\ i + 1 \in 0 .. Len(s) /\ k - 1 \in 0 .. Len(s) /\ i + 1 # k - 1 /\ i + 1 # k
          /\ i \in k .. Len(s) /\ i + 1 \in k .. Len(s)
      BY <1>1, <1>2, <2>3
    <3>2. Spot(head, s, i + 1) # prev
      BY <1>2, <3>1
    <3>3. l[Spot(head, s, i + 1)]["next"] = Spot(head, s, (i + 1) + 1)
      BY <3>1 DEF Ring, Chain
    <3>4. Spot(head, s, i + 1) \in Cells \ {s[k]}
      BY <1>3, <3>1
    <3> QED
      BY <1>0, <1>1, <3>1, <3>2, <3>3, <3>4
  <2> QED
    BY <1>1, <1>2, <2>1, <2>2, <2>3
<1>6. ASSUME NEW i \in 0 .. Len(t)
      PROVE  m[Spot(head, t, i + 1)]["prev"] = Spot(head, t, i)
  <2>1. CASE i < k - 1
    <3>1. /\ i \in 0 .. Len(s) /\ i + 1 \in 1 .. (Len(s) + 1) /\ k + 1 \in 1 .. (Len(s) + 1)
          /\ i + 1 # k + 1 /\ i + 1 # k
          /\ i \in 0 .. (k - 1) /\ i + 1 \in 0 .. (k - 1)
      BY <1>1, <1>2, <2>1
    <3>2. Spot(head, s, i + 1) # next
      BY <1>2, <3>1
    <3>3. l[Spot(head, s, i + 1)]["prev"] = Spot(head, s, i)
      BY <3>1 DEF Ring
    <3>4. Spot(head, s, i + 1) \in Cells \ {s[k]}
      BY <1>4, <3>1
    <3> QED
      BY <1>0, <1>1, <3>1, <3>2, <3>3, <3>4
  <2>2. CASE i = k - 1
    <3>1. /\ k + 1 \in 1 .. (Len(s) + 1) /\ k + 1 # k /\ i \in 0 .. (k - 1)
          /\ i + 1 \in k .. Len(s) /\ (i + 1) + 1 = k + 1
      BY <1>1, <1>2, <2>2
    <3>2. Spot(head, s, k + 1) \in Cells \ {s[k]}
      BY <1>4, <3>1
    <3> QED
      BY <1>0, <1>1, <2>2, <3>1, <3>2
  <2>3. CASE i > k - 1
    <3>1. /\ i + 1 \in 0 .. Len(s) /\ (i + 1) + 1 \in 1 .. (Len(s) + 1)
          /\ k + 1 \in 1 .. (Len(s) + 1)
          /\ (i + 1) + 1 # k + 1 /\ (i + 1) + 1 # k
          /\ i \in k .. Len(s) /\ i + 1 \in k .. Len(s)
      BY <1>1, <1>2, <2>3
    <3>2. Spot(head, s, (i + 1) + 1) # next
      BY <1>2, <3>1
    <3>3. l[Spot(head, s, (i + 1) + 1)]["prev"] = Spot(head, s, i + 1)
      BY <3>1 DEF Ring
    <3>4. Spot(head, s, (i + 1) + 1) \in Cells \ {s[k]}
      BY <1>4, <3>1
    <3> QED
      BY <1>0, <1>1, <3>1, <3>2, <3>3, <3>4
  <2> QED
    BY <1>1, <1>2, <2>1, <2>2, <2>3
<1> QED
  BY <1>1, <1>5, <1>6 DEF Ring, Chain

(***************************************************************************)
(* Backwards a list shows the same entries the other way round.            *)
(***************************************************************************)
LEMMA RingBackwards ==
    ASSUME NEW l, NEW head \in Cells, NEW s \in Entries(head), Ring(l, head, s)
    PROVE  Reverse(s) \in Entries(head) /\ Chain(l, head, "prev", Reverse(s))
<1> DEFINE r == Reverse(s)
<1>1. /\ Len(s) \in Nat /\ r \in Seq(Cells \ {head}) /\ Len(r) = Len(s)
      /\ DOMAIN r = 1 .. Len(s) /\ DOMAIN s = 1 .. Len(s)
      /\ \A i \in 1 .. Len(s) : r[i] = s[(Len(s) - i) + 1]
  <2>1. s \in Seq(Cells \ {head}) /\ Len(s) \in Nat
    BY LenProperties DEF Entries
  <2>2. \A i \in 1 .. Len(s) : (Len(s) - i) + 1 \in 1 .. Len(s)
    BY <2>1
  <2> QED
    BY <2>1, <2>2 DEF Reverse
<1>2. IsInjective(r)
  <2>1. \A i, j \in 1 .. Len(s) : s[i] = s[j] => i = j
    BY <1>1 DEF Entries, IsInjective
  <2> HIDE DEF r
  <2> SUFFICES ASSUME NEW i \in 1 .. Len(s), NEW j \in 1 .. Len(s), r[i] = r[j]
               PROVE  i = j
    BY <1>1 DEF IsInjective
  <2>2. (Len(s) - i) + 1 \in 1 .. Len(s) /\ (Len(s) - j) + 1 \in 1 .. Len(s)
    BY <1>1
  <2>3. (Len(s) - i) + 1 = (Len(s) - j) + 1
    BY <1>1, <2>1, <2>2
  <2> QED
    BY <1>1, <2>3
<1> HIDE DEF r
<1>3. ASSUME NEW i \in 0 .. (Len(s) + 1)
      PROVE  Spot(head, r, i) = Spot(head, s, Len(s) + 1 - i)
  <2>1. CASE i \in 1 .. Len(s)
    <3>1. Len(s) + 1 - i \in 1 .. Len(s) /\ Len(s) + 1 - i = (Len(s) - i) + 1
      BY <1>1, <2>1
    <3> QED
      BY <1>1, <2>1, <3>1 DEF Spot
  <2>2. CASE i \notin 1 .. Len(s)
    <3>1. Len(s) + 1 - i \notin 1 .. Len(s)
      BY <1>1, <2>2
    <3> QED
      BY <1>1, <2>2, <3>1 DEF Spot
  <2> QED
    BY <2>1, <2>2
<1>4. ASSUME NEW i \in 0 .. Len(r)
      PROVE  l[Spot(head, r, i)]["prev"] = Spot(head, r, i + 1)
  <2>1. /\ i \in 0 .. (Len(s) + 1) /\ i + 1 \in 0 .. (Len(s) + 1)
        /\ Len(s) - i \in 0 .. Len(s) /\ Len(s) + 1 - i = (Len(s) - i) + 1
        /\ Len(s) + 1 - (i + 1) = Len(s) - i
    <3>1. i \in 0 .. Len(s) /\ Len(s) \in Nat
      BY <1>1
    <3> QED
      BY <3>1
  <2>2. l[Spot(head, s, (Len(s) - i) + 1)]["prev"] = Spot(head, s, Len(s) - i)
    BY <2>1 DEF Ring
  <2> QED
    BY <1>3, <2>1, <2>2
<1> QED
  BY <1>1, <1>2, <1>4 DEF Entries, Chain, r

LEMMA ConsInserts ==
    ASSUME NEW S, NEW s \in Seq(S), NEW new \in S
    PROVE  Cons(new, s) \in Seq(S) /\ Inserted(Cons(new, s), s, 0, new)
<1>1. <<new>> \in Seq(S) /\ Len(<<new>>) = 1 /\ <<new>>[1] = new /\ Len(s) \in Nat
  BY LenProperties
<1>2. /\ Cons(new, s) \in Seq(S) /\ Len(Cons(new, s)) = 1 + Len(s)
      /\ \A i \in 1 .. (1 + Len(s)) : Cons(new, s)[i] = IF i <= 1 THEN <<new>>[i] ELSE s[i - 1]
  BY <1>1, ConcatProperties DEF Cons
<1> QED
  BY <1>1, <1>2 DEF Inserted

LEMMA RemoveAtRemoves ==
    ASSUME NEW S, NEW s \in Seq(S), NEW k \in 1 .. Len(s)
    PROVE  RemoveAt(s, k) \in Seq(S) /\ Removed(RemoveAt(s, k), s, k)
<1> DEFINE a == SubSeq(s, 1, k - 1)
           b == SubSeq(s, k + 1, Len(s))
<1>1. Len(s) \in Nat /\ k \in Nat /\ 1 <= k /\ k <= Len(s)
      /\ \A i \in 1 .. Len(s) : s[i] \in S
  BY LenProperties
<1>2. a \in Seq(S) /\ Len(a) = k - 1 /\ \A i \in 1 .. (k - 1) : a[i] = s[i]
  <2>1. 1 \in Int /\ k - 1 \in Int /\ \A i \in 1 .. (k - 1) : s[i] \in S
    BY <1>1
  <2>2. /\ a \in Seq(S)
        /\ Len(a) = IF 1 <= k - 1 THEN (k - 1) - 1 + 1 ELSE 0
        /\ \A i \in 1 .. (k - 1) - 1 + 1 : a[i] = s[1 + i - 1]
    BY <2>1, SubSeqProperties
  <2> HIDE DEF a
  <2> QED
    BY <1>1, <2>2
<1>3. b \in Seq(S) /\ Len(b) = Len(s) - k /\ \A i \in 1 .. (Len(s) - k) : b[i] = s[k + i]
  <2>1. k + 1 \in Int /\ Len(s) \in Int /\ \A i \in (k + 1) .. Len(s) : s[i] \in S
    BY <1>1
  <2>2. /\ b \in Seq(S)
        /\ Len(b) = IF k + 1 <= Len(s) THEN Len(s) - (k + 1) + 1 ELSE 0
        /\ \A i \in 1 .. Len(s) - (k + 1) + 1 : b[i] = s[k + 1 + i - 1]
    BY <2>1, SubSeqProperties
  <2> HIDE DEF b
  <2>3. \A i \in 1 .. (Len(s) - k) : k + 1 + i - 1 = k + i /\ i \in 1 .. Len(s) - (k + 1) + 1
    BY <1>1
  <2> QED
    BY <1>1, <2>2, <2>3
<1>4. RemoveAt(s, k) = a \o b
  BY DEF RemoveAt
<1> HIDE DEF a, b
<1>5. /\ a \o b \in Seq(S) /\ Len(a \o b) = Len(a) + Len(b)
      /\ \A i \in 1 .. Len(a) + Len(b) : (a \o b)[i] = IF i <= Len(a) THEN a[i] ELSE b[i - Len(a)]
  BY <1>2, <1>3, ConcatProperties
<1> DEFINE t == RemoveAt(s, k)
<1>6. /\ t \in Seq(S) /\ Len(t) = Len(s) - 1
      /\ \A i \in 1 .. (Len(s) - 1) : t[i] = IF i <= k - 1 THEN a[i] ELSE b[i - (k - 1)]
  BY <1>1, <1>2, <1>3, <1>4, <1>5
<1> HIDE DEF t
<1>7. ASSUME NEW i \in 1 .. (Len(s) - 1) PROVE t[i] = IF i < k THEN s[i] ELSE s[i + 1]
  <2>1. CASE i < k
    BY <1>1, <1>2, <1>6, <2>1
  <2>2. CASE ~(i < k)
    <3>1. ~(i <= k - 1) /\ i - (k - 1) \in 1 .. (Len(s) - k) /\ k + (i - (k - 1)) = i + 1
      BY <1>1, <2>2
    <3> QED
      BY <1>3, <1>6, <2>2, <3>1
  <2> QED
    BY <2>1, <2>2
<1> QED
  BY <1>6, <1>7 DEF Removed, t

-----------------------------------------------------------------------------
(* The inductive invariant. *)

ThreadLists == {r \in Seq(Threads) : IsInjective(r)}

Places == {"run", "create_cli", "create_table", "sti", "kill_cli", "kill_table", "yield"}

States == {"NONE", "READY", "RUNNING", "WAIT", "ZOMBIE", "FREE"}

StoreSet == [cell : Cells, field : Fields, value : Cells \cup {NULL}]

TypeInv ==
    /\ links \in [Cells -> Pointers]
    /\ pThreads \subseteq Threads
    /\ status \in [Threads -> States]
    /\ started \in BOOLEAN /\ intFlag \in BOOLEAN
    /\ cpu \in Threads
    /\ pc \in [Threads -> Places]
    /\ subject \in [Threads -> Threads \cup {NULL}]
    /\ stores \in [Threads -> Seq(StoreSet)]

\* The links l make a list of the threads in the table.
Whole(l, r) ==
    /\ l \in [Cells -> Pointers]
    /\ r \in ThreadLists /\ ToSet(r) = pThreads
    /\ Ring(l, lThreads, r)

\* The stores of list_del.
Unlink(prev, entry, next) ==
    <<Store(next, "prev", prev), Store(prev, "next", next),
      Store(entry, "next", NULL), Store(entry, "prev", NULL)>>

\* st is what is left of the four stores ops after i of them.
Rest(st, ops, i) == Len(st) = 4 - i /\ \A j \in 1 .. (4 - i) : st[j] = ops[i + j]

\* l is l0 after i stores of list_add.
Linked(l, l0, new, first, i) ==
    \A c \in Cells :
       /\ l[c]["next"] = IF i >= 4 /\ c = lThreads THEN new
                         ELSE IF i >= 2 /\ c = new THEN first ELSE l0[c]["next"]
       /\ l[c]["prev"] = IF i >= 3 /\ c = new THEN lThreads
                         ELSE IF i >= 1 /\ c = first THEN new ELSE l0[c]["prev"]

\* l is l0 after i stores of list_del.
Unlinked(l, l0, prev, entry, next, i) ==
    \A c \in Cells :
       /\ l[c]["next"] = IF i >= 3 /\ c = entry THEN NULL
                         ELSE IF i >= 2 /\ c = prev THEN next ELSE l0[c]["next"]
       /\ l[c]["prev"] = IF i >= 4 /\ c = entry THEN NULL
                         ELSE IF i >= 1 /\ c = next THEN prev ELSE l0[c]["prev"]

\* i stores of adding the thread to the list r of l0 are through.
Linking(l0, r, i) ==
    /\ Whole(l0, r)
    /\ Linked(links, l0, subject[cpu], Spot(lThreads, r, 1), i)
    /\ Rest(stores[cpu], Add(subject[cpu], lThreads, Spot(lThreads, r, 1)), i)

\* i stores of taking the thread out of place k of that list are through.
Unlinking(l0, r, k, i) ==
    /\ Whole(l0, r)
    /\ r[k] = cpu
    /\ Unlinked(links, l0, Spot(lThreads, r, k - 1), cpu, Spot(lThreads, r, k + 1), i)
    /\ Rest(stores[cpu], Unlink(Spot(lThreads, r, k - 1), cpu, Spot(lThreads, r, k + 1)), i)

\* The list is whole, or the thread that runs is adding a thread or leaving.
ListInv ==
    /\ pc[cpu] = "create_table" => \E l0, r : \E i \in 0 .. 4 : Linking(l0, r, i)
    /\ pc[cpu] = "kill_table" =>
          \E l0, r : \E k \in 1 .. Len(r), i \in 0 .. 4 : Unlinking(l0, r, k, i)
    /\ pc[cpu] \notin {"create_table", "kill_table"} =>
          stores[cpu] = <<>> /\ \E r : Whole(links, r)

\* Interrupts are off from cli to sti, so only the thread that runs is there.
CliInv ==
    /\ pc[cpu] \in {"create_table", "kill_table", "sti"} => ~intFlag
    /\ \A t \in Threads \ {cpu} :
          pc[t] \notin {"create_table", "kill_table", "sti"} /\ stores[t] = <<>>

\* The thread that runs is in the table until it takes itself out.
StatusInv ==
    /\ \A t \in pThreads : status[t] # "NONE"
    /\ status[cpu] # "FREE"
    /\ \A t \in Threads :
          pc[t] \in {"kill_cli", "kill_table"} => started /\ status[t] \in {"ZOMBIE", "FREE"}
    /\ started /\ (pc[cpu] \in {"sti", "yield"} => status[cpu] # "ZOMBIE") => cpu \in pThreads

\* No two threads add the same struct, and none that is in the table.
SubjectInv ==
    /\ \A t \in Threads : pc[t] \in {"create_cli", "create_table"} =>
          subject[t] \in Threads \ pThreads /\ status[subject[t]] # "NONE"
    /\ \A t, u \in Threads :
          /\ pc[t] \in {"create_cli", "create_table"}
          /\ pc[u] \in {"create_cli", "create_table"}
          /\ subject[t] = subject[u]
          => t = u

IInv == TypeInv /\ ListInv /\ CliInv /\ StatusInv /\ SubjectInv

-----------------------------------------------------------------------------
(* What the stores of an operation have done so far. *)

LEMMA ThreadListFacts ==
    ASSUME NEW r \in ThreadLists
    PROVE  /\ r \in Entries(lThreads) /\ r \in Seq(Threads) /\ Len(r) \in Nat
           /\ \A i \in 1 .. Len(r) : r[i] \in Threads
           /\ ToSet(r) = {r[i] : i \in 1 .. Len(r)}
<1>1. r \in Seq(Threads) /\ Len(r) \in Nat /\ DOMAIN r = 1 .. Len(r)
  BY LenProperties DEF ThreadLists
<1>2. r \in Seq(Cells \ {lThreads})
  BY <1>1, CellsFinite, SeqMonotonic
<1> QED
  BY <1>1, <1>2 DEF Entries, ThreadLists, ToSet

\* A new struct in front of the list.
LEMMA ConsThread ==
    ASSUME NEW r \in ThreadLists, NEW new \in Threads \ ToSet(r)
    PROVE  /\ Cons(new, r) \in ThreadLists
           /\ Inserted(Cons(new, r), r, 0, new)
           /\ ToSet(Cons(new, r)) = ToSet(r) \cup {new}
<1> DEFINE t == Cons(new, r)
<1>1. /\ r \in Entries(lThreads) /\ r \in Seq(Threads) /\ Len(r) \in Nat
      /\ ToSet(r) = {r[i] : i \in 1 .. Len(r)}
  BY ThreadListFacts
<1>2. t \in Seq(Threads) /\ Inserted(t, r, 0, new)
  BY <1>1, ConsInserts
<1> HIDE DEF t
<1>3. t \in Seq(Cells \ {lThreads})
  BY <1>2, CellsFinite, SeqMonotonic
<1>4. t \in Entries(lThreads)
  <2>1. \A i \in 1 .. Len(r) : r[i] # new
    BY <1>1
  <2>2. new \in Cells \ {lThreads} /\ lThreads \in Cells /\ 0 \in 0 .. Len(r)
    BY <1>1, CellsFinite
  <2> QED
    BY <1>1, <1>2, <1>3, <2>1, <2>2, InsertedSpots
<1>5. t \in ThreadLists
  BY <1>2, <1>4 DEF ThreadLists, Entries
<1>6. ToSet(t) = ToSet(r) \cup {new}
  <2>1. ToSet(t) = {t[i] : i \in 1 .. Len(t)}
    BY <1>5, ThreadListFacts
  <2>2. /\ Len(t) = Len(r) + 1 /\ t[1] = new
        /\ \A i \in 1 .. Len(r) : t[i + 1] = r[i] /\ i + 1 \in 1 .. Len(t)
        /\ \A i \in 1 .. Len(t) : i # 1 => t[i] = r[i - 1] /\ i - 1 \in 1 .. Len(r)
    BY <1>1, <1>2 DEF Inserted
  <2>3. 1 \in 1 .. Len(t)
    BY <1>1, <2>2
  <2>4. ToSet(t) \subseteq ToSet(r) \cup {new}
    BY <1>1, <2>1, <2>2
  <2>5. ToSet(r) \cup {new} \subseteq ToSet(t)
    BY <1>1, <2>1, <2>2, <2>3
  <2> QED
    BY <2>4, <2>5
<1> QED
  BY <1>2, <1>5, <1>6 DEF t

\* A thread leaves the list.
LEMMA RemoveThread ==
    ASSUME NEW r \in ThreadLists, NEW k \in 1 .. Len(r)
    PROVE  /\ RemoveAt(r, k) \in ThreadLists
           /\ Removed(RemoveAt(r, k), r, k)
           /\ ToSet(RemoveAt(r, k)) = ToSet(r) \ {r[k]}
<1> DEFINE t == RemoveAt(r, k)
<1>1. /\ r \in Entries(lThreads) /\ r \in Seq(Threads) /\ Len(r) \in Nat
      /\ ToSet(r) = {r[i] : i \in 1 .. Len(r)}
  BY ThreadListFacts
<1>2. t \in Seq(Threads) /\ Removed(t, r, k)
  BY <1>1, RemoveAtRemoves
<1> HIDE DEF t
<1>3. t \in Seq(Cells \ {lThreads})
  BY <1>2, CellsFinite, SeqMonotonic
<1>4. t \in Entries(lThreads)
  BY <1>1, <1>2, <1>3, CellsFinite, RemovedSpots
<1>5. t \in ThreadLists
  BY <1>2, <1>4 DEF ThreadLists, Entries
<1>6. ToSet(t) = ToSet(r) \ {r[k]}
  <2>1. ToSet(t) = {t[i] : i \in 1 .. Len(t)}
    BY <1>5, ThreadListFacts
  <2>2. \A i, j \in 1 .. Len(r) : r[i] = r[j] => i = j
    <3>1. DOMAIN r = 1 .. Len(r)
      BY <1>1, LenProperties
    <3> QED
      BY <3>1 DEF ThreadLists, IsInjective
  <2>3. /\ Len(t) = Len(r) - 1 /\ k \in Nat /\ 1 <= k /\ k <= Len(r)
        /\ \A i \in 1 .. Len(t) : t[i] = IF i < k THEN r[i] ELSE r[i + 1]
    BY <1>1, <1>2 DEF Removed
  <2>4. ASSUME NEW i \in 1 .. Len(t) PROVE t[i] \in ToSet(r) \ {r[k]}
    <3>1. i \in 1 .. Len(r) /\ i + 1 \in 1 .. Len(r) /\ (i < k => i # k) /\ (~(i < k) => i + 1 # k)
      BY <1>1, <2>3
    <3> QED
      BY <1>1, <2>2, <2>3, <3>1
  <2>5. ASSUME NEW i \in 1 .. Len(r), i # k PROVE r[i] \in ToSet(t)
    <3>1. CASE i < k
      <4>1. i \in 1 .. Len(t)
        BY <1>1, <2>3, <3>1
      <4> QED
        BY <2>1, <2>3, <3>1, <4>1
    <3>2. CASE i > k
      <4>1. i - 1 \in 1 .. Len(t) /\ ~(i - 1 < k) /\ (i - 1) + 1 = i
        BY <1>1, <2>3, <3>2
      <4> QED
        BY <2>1, <2>3, <4>1
    <3> QED
      BY <1>1, <2>3, <2>5, <3>1, <3>2
  <2> QED
    BY <1>1, <2>1, <2>4, <2>5
<1> QED
  BY <1>2, <1>5, <1>6 DEF t

LEMMA WholeLooks ==
    ASSUME NEW l, NEW r, Whole(l, r)
    PROVE  list_for_each(l, lThreads) = r /\ list_for_each_prev(l, lThreads) = Reverse(r)
<1>1. r \in Entries(lThreads) /\ Ring(l, lThreads, r) /\ lThreads \in Cells
  BY ThreadListFacts, CellsFinite DEF Whole
<1>2. Visits(l, lThreads, "next") = r
  BY <1>1, VisitsChain DEF Ring
<1>3. Visits(l, lThreads, "prev") = Reverse(r)
  BY <1>1, RingBackwards, VisitsChain
<1> QED
  BY <1>2, <1>3 DEF list_for_each, list_for_each_prev

\* The store that comes next.
LEMMA RestStep ==
    ASSUME NEW st \in Seq(StoreSet), NEW ops, NEW i \in 0 .. 4, Rest(st, ops, i), st # <<>>
    PROVE  i \in 0 .. 3 /\ Head(st) = ops[i + 1] /\ Rest(Tail(st), ops, i + 1)
<1>1. Len(st) \in Nat /\ Len(st) = 4 - i /\ Len(st) # 0
  BY LenProperties, EmptySeq DEF Rest
<1>2. i \in 0 .. 3 /\ 1 \in 1 .. (4 - i)
  BY <1>1
<1>3. Head(st) = st[1] /\ Len(Tail(st)) = 4 - (i + 1)
      /\ \A j \in 1 .. (4 - (i + 1)) : Tail(st)[j] = st[j + 1]
  BY <1>1, <1>2, HeadTailProperties
<1>4. ASSUME NEW j \in 1 .. (4 - (i + 1)) PROVE Tail(st)[j] = ops[(i + 1) + j]
  <2>1. j + 1 \in 1 .. (4 - i) /\ i + (j + 1) = (i + 1) + j
    BY <1>2
  <2> QED
    BY <1>3, <2>1 DEF Rest
<1> QED
  BY <1>2, <1>3, <1>4 DEF Rest

LEMMA LinkedStep ==
    ASSUME NEW l0, NEW l \in [Cells -> Pointers], NEW new \in Threads, NEW first \in Cells,
           NEW i \in 0 .. 3, Linked(l, l0, new, first, i)
    PROVE  LET m == Apply1(l, Add(new, lThreads, first)[i + 1])
           IN  m \in [Cells -> Pointers] /\ Linked(m, l0, new, first, i + 1)
<1> DEFINE m == Apply1(l, Add(new, lThreads, first)[i + 1])
<1>1. new \in Cells /\ lThreads \in Cells /\ new # lThreads
      /\ "next" \in Fields /\ "prev" \in Fields /\ "next" # "prev"
  BY CellsFinite DEF Fields
<1>2. CASE i = 0
  <2>1. m = Apply1(l, Store(first, "prev", new))
    BY <1>2 DEF Add
  <2> HIDE DEF m
  <2>2. Changed(m, l, first, "prev", new)
    BY <1>1, <2>1, Stored
  <2>3. \A c \in Cells : /\ m[c]["next"] = l[c]["next"]
                         /\ m[c]["prev"] = IF c = first THEN new ELSE l[c]["prev"]
    BY <1>1, <2>2 DEF Changed
  <2> QED
    BY <1>2, <2>2, <2>3 DEF Changed, Linked, m
<1>3. CASE i = 1
  <2>1. m = Apply1(l, Store(new, "next", first))
    BY <1>3 DEF Add
  <2> HIDE DEF m
  <2>2. Changed(m, l, new, "next", first)
    BY <1>1, <2>1, Stored
  <2>3. \A c \in Cells : /\ m[c]["next"] = IF c = new THEN first ELSE l[c]["next"]
                         /\ m[c]["prev"] = l[c]["prev"]
    BY <1>1, <2>2 DEF Changed
  <2> QED
    BY <1>3, <2>2, <2>3 DEF Changed, Linked, m
<1>4. CASE i = 2
  <2>1. m = Apply1(l, Store(new, "prev", lThreads))
    BY <1>4 DEF Add
  <2> HIDE DEF m
  <2>2. Changed(m, l, new, "prev", lThreads)
    BY <1>1, <2>1, Stored
  <2>3. \A c \in Cells : /\ m[c]["next"] = l[c]["next"]
                         /\ m[c]["prev"] = IF c = new THEN lThreads ELSE l[c]["prev"]
    BY <1>1, <2>2 DEF Changed
  <2> QED
    BY <1>4, <2>2, <2>3 DEF Changed, Linked, m
<1>5. CASE i = 3
  <2>1. m = Apply1(l, Store(lThreads, "next", new))
    BY <1>5 DEF Add
  <2> HIDE DEF m
  <2>2. Changed(m, l, lThreads, "next", new)
    BY <1>1, <2>1, Stored
  <2>3. \A c \in Cells : /\ m[c]["next"] = IF c = lThreads THEN new ELSE l[c]["next"]
                         /\ m[c]["prev"] = l[c]["prev"]
    BY <1>1, <2>2 DEF Changed
  <2> QED
    BY <1>5, <2>2, <2>3 DEF Changed, Linked, m
<1> QED
  BY <1>2, <1>3, <1>4, <1>5

LEMMA UnlinkedStep ==
    ASSUME NEW l0, NEW l \in [Cells -> Pointers], NEW prev \in Cells, NEW next \in Cells,
           NEW entry \in Threads,
           NEW i \in 0 .. 3, Unlinked(l, l0, prev, entry, next, i)
    PROVE  LET m == Apply1(l, Unlink(prev, entry, next)[i + 1])
           IN  m \in [Cells -> Pointers] /\ Unlinked(m, l0, prev, entry, next, i + 1)
<1> DEFINE m == Apply1(l, Unlink(prev, entry, next)[i + 1])
<1>1. entry \in Cells /\ "next" \in Fields /\ "prev" \in Fields /\ "next" # "prev"
  BY CellsFinite DEF Fields
<1>2. CASE i = 0
  <2>1. m = Apply1(l, Store(next, "prev", prev))
    BY <1>2 DEF Unlink
  <2> HIDE DEF m
  <2>2. Changed(m, l, next, "prev", prev)
    BY <1>1, <2>1, Stored
  <2>3. \A c \in Cells : /\ m[c]["next"] = l[c]["next"]
                         /\ m[c]["prev"] = IF c = next THEN prev ELSE l[c]["prev"]
    BY <1>1, <2>2 DEF Changed
  <2> QED
    BY <1>2, <2>2, <2>3 DEF Changed, Unlinked, m
<1>3. CASE i = 1
  <2>1. m = Apply1(l, Store(prev, "next", next))
    BY <1>3 DEF Unlink
  <2> HIDE DEF m
  <2>2. Changed(m, l, prev, "next", next)
    BY <1>1, <2>1, Stored
  <2>3. \A c \in Cells : /\ m[c]["next"] = IF c = prev THEN next ELSE l[c]["next"]
                         /\ m[c]["prev"] = l[c]["prev"]
    BY <1>1, <2>2 DEF Changed
  <2> QED
    BY <1>3, <2>2, <2>3 DEF Changed, Unlinked, m
<1>4. CASE i = 2
  <2>1. m = Apply1(l, Store(entry, "next", NULL))
    BY <1>4 DEF Unlink
  <2> HIDE DEF m
  <2>2. Changed(m, l, entry, "next", NULL)
    BY <1>1, <2>1, Stored
  <2>3. \A c \in Cells : /\ m[c]["next"] = IF c = entry THEN NULL ELSE l[c]["next"]
                         /\ m[c]["prev"] = l[c]["prev"]
    BY <1>1, <2>2 DEF Changed
  <2> QED
    BY <1>4, <2>2, <2>3 DEF Changed, Unlinked, m
<1>5. CASE i = 3
  <2>1. m = Apply1(l, Store(entry, "prev", NULL))
    BY <1>5 DEF Unlink
  <2> HIDE DEF m
  <2>2. Changed(m, l, entry, "prev", NULL)
    BY <1>1, <2>1, Stored
  <2>3. \A c \in Cells : /\ m[c]["next"] = l[c]["next"]
                         /\ m[c]["prev"] = IF c = entry THEN NULL ELSE l[c]["prev"]
    BY <1>1, <2>2 DEF Changed
  <2> QED
    BY <1>5, <2>2, <2>3 DEF Changed, Unlinked, m
<1> QED
  BY <1>2, <1>3, <1>4, <1>5

(***************************************************************************)
(* While a thread is being added a reader sees the old list until the last *)
(* store, and then the new one, whole.                                     *)
(***************************************************************************)
LEMMA LinkedLooks ==
    ASSUME NEW l \in [Cells -> Pointers], NEW l0, NEW r, Whole(l0, r),
           NEW new \in Threads \ ToSet(r), NEW i \in 0 .. 4,
           Linked(l, l0, new, Spot(lThreads, r, 1), i)
    PROVE  /\ i < 4 => list_for_each(l, lThreads) = r
           /\ i = 4 => Ring(l, lThreads, Cons(new, r)) /\ list_for_each(l, lThreads) = Cons(new, r)
<1>1. /\ r \in ThreadLists /\ r \in Entries(lThreads) /\ Ring(l0, lThreads, r)
      /\ lThreads \in Cells /\ new \in Cells \ {lThreads} /\ l0 \in [Cells -> Pointers]
      /\ \A j \in 1 .. Len(r) : r[j] # new
  BY ThreadListFacts, CellsFinite DEF Whole
<1>2. ASSUME i < 4 PROVE list_for_each(l, lThreads) = r
  <2>1. ASSUME NEW j \in 0 .. Len(r)
        PROVE  l[Spot(lThreads, r, j)]["next"] = Spot(lThreads, r, j + 1)
    <3>1. l0[Spot(lThreads, r, j)]["next"] = Spot(lThreads, r, j + 1)
      BY <1>1 DEF Ring, Chain
    <3>2. Spot(lThreads, r, j) # new
      BY <1>1 DEF Spot
    <3>3. Spot(lThreads, r, j) \in Cells
      <4>1. j \in 0 .. (Len(r) + 1)
        BY <1>1, ThreadListFacts
      <4> QED
        BY <1>1, <4>1, SpotFacts
    <3>4. ~(i >= 4)
      BY <1>2
    <3> QED
      BY <3>1, <3>2, <3>3, <3>4 DEF Linked
  <2>2. Chain(l, lThreads, "next", r)
    BY <2>1 DEF Chain
  <2> QED
    BY <1>1, <2>2, VisitsChain DEF list_for_each
<1>3. ASSUME i = 4 PROVE Ring(l, lThreads, Cons(new, r)) /\ list_for_each(l, lThreads) = Cons(new, r)
  <2> DEFINE t == Cons(new, r)
  <2>1. t \in ThreadLists /\ Inserted(t, r, 0, new)
    BY <1>1, ConsThread
  <2> HIDE DEF t
  <2>2. t \in Entries(lThreads) /\ t \in Seq(Cells \ {lThreads})
    BY <2>1, ThreadListFacts DEF Entries
  <2>3. /\ 0 \in 0 .. Len(r) /\ lThreads = Spot(lThreads, r, 0)
        /\ Spot(lThreads, r, 1) = Spot(lThreads, r, 0 + 1)
    BY <1>1, SpotFacts
  <2>4. Joined(l, l0, Spot(lThreads, r, 0), new, Spot(lThreads, r, 0 + 1))
    <3>1. Joined(l, l0, lThreads, new, Spot(lThreads, r, 1))
      BY <1>3 DEF Linked, Joined
    <3> QED
      BY <2>3, <3>1
  <2>5. Ring(l, lThreads, t)
    BY <1>1, <2>1, <2>2, <2>3, <2>4, InsertRing
  <2> QED
    BY <1>1, <2>2, <2>5, VisitsChain DEF t, Ring, list_for_each
<1> QED
  BY <1>2, <1>3

(***************************************************************************)
(* While a thread is leaving a reader sees it until the second store, and  *)
(* then the list without it.                                               *)
(***************************************************************************)
LEMMA UnlinkedLooks ==
    ASSUME NEW l \in [Cells -> Pointers], NEW l0, NEW r, Whole(l0, r),
           NEW k \in 1 .. Len(r), NEW i \in 0 .. 4,
           Unlinked(l, l0, Spot(lThreads, r, k - 1), r[k], Spot(lThreads, r, k + 1), i)
    PROVE  /\ i < 2 => list_for_each(l, lThreads) = r
           /\ i >= 2 => list_for_each(l, lThreads) = RemoveAt(r, k)
           /\ i = 4 => Ring(l, lThreads, RemoveAt(r, k))
<1> DEFINE prev == Spot(lThreads, r, k - 1)
           next == Spot(lThreads, r, k + 1)
<1>1. /\ r \in ThreadLists /\ r \in Entries(lThreads) /\ Ring(l0, lThreads, r)
      /\ lThreads \in Cells /\ l0 \in [Cells -> Pointers] /\ Len(r) \in Nat
  BY ThreadListFacts, CellsFinite DEF Whole
<1>2. ASSUME i < 2 PROVE list_for_each(l, lThreads) = r
  <2>1. ~(i >= 2) /\ ~(i >= 3)
    BY <1>2
  <2>2. ASSUME NEW j \in 0 .. Len(r)
        PROVE  l[Spot(lThreads, r, j)]["next"] = Spot(lThreads, r, j + 1)
    <3>1. l0[Spot(lThreads, r, j)]["next"] = Spot(lThreads, r, j + 1)
      BY <1>1 DEF Ring, Chain
    <3>2. Spot(lThreads, r, j) \in Cells
      <4>1. j \in 0 .. (Len(r) + 1)
        BY <1>1
      <4> QED
        BY <1>1, <4>1, SpotFacts
    <3> QED
      BY <2>1, <3>1, <3>2 DEF Unlinked
  <2>3. Chain(l, lThreads, "next", r)
    BY <2>2 DEF Chain
  <2> QED
    BY <1>1, <2>3, VisitsChain DEF list_for_each
<1> DEFINE t == RemoveAt(r, k)
<1>3. t \in ThreadLists /\ Removed(t, r, k)
  BY <1>1, RemoveThread
<1> HIDE DEF t
<1>4. t \in Entries(lThreads) /\ t \in Seq(Cells \ {lThreads})
  BY <1>3, ThreadListFacts DEF Entries
\* A list with both stores to the neighbours done is that of l in a field.
<1>5. ASSUME i >= 2 PROVE Chain(l, lThreads, "next", t)
  <2> DEFINE m == [c \in Cells |-> [next |-> l[c]["next"],
                                    prev |-> IF c = next THEN prev ELSE l0[c]["prev"]]]
  <2>1. Parted(m, l0, prev, r[k], next)
    BY <1>5 DEF Unlinked, Parted
  <2>2. \A c \in Cells : m[c]["next"] = l[c]["next"]
    OBVIOUS
  <2> HIDE DEF m
  <2>3. Ring(m, lThreads, t)
    BY <1>1, <1>3, <1>4, <2>1, RemoveRing
  <2>4. \A j \in 0 .. Len(t) : Spot(lThreads, t, j) \in Cells
    <3>1. \A j \in 0 .. (Len(t) + 1) : Spot(lThreads, t, j) \in Cells
      BY <1>1, <1>4, SpotFacts
    <3>2. Len(t) \in Nat
      BY <1>3, ThreadListFacts
    <3> QED
      BY <3>1, <3>2
  <2> QED
    BY <2>2, <2>3, <2>4 DEF Ring, Chain
<1>6. ASSUME i >= 2 PROVE list_for_each(l, lThreads) = t
  BY <1>1, <1>4, <1>5, <1>6, VisitsChain DEF list_for_each
<1>7. ASSUME i = 4 PROVE Ring(l, lThreads, t)
  <2>1. Parted(l, l0, prev, r[k], next)
    BY <1>7 DEF Unlinked, Parted
  <2> QED
    BY <1>1, <1>3, <1>4, <2>1, RemoveRing
<1> QED
  BY <1>2, <1>6, <1>7 DEF t

-----------------------------------------------------------------------------
(* The invariant is inductive. *)

LEMMA InitInv == Init => IInv
<1> SUFFICES ASSUME Init PROVE IInv
  OBVIOUS
<1>1. /\ lThreads \in Cells /\ NULL \notin Cells /\ Threads \subseteq Cells
      /\ InitThread \in Threads /\ Boot \subseteq Threads
  BY CellsFinite, ThreadListAssumption
<1>2. links \in [Cells -> Pointers]
  BY <1>1 DEF Init, Pointers
<1>3. TypeInv
  <2>1. stores \in [Threads -> Seq(StoreSet)]
    <3>1. <<>> \in Seq(StoreSet)
      BY EmptySeq
    <3> QED
      BY <3>1 DEF Init
  <2> QED
    BY <1>1, <1>2, <2>1 DEF Init, TypeInv, Places, States
<1>4. Whole(links, <<>>)
  <2>1. <<>> \in ThreadLists /\ ToSet(<<>>) = {} /\ Len(<<>>) = 0
    BY DEF ThreadLists, IsInjective, ToSet
  <2>2. Spot(lThreads, <<>>, 0) = lThreads /\ Spot(lThreads, <<>>, 0 + 1) = lThreads
    BY DEF Spot
  <2>3. links[lThreads]["next"] = lThreads /\ links[lThreads]["prev"] = lThreads
    BY <1>1 DEF Init
  <2>4. \A i \in 0 .. Len(<<>>) : i = 0
    BY <2>1
  <2> QED
    BY <1>2, <2>1, <2>2, <2>3, <2>4 DEF Whole, Ring, Chain, Init
<1> QED
  BY <1>1, <1>3, <1>4 DEF Init, IInv, ListInv, CliInv, StatusInv, SubjectInv

LEMMA CreateInv ==
    ASSUME IInv, NEW t \in Threads, NEW new \in Threads, Create(t, new)
    PROVE  IInv'
<1> USE DEF IInv
<1>1. /\ cpu = t /\ pc[t] = "run" /\ stores[t] = <<>> /\ status[new] = "NONE"
      /\ status' = [status EXCEPT ![new] = "READY"]
      /\ subject' = [subject EXCEPT ![t] = new]
      /\ pc' = [pc EXCEPT ![t] = "create_cli"]
      /\ UNCHANGED <<links, pThreads, started, cpu, intFlag, stores, listing>>
  BY DEF Create, At, Goto
<1>2. TypeInv'
  BY <1>1 DEF TypeInv, Places, States
<1>3. ListInv'
  <2>1. PICK r : Whole(links, r)
    BY <1>1 DEF ListInv
  <2>2. Whole(links, r)'
    BY <1>1, <2>1 DEF Whole
  <2> QED
    BY <1>1, <2>2 DEF ListInv, TypeInv
<1>4. CliInv'
  BY <1>1 DEF CliInv, TypeInv
<1>5. new \notin pThreads
  BY <1>1 DEF StatusInv
<1>6. StatusInv'
  BY <1>1, <1>5 DEF StatusInv, TypeInv
<1>7. SubjectInv'
  BY <1>1, <1>5 DEF SubjectInv, TypeInv
<1> QED
  BY <1>2, <1>3, <1>4, <1>6, <1>7

LEMMA CreateCliInv ==
    ASSUME IInv, NEW t \in Threads, CreateCli(t)
    PROVE  IInv'
<1> USE DEF IInv
<1> DEFINE new == subject[t]
<1>1. /\ cpu = t /\ pc[t] = "create_cli" /\ stores[t] = <<>>
      /\ intFlag' = FALSE
      /\ stores' = [stores EXCEPT ![t] = list_add(links, new, lThreads)]
      /\ pc' = [pc EXCEPT ![t] = "create_table"]
      /\ UNCHANGED <<links, pThreads, status, started, cpu, subject, listing>>
  BY DEF CreateCli, At, Goto
<1>2. PICK r : Whole(links, r)
  BY <1>1 DEF ListInv
<1> DEFINE first == Spot(lThreads, r, 1)
<1>3. list_add(links, new, lThreads) = Add(new, lThreads, first)
  <2>1. r \in Entries(lThreads) /\ lThreads \in Cells /\ Len(r) \in Nat
    BY <1>2, ThreadListFacts, CellsFinite DEF Whole
  <2>2. Spot(lThreads, r, 0) = lThreads /\ 0 \in 0 .. Len(r) /\ 0 + 1 = 1
    BY <2>1, SpotFacts
  <2>3. links[lThreads]["next"] = first
    BY <1>2, <2>2 DEF Whole, Ring, Chain
  <2> QED
    BY <2>3 DEF list_add
<1>4. new \in Threads \ pThreads /\ first \in Cells
  <2>1. r \in Entries(lThreads) /\ lThreads \in Cells /\ Len(r) \in Nat
    BY <1>2, ThreadListFacts, CellsFinite DEF Whole
  <2>2. 1 \in 0 .. (Len(r) + 1)
    BY <2>1
  <2> QED
    BY <1>1, <2>1, <2>2, SpotFacts DEF SubjectInv
<1>5. Add(new, lThreads, first) \in Seq(StoreSet) /\ Len(Add(new, lThreads, first)) = 4
  BY <1>4, CellsFinite DEF Add, Store, StoreSet, Fields
<1> HIDE DEF first
<1>6. TypeInv'
  BY <1>1, <1>3, <1>5 DEF TypeInv, Places
<1>7. ListInv'
  <2>1. Linked(links, links, new, first, 0)
    BY DEF Linked
  <2>2. Rest(Add(new, lThreads, first), Add(new, lThreads, first), 0)
    BY <1>5 DEF Rest
  <2>3. Linking(links, r, 0)'
    <3>1. Whole(links, r)'
      BY <1>1, <1>2 DEF Whole
    <3>2. links' = links /\ (subject[cpu])' = new
          /\ (stores[cpu])' = Add(new, lThreads, first)
      BY <1>1, <1>3 DEF TypeInv
    <3>3. Linked(links, links, subject[cpu], Spot(lThreads, r, 1), 0)'
      BY <2>1, <3>2 DEF first
    <3> QED
      BY <2>2, <3>1, <3>2, <3>3 DEF Linking, first
  <2> QED
    <3>1. (pc[cpu])' = "create_table"
      BY <1>1 DEF TypeInv
    <3> QED
      BY <2>3, <3>1 DEF ListInv
<1>8. CliInv'
  BY <1>1 DEF CliInv, TypeInv
<1>9. StatusInv'
  BY <1>1 DEF StatusInv, TypeInv
<1>10. SubjectInv'
  BY <1>1 DEF SubjectInv, TypeInv
<1> QED
  BY <1>6, <1>7, <1>8, <1>9, <1>10

\* Where the list stands when all stores are through.
LEMMA StoresThrough ==
    ASSUME IInv, stores[cpu] = <<>>
    PROVE  /\ pc[cpu] = "create_table" =>
                 \E r \in ThreadLists : /\ Ring(links, lThreads, r)
                                        /\ ToSet(r) = pThreads \cup {subject[cpu]}
           /\ pc[cpu] = "kill_table" =>
                 \E r \in ThreadLists : /\ Ring(links, lThreads, r)
                                        /\ ToSet(r) = pThreads \ {cpu}
<1> USE DEF IInv
<1>1. Len(stores[cpu]) = 0 /\ links \in [Cells -> Pointers] /\ cpu \in Threads
  BY DEF TypeInv
<1>2. ASSUME NEW i \in 0 .. 4, NEW ops, Rest(stores[cpu], ops, i) PROVE i = 4
  BY <1>1, <1>2 DEF Rest
<1>3. CASE pc[cpu] = "create_table"
  <2>1. PICK l0, r : \E i \in 0 .. 4 : Linking(l0, r, i)
    BY <1>3 DEF ListInv
  <2>2. Linking(l0, r, 4)
    BY <1>2, <2>1 DEF Linking
  <2>3. Whole(l0, r) /\ Linked(links, l0, subject[cpu], Spot(lThreads, r, 1), 4)
    BY <2>2 DEF Linking
  <2>4. subject[cpu] \in Threads \ ToSet(r) /\ r \in ThreadLists /\ ToSet(r) = pThreads
    BY <1>1, <1>3, <2>3 DEF SubjectInv, Whole
  <2>5. Ring(links, lThreads, Cons(subject[cpu], r))
    BY <1>1, <2>3, <2>4, LinkedLooks
  <2> QED
    BY <1>3, <2>4, <2>5, ConsThread
<1>4. CASE pc[cpu] = "kill_table"
  <2>1. PICK l0, r : \E k \in 1 .. Len(r), i \in 0 .. 4 : Unlinking(l0, r, k, i)
    BY <1>4 DEF ListInv
  <2>2. PICK k \in 1 .. Len(r) : Unlinking(l0, r, k, 4)
    BY <1>2, <2>1 DEF Unlinking
  <2>3. /\ Whole(l0, r) /\ r[k] = cpu /\ r \in ThreadLists /\ ToSet(r) = pThreads
        /\ Unlinked(links, l0, Spot(lThreads, r, k - 1), cpu, Spot(lThreads, r, k + 1), 4)
    BY <2>2 DEF Unlinking, Whole
  <2>4. Ring(links, lThreads, RemoveAt(r, k))
    BY <1>1, <2>3, UnlinkedLooks
  <2> QED
    BY <1>4, <2>3, <2>4, RemoveThread
<1> QED
  BY <1>3, <1>4

LEMMA CreateTableInv ==
    ASSUME IInv, NEW t \in Threads, CreateTable(t)
    PROVE  IInv'
<1> USE DEF IInv
<1>1. /\ cpu = t /\ pc[t] = "create_table" /\ stores[t] = <<>>
      /\ pThreads' = pThreads \cup {subject[t]}
      /\ pc' = [pc EXCEPT ![t] = "sti"]
      /\ UNCHANGED <<links, status, started, cpu, intFlag, subject, stores, listing>>
  BY DEF CreateTable, At, Goto
<1>2. subject[t] \in Threads \ pThreads /\ status[subject[t]] # "NONE"
  BY <1>1 DEF SubjectInv
<1>3. TypeInv'
  BY <1>1, <1>2 DEF TypeInv, Places
<1>4. ListInv'
  <2>1. PICK r \in ThreadLists : Ring(links, lThreads, r) /\ ToSet(r) = pThreads \cup {subject[t]}
    BY <1>1, StoresThrough
  <2>2. Whole(links, r)'
    BY <1>1, <2>1 DEF Whole, TypeInv
  <2> QED
    BY <1>1, <2>2 DEF ListInv, TypeInv
<1>5. CliInv'
  BY <1>1 DEF CliInv, TypeInv
<1>6. StatusInv'
  BY <1>1, <1>2 DEF StatusInv, TypeInv
<1>7. SubjectInv'
  BY <1>1, <1>2 DEF SubjectInv, TypeInv
<1> QED
  BY <1>3, <1>4, <1>5, <1>6, <1>7

LEMMA ListStoreInv ==
    ASSUME IInv, NEW t \in Threads, ListStore(t)
    PROVE  IInv'
<1> USE DEF IInv
<1>1. /\ cpu = t /\ stores[t] # <<>> /\ stores[t] \in Seq(StoreSet)
      /\ links \in [Cells -> Pointers]
      /\ links' = Apply1(links, Head(stores[t]))
      /\ stores' = [stores EXCEPT ![t] = Tail(stores[t])]
      /\ UNCHANGED <<pThreads, status, started, cpu, intFlag, pc, subject, listing>>
  BY DEF ListStore, TypeInv
<1>2. (stores[cpu])' = Tail(stores[t]) /\ Tail(stores[t]) \in Seq(StoreSet)
  BY <1>1, HeadTailProperties DEF TypeInv
<1>3. pc[t] \in {"create_table", "kill_table"}
  BY <1>1 DEF ListInv
<1>4. ASSUME pc[t] = "create_table" PROVE links' \in [Cells -> Pointers] /\ ListInv'
  <2>1. PICK l0, r : \E i \in 0 .. 4 : Linking(l0, r, i)
    BY <1>1, <1>4 DEF ListInv
  <2>2. PICK i \in 0 .. 4 : Linking(l0, r, i)
    BY <2>1
  <2> DEFINE new == subject[t]
             first == Spot(lThreads, r, 1)
             ops == Add(new, lThreads, first)
  <2>3. Whole(l0, r) /\ Linked(links, l0, new, first, i) /\ Rest(stores[t], ops, i)
    BY <1>1, <2>2 DEF Linking
  <2>4. new \in Threads /\ first \in Cells
    <3>1. r \in Entries(lThreads) /\ lThreads \in Cells /\ Len(r) \in Nat
      BY <2>3, ThreadListFacts, CellsFinite DEF Whole
    <3>2. 1 \in 0 .. (Len(r) + 1)
      BY <3>1
    <3> QED
      BY <1>1, <1>4, <3>1, <3>2, SpotFacts DEF SubjectInv
  <2> HIDE DEF first, ops
  <2>5. i \in 0 .. 3 /\ Head(stores[t]) = ops[i + 1] /\ Rest(Tail(stores[t]), ops, i + 1)
    BY <1>1, <2>3, RestStep
  <2>6. links' \in [Cells -> Pointers] /\ Linked(links', l0, new, first, i + 1)
    <3>1. links' = Apply1(links, Add(new, lThreads, first)[i + 1])
      BY <1>1, <2>5 DEF ops
    <3> DEFINE m == Apply1(links, Add(new, lThreads, first)[i + 1])
    <3>2. m \in [Cells -> Pointers] /\ Linked(m, l0, new, first, i + 1)
      BY <1>1, <2>3, <2>4, <2>5, LinkedStep
    <3> HIDE DEF m
    <3>3. links' = m
      BY <3>1 DEF m
    <3> QED
      BY <3>2, <3>3
  <2>7. Linking(l0, r, i + 1)'
    <3>1. Whole(l0, r)'
      BY <1>1, <2>3 DEF Whole
    <3>2. (subject[cpu])' = new
      BY <1>1
    <3>3. Linked(links, l0, subject[cpu], Spot(lThreads, r, 1), i + 1)'
      BY <2>6, <3>2 DEF first
    <3>4. Rest(stores[cpu], Add(subject[cpu], lThreads, Spot(lThreads, r, 1)), i + 1)'
      BY <1>2, <2>5, <3>2 DEF first, ops
    <3> QED
      BY <3>1, <3>3, <3>4 DEF Linking
  <2>8. i + 1 \in 0 .. 4
    BY <2>5
  <2> QED
    BY <1>1, <1>4, <2>6, <2>7, <2>8 DEF ListInv
<1>5. ASSUME pc[t] = "kill_table" PROVE links' \in [Cells -> Pointers] /\ ListInv'
  <2>1. PICK l0, r : \E k \in 1 .. Len(r), i \in 0 .. 4 : Unlinking(l0, r, k, i)
    BY <1>1, <1>5 DEF ListInv
  <2>2. PICK k \in 1 .. Len(r), i \in 0 .. 4 : Unlinking(l0, r, k, i)
    BY <2>1
  <2> DEFINE prev == Spot(lThreads, r, k - 1)
             next == Spot(lThreads, r, k + 1)
             ops == Unlink(prev, t, next)
  <2>3. /\ Whole(l0, r) /\ r[k] = t
        /\ Unlinked(links, l0, prev, t, next, i) /\ Rest(stores[t], ops, i)
    BY <1>1, <2>2 DEF Unlinking
  <2>4. prev \in Cells /\ next \in Cells
    <3>1. r \in Entries(lThreads) /\ lThreads \in Cells /\ Len(r) \in Nat
      BY <2>3, ThreadListFacts, CellsFinite DEF Whole
    <3>2. k - 1 \in 0 .. (Len(r) + 1) /\ k + 1 \in 0 .. (Len(r) + 1)
      BY <3>1
    <3> QED
      BY <3>1, <3>2, SpotFacts
  <2> HIDE DEF prev, next, ops
  <2>5. i \in 0 .. 3 /\ Head(stores[t]) = ops[i + 1] /\ Rest(Tail(stores[t]), ops, i + 1)
    BY <1>1, <2>3, RestStep
  <2>6. links' \in [Cells -> Pointers] /\ Unlinked(links', l0, prev, t, next, i + 1)
    <3>1. links' = Apply1(links, Unlink(prev, t, next)[i + 1])
      BY <1>1, <2>5 DEF ops
    <3> DEFINE m == Apply1(links, Unlink(prev, t, next)[i + 1])
    <3>2. m \in [Cells -> Pointers] /\ Unlinked(m, l0, prev, t, next, i + 1)
      BY <1>1, <2>3, <2>4, <2>5, UnlinkedStep
    <3> HIDE DEF m
    <3>3. links' = m
      BY <3>1 DEF m
    <3> QED
      BY <3>2, <3>3
  <2>7. Unlinking(l0, r, k, i + 1)'
    <3>1. Whole(l0, r)'
      BY <1>1, <2>3 DEF Whole
    <3>2. cpu' = t
      BY <1>1
    <3>3. Unlinked(links, l0, Spot(lThreads, r, k - 1), cpu, Spot(lThreads, r, k + 1), i + 1)'
      BY <2>6, <3>2 DEF prev, next
    <3>4. Rest(stores[cpu], Unlink(Spot(lThreads, r, k - 1), cpu, Spot(lThreads, r, k + 1)), i + 1)'
      BY <1>2, <2>5, <3>2 DEF prev, next, ops
    <3> QED
      BY <2>3, <3>1, <3>2, <3>3, <3>4 DEF Unlinking
  <2>8. i + 1 \in 0 .. 4
    BY <2>5
  <2>9. \E k1 \in 1 .. Len(r), i1 \in 0 .. 4 : Unlinking(l0, r, k1, i1)'
    BY <2>7, <2>8
  <2> QED
    BY <1>1, <1>5, <2>6, <2>9 DEF ListInv
<1>6. TypeInv'
  BY <1>1, <1>2, <1>3, <1>4, <1>5 DEF TypeInv
<1>7. CliInv'
  BY <1>1 DEF CliInv, TypeInv
<1>8. StatusInv'
  BY <1>1 DEF StatusInv
<1>9. SubjectInv'
  BY <1>1 DEF SubjectInv
<1> QED
  BY <1>3, <1>4, <1>5, <1>6, <1>7, <1>8, <1>9

LEMMA StiInv ==
    ASSUME IInv, NEW t \in Threads, Sti(t)
    PROVE  IInv'
<1> USE DEF IInv
<1>1. /\ cpu = t /\ pc[t] = "sti" /\ stores[t] = <<>>
      /\ intFlag' = TRUE
      /\ pc' = [pc EXCEPT ![t] = IF status[t] = "ZOMBIE" THEN "yield" ELSE "run"]
      /\ UNCHANGED <<links, pThreads, status, started, cpu, subject, stores, listing>>
  BY DEF Sti, At, Goto
<1>2. TypeInv'
  BY <1>1 DEF TypeInv, Places
<1>3. ListInv'
  <2>1. PICK r : Whole(links, r)
    BY <1>1 DEF ListInv
  <2>2. Whole(links, r)'
    BY <1>1, <2>1 DEF Whole
  <2> QED
    BY <1>1, <2>2 DEF ListInv, TypeInv
<1>4. CliInv'
  BY <1>1 DEF CliInv, TypeInv
<1>5. StatusInv'
  BY <1>1 DEF StatusInv, TypeInv
<1>6. SubjectInv'
  BY <1>1 DEF SubjectInv, TypeInv
<1> QED
  BY <1>2, <1>3, <1>4, <1>5, <1>6

LEMMA StartSchedulerInv ==
    ASSUME IInv, StartScheduler
    PROVE  IInv'
<1> USE DEF IInv
<1>1. /\ cpu = InitThread /\ pc[cpu] = "run" /\ InitThread \in pThreads
      /\ started' = TRUE /\ intFlag' = TRUE
      /\ UNCHANGED <<links, pThreads, status, cpu, pc, subject, stores, listing>>
  BY ThreadListAssumption DEF StartScheduler, At, thread
<1>2. TypeInv'
  BY <1>1 DEF TypeInv
<1>3. ListInv'
  <2>1. PICK r : Whole(links, r)
    BY <1>1 DEF ListInv
  <2>2. Whole(links, r)'
    BY <1>1, <2>1 DEF Whole
  <2> QED
    BY <1>1, <2>2 DEF ListInv, TypeInv
<1>4. CliInv'
  BY <1>1 DEF CliInv, TypeInv
<1>5. StatusInv'
  BY <1>1 DEF StatusInv, TypeInv
<1>6. SubjectInv'
  BY <1>1 DEF SubjectInv
<1> QED
  BY <1>2, <1>3, <1>4, <1>5, <1>6

LEMMA KillMarkInv ==
    ASSUME IInv, NEW t \in Threads, KillMark(t)
    PROVE  IInv'
<1> USE DEF IInv
<1>1. /\ cpu = t /\ pc[t] = "run" /\ stores[t] = <<>> /\ started
      /\ status' = [status EXCEPT ![t] = "ZOMBIE"]
      /\ pc' = [pc EXCEPT ![t] = "kill_cli"]
      /\ UNCHANGED <<links, pThreads, started, cpu, intFlag, subject, stores, listing>>
  BY DEF KillMark, At, Goto
<1>2. TypeInv'
  BY <1>1 DEF TypeInv, Places, States
<1>3. ListInv'
  <2>1. PICK r : Whole(links, r)
    BY <1>1 DEF ListInv
  <2>2. Whole(links, r)'
    BY <1>1, <2>1 DEF Whole
  <2> QED
    BY <1>1, <2>2 DEF ListInv, TypeInv
<1>4. CliInv'
  BY <1>1 DEF CliInv, TypeInv
<1>5. StatusInv'
  BY <1>1 DEF StatusInv, TypeInv
<1>6. SubjectInv'
  BY <1>1 DEF SubjectInv, TypeInv
<1> QED
  BY <1>2, <1>3, <1>4, <1>5, <1>6

LEMMA ConcatPairs ==
    ASSUME NEW a, NEW b, NEW c, NEW d
    PROVE  <<a, b>> \o <<c, d>> = <<a, b, c, d>>
<1> DEFINE S == {a, b, c, d}
           s == <<a, b>> \o <<c, d>>
           t == <<a, b, c, d>>
<1>1. <<a, b>> \in Seq(S) /\ <<c, d>> \in Seq(S) /\ Len(<<a, b>>) = 2 /\ Len(<<c, d>>) = 2
  OBVIOUS
<1>2. /\ s \in Seq(S) /\ Len(s) = 4
      /\ \A i \in 1 .. 4 : s[i] = IF i <= 2 THEN <<a, b>>[i] ELSE <<c, d>>[i - 2]
  <2> HIDE DEF S
  <2>1. /\ s \in Seq(S) /\ Len(s) = Len(<<a, b>>) + Len(<<c, d>>)
        /\ \A i \in 1 .. Len(<<a, b>>) + Len(<<c, d>>) : s[i] =
                IF i <= Len(<<a, b>>) THEN <<a, b>>[i] ELSE <<c, d>>[i - Len(<<a, b>>)]
    BY <1>1, ConcatProperties
  <2> QED
    BY <1>1, <2>1
<1>3. t \in Seq(S) /\ Len(t) = 4 /\ t[1] = a /\ t[2] = b /\ t[3] = c /\ t[4] = d
  OBVIOUS
<1> HIDE DEF s, t, S
<1>4. \A i \in 1 .. 4 : s[i] = t[i]
  BY <1>2, <1>3
<1>5. s = t
  BY <1>2, <1>3, <1>4, SeqEqual
<1> QED
  BY <1>5 DEF s, t

LEMMA KillCliInv ==
    ASSUME IInv, NEW t \in Threads, KillCli(t)
    PROVE  IInv'
<1> USE DEF IInv
<1>1. /\ cpu = t /\ pc[t] = "kill_cli" /\ stores[t] = <<>>
      /\ intFlag' = FALSE
      /\ stores' = [stores EXCEPT ![t] = list_del(links, t)]
      /\ pc' = [pc EXCEPT ![t] = "kill_table"]
      /\ UNCHANGED <<links, pThreads, status, started, cpu, subject, listing>>
  BY DEF KillCli, At, Goto
<1>2. PICK r : Whole(links, r)
  BY <1>1 DEF ListInv
<1>3. /\ r \in ThreadLists /\ r \in Entries(lThreads) /\ lThreads \in Cells /\ Len(r) \in Nat
      /\ ToSet(r) = {r[i] : i \in 1 .. Len(r)} /\ ToSet(r) = pThreads
  BY <1>2, ThreadListFacts, CellsFinite DEF Whole
<1>4. t \in pThreads
  BY <1>1 DEF StatusInv
<1>5. PICK k \in 1 .. Len(r) : r[k] = t
  BY <1>3, <1>4
<1> DEFINE prev == Spot(lThreads, r, k - 1)
           next == Spot(lThreads, r, k + 1)
<1>6. links[t]["prev"] = prev /\ links[t]["next"] = next /\ prev \in Cells /\ next \in Cells
  <2>1. /\ k \in 0 .. Len(r) /\ k - 1 \in 0 .. Len(r) /\ (k - 1) + 1 = k
        /\ k - 1 \in 0 .. (Len(r) + 1) /\ k + 1 \in 0 .. (Len(r) + 1)
    BY <1>3
  <2>2. Spot(lThreads, r, k) = t
    BY <1>5 DEF Spot
  <2>3. links[Spot(lThreads, r, k)]["next"] = Spot(lThreads, r, k + 1)
    BY <1>2, <2>1 DEF Whole, Ring, Chain
  <2>4. links[Spot(lThreads, r, k)]["prev"] = Spot(lThreads, r, k - 1)
    BY <1>2, <2>1 DEF Whole, Ring
  <2> QED
    BY <1>3, <2>1, <2>2, <2>3, <2>4, SpotFacts
<1> HIDE DEF prev, next
<1>7. list_del(links, t) = Unlink(prev, t, next)
  BY <1>6, ConcatPairs DEF list_del, Del, Unlink
<1>8. Unlink(prev, t, next) \in Seq(StoreSet) /\ Len(Unlink(prev, t, next)) = 4
  BY <1>6, CellsFinite DEF Unlink, Store, StoreSet, Fields
<1>9. TypeInv'
  BY <1>1, <1>7, <1>8 DEF TypeInv, Places
<1>10. ListInv'
  <2>1. Unlinked(links, links, prev, t, next, 0)
    BY DEF Unlinked
  <2>2. Rest(Unlink(prev, t, next), Unlink(prev, t, next), 0)
    BY <1>8 DEF Rest
  <2>3. Unlinking(links, r, k, 0)'
    <3>1. Whole(links, r)'
      BY <1>1, <1>2 DEF Whole
    <3>2. links' = links /\ cpu' = t /\ (stores[cpu])' = Unlink(prev, t, next)
      BY <1>1, <1>7 DEF TypeInv
    <3> QED
      BY <1>5, <2>1, <2>2, <3>1, <3>2 DEF Unlinking, prev, next
  <2>4. \E k1 \in 1 .. Len(r), i \in 0 .. 4 : Unlinking(links, r, k1, i)'
    BY <2>3
  <2>5. (pc[cpu])' = "kill_table"
    BY <1>1 DEF TypeInv
  <2> QED
    BY <2>4, <2>5 DEF ListInv
<1>11. CliInv'
  BY <1>1 DEF CliInv, TypeInv
<1>12. StatusInv'
  BY <1>1 DEF StatusInv, TypeInv
<1>13. SubjectInv'
  BY <1>1 DEF SubjectInv, TypeInv
<1> QED
  BY <1>9, <1>10, <1>11, <1>12, <1>13

LEMMA KillTableInv ==
    ASSUME IInv, NEW t \in Threads, KillTable(t)
    PROVE  IInv'
<1> USE DEF IInv
<1>1. /\ cpu = t /\ pc[t] = "kill_table" /\ stores[t] = <<>>
      /\ pThreads' = pThreads \ {t}
      /\ pc' = [pc EXCEPT ![t] = "sti"]
      /\ UNCHANGED <<links, status, started, cpu, intFlag, subject, stores, listing>>
  BY DEF KillTable, At, Goto
<1>2. TypeInv'
  BY <1>1 DEF TypeInv, Places
<1>3. ListInv'
  <2>1. PICK r \in ThreadLists : Ring(links, lThreads, r) /\ ToSet(r) = pThreads \ {t}
    BY <1>1, StoresThrough
  <2>2. Whole(links, r)'
    BY <1>1, <2>1 DEF Whole, TypeInv
  <2> QED
    BY <1>1, <2>2 DEF ListInv, TypeInv
<1>4. CliInv'
  BY <1>1 DEF CliInv, TypeInv
<1>5. StatusInv'
  BY <1>1 DEF StatusInv, TypeInv
<1>6. SubjectInv'
  BY <1>1 DEF SubjectInv, TypeInv
<1> QED
  BY <1>2, <1>3, <1>4, <1>5, <1>6

LEMMA TaskSwitchInv ==
    ASSUME IInv, TaskSwitch
    PROVE  IInv'
<1> USE DEF IInv
<1> DEFINE left == [status EXCEPT ![cpu] = IF status[cpu] = "ZOMBIE" THEN "FREE" ELSE "WAIT"]
<1>1. PICK next \in pThreads : /\ left[next] \in {"READY", "WAIT"}
                               /\ cpu' = next
                               /\ status' = [left EXCEPT ![next] = "RUNNING"]
  BY DEF TaskSwitch
<1>2. /\ intFlag /\ started /\ next \in Threads
      /\ UNCHANGED <<links, pThreads, started, intFlag, pc, subject, stores, listing>>
  BY <1>1 DEF TaskSwitch, thread, TypeInv
<1>3. \A t \in Threads : pc[t] \notin {"create_table", "kill_table", "sti"} /\ stores[t] = <<>>
  BY <1>2 DEF CliInv, ListInv
<1>4. \A t \in Threads : status'[t] = IF t = next THEN "RUNNING"
                            ELSE IF t = cpu
                                 THEN IF status[cpu] = "ZOMBIE" THEN "FREE" ELSE "WAIT"
                                 ELSE status[t]
  BY <1>1, <1>2 DEF TypeInv
<1>5. left[next] = IF next = cpu THEN IF status[cpu] = "ZOMBIE" THEN "FREE" ELSE "WAIT"
                                 ELSE status[next]
  BY <1>2 DEF TypeInv
<1>6. TypeInv'
  <2>1. left \in [Threads -> States]
    BY DEF TypeInv, States
  <2> HIDE DEF left
  <2>2. status' \in [Threads -> States]
    BY <1>1, <2>1 DEF States
  <2> QED
    BY <1>1, <1>2, <2>2 DEF TypeInv
<1> HIDE DEF left
<1>7. ListInv'
  <2>1. PICK r : Whole(links, r)
    BY <1>3 DEF ListInv, TypeInv
  <2>2. Whole(links, r)'
    BY <1>2, <2>1 DEF Whole
  <2> QED
    BY <1>1, <1>2, <1>3, <2>2 DEF ListInv
<1>8. CliInv'
  BY <1>1, <1>2, <1>3 DEF CliInv
<1>9. StatusInv'
  <2>1. \A t \in pThreads : status'[t] # "NONE"
    BY <1>2, <1>4 DEF StatusInv, TypeInv
  <2>2. status'[next] # "FREE"
    BY <1>2, <1>4
  <2>3. ASSUME NEW t \in Threads, pc[t] \in {"kill_cli", "kill_table"}
        PROVE  started /\ status'[t] \in {"ZOMBIE", "FREE"}
    <3>1. status[t] \in {"ZOMBIE", "FREE"}
      BY <2>3 DEF StatusInv
    <3>2. t # next
      BY <1>1, <1>5, <3>1 DEF StatusInv
    <3>3. t = cpu => status[t] = "ZOMBIE"
      BY <3>1 DEF StatusInv
    <3> QED
      BY <1>2, <1>4, <3>1, <3>2, <3>3
  <2> QED
    BY <1>1, <1>2, <2>1, <2>2, <2>3 DEF StatusInv
<1>10. SubjectInv'
  <2>1. \A t \in Threads : status[t] # "NONE" => status'[t] # "NONE"
    BY <1>4
  <2> QED
    BY <1>2, <2>1 DEF SubjectInv
<1> QED
  BY <1>6, <1>7, <1>8, <1>9, <1>10

LEMMA PsInv ==
    ASSUME IInv, Ps \/ UNCHANGED vars
    PROVE  IInv'
<1> USE DEF IInv
<1>1. UNCHANGED <<links, pThreads, status, started, cpu, intFlag, pc, subject, stores>>
  BY DEF Ps, vars, thread
<1>2. TypeInv'
  BY <1>1 DEF TypeInv
<1>3. ListInv'
  BY <1>1 DEF ListInv, Linking, Unlinking, Whole
<1>4. CliInv'
  BY <1>1 DEF CliInv
<1>5. StatusInv'
  BY <1>1 DEF StatusInv
<1>6. SubjectInv'
  BY <1>1 DEF SubjectInv
<1> QED
  BY <1>2, <1>3, <1>4, <1>5, <1>6

LEMMA StepInv == IInv /\ [Next]_vars => IInv'
<1> SUFFICES ASSUME IInv, [Next]_vars PROVE IInv'
  OBVIOUS
<1>1. CASE StartScheduler
  BY <1>1, StartSchedulerInv
<1>2. CASE TaskSwitch
  BY <1>2, TaskSwitchInv
<1>3. CASE Ps \/ UNCHANGED vars
  BY <1>3, PsInv
<1>4. ASSUME NEW t \in Threads, Step(t) PROVE IInv'
  <2>1. CASE \E new \in Threads : Create(t, new)
    BY <2>1, CreateInv
  <2>2. CASE CreateCli(t)
    BY <2>2, CreateCliInv
  <2>3. CASE CreateTable(t)
    BY <2>3, CreateTableInv
  <2>4. CASE ListStore(t)
    BY <2>4, ListStoreInv
  <2>5. CASE Sti(t)
    BY <2>5, StiInv
  <2>6. CASE KillMark(t)
    BY <2>6, KillMarkInv
  <2>7. CASE KillCli(t)
    BY <2>7, KillCliInv
  <2>8. CASE KillTable(t)
    BY <2>8, KillTableInv
  <2> QED
    BY <1>4, <2>1, <2>2, <2>3, <2>4, <2>5, <2>6, <2>7, <2>8 DEF Step
<1> QED
  BY <1>1, <1>2, <1>3, <1>4 DEF Next

LEMMA Invariance == Spec => []IInv
<1> QED
  BY InitInv, StepInv, PTL DEF Spec

-----------------------------------------------------------------------------
(* The theorems. *)

LEMMA WholeWhenOpen ==
    ASSUME IInv, intFlag
    PROVE  \E r : Whole(links, r)
  BY DEF IInv, CliInv, ListInv

LEMMA ThreadListLen ==
    ASSUME NEW r \in ThreadLists
    PROVE  Len(r) = Cardinality(ToSet(r))
<1>1. r \in Seq(Threads) /\ Len(r) \in Nat /\ DOMAIN r = 1 .. Len(r)
  BY LenProperties DEF ThreadLists
<1>2. r \in Bijection(1 .. Len(r), ToSet(r))
  <2>1. r \in [1 .. Len(r) -> ToSet(r)] /\ ToSet(r) = {r[i] : i \in 1 .. Len(r)}
    BY <1>1, ThreadListFacts
  <2>2. r \in Injection(1 .. Len(r), ToSet(r))
    BY <1>1, <2>1 DEF ThreadLists, IsInjective, Injection
  <2>3. r \in Surjection(1 .. Len(r), ToSet(r))
    BY <2>1 DEF Surjection
  <2> QED
    BY <2>2, <2>3 DEF Bijection
<1>3. IsFiniteSet(1 .. Len(r)) /\ Cardinality(1 .. Len(r)) = Len(r)
  <2>1. 1 \in Int /\ Len(r) \in Int
    BY <1>1
  <2>2. /\ IsFiniteSet(1 .. Len(r))
        /\ Cardinality(1 .. Len(r)) = IF 1 > Len(r) THEN 0 ELSE Len(r) - 1 + 1
    BY <2>1, FS_Interval
  <2> QED
    BY <1>1, <2>2
<1>4. Cardinality(ToSet(r)) = Cardinality(1 .. Len(r))
  <2>1. ExistsBijection(1 .. Len(r), ToSet(r))
    BY <1>2 DEF ExistsBijection
  <2> QED
    BY <1>3, <2>1, FS_Bijection
<1> QED
  BY <1>3, <1>4

(***************************************************************************)
(* Whenever an interrupt can come the list of threads is whole, reads the  *)
(* same in both directions, and holds exactly the structs in pThreads.     *)
(***************************************************************************)
THEOREM ListMatchesTableTheorem == Spec => []ListMatchesTable
<1>1. IInv => ListMatchesTable
  <2> SUFFICES ASSUME IInv, intFlag PROVE ListMatchesTable
    BY DEF ListMatchesTable
  <2>1. PICK r : Whole(links, r)
    BY WholeWhenOpen
  <2>2. r \in ThreadLists /\ ToSet(r) = pThreads
    BY <2>1 DEF Whole
  <2> QED
    BY <2>1, <2>2, WholeLooks, ThreadListLen DEF ListMatchesTable
<1> QED
  BY <1>1, Invariance, PTL

LEMMA RosterWords ==
    /\ \A s : Roster!Reverse(s) = Reverse(s) /\ Roster!ToSet(s) = ToSet(s)
    /\ \A s, i : Roster!RemoveAt(s, i) = RemoveAt(s, i)
  BY DEF Roster!Reverse, Reverse, Roster!ToSet, ToSet, Roster!RemoveAt, RemoveAt

LEMMA RosterStore ==
    ASSUME IInv, NEW t \in Threads, ListStore(t)
    PROVE  [Roster!Next]_<<list_for_each(links, lThreads), listing>>
<1> USE DEF IInv
<1> DEFINE roster == list_for_each(links, lThreads)
<1>1. /\ cpu = t /\ stores[t] # <<>> /\ stores[t] \in Seq(StoreSet)
      /\ links \in [Cells -> Pointers] /\ links' \in [Cells -> Pointers]
      /\ links' = Apply1(links, Head(stores[t]))
      /\ UNCHANGED <<pThreads, cpu, pc, subject, listing>>
      /\ (stores[cpu])' = Tail(stores[t])
  BY ListStoreInv DEF ListStore, TypeInv
<1>2. pc[t] \in {"create_table", "kill_table"}
  BY <1>1 DEF ListInv
<1>3. CASE pc[t] = "create_table"
  <2>1. PICK l0, r : \E i \in 0 .. 4 : Linking(l0, r, i)
    BY <1>1, <1>3 DEF ListInv
  <2>2. PICK i \in 0 .. 4 : Linking(l0, r, i)
    BY <2>1
  <2> DEFINE new == subject[t]
             first == Spot(lThreads, r, 1)
             ops == Add(new, lThreads, first)
  <2>3. Whole(l0, r) /\ Linked(links, l0, new, first, i) /\ Rest(stores[t], ops, i)
    BY <1>1, <2>2 DEF Linking
  <2>4. new \in Threads \ ToSet(r) /\ first \in Cells
    <3>1. r \in Entries(lThreads) /\ lThreads \in Cells /\ Len(r) \in Nat /\ ToSet(r) = pThreads
      BY <2>3, ThreadListFacts, CellsFinite DEF Whole
    <3>2. 1 \in 0 .. (Len(r) + 1)
      BY <3>1
    <3> QED
      BY <1>1, <1>3, <3>1, <3>2, SpotFacts DEF SubjectInv
  <2> HIDE DEF ops
  <2>5. i \in 0 .. 3 /\ Head(stores[t]) = ops[i + 1]
    BY <1>1, <2>3, RestStep
  <2>6. Linked(links', l0, new, first, i + 1)
    <3>1. links' = Apply1(links, Add(new, lThreads, first)[i + 1])
      BY <1>1, <2>5 DEF ops
    <3> DEFINE m == Apply1(links, Add(new, lThreads, first)[i + 1])
    <3>2. m \in [Cells -> Pointers] /\ Linked(m, l0, new, first, i + 1)
      <4> HIDE DEF first
      <4> QED
        BY <1>1, <2>3, <2>4, <2>5, LinkedStep
    <3> HIDE DEF m
    <3>3. links' = m
      BY <3>1 DEF m
    <3> QED
      BY <3>2, <3>3
  <2>7. i < 4 /\ i + 1 \in 0 .. 4
    BY <2>5
  <2>8. roster = r
    BY <1>1, <2>3, <2>4, <2>7, LinkedLooks
  <2>9. CASE i + 1 < 4
    <3>1. roster' = r
      BY <1>1, <2>3, <2>4, <2>6, <2>7, <2>9, LinkedLooks DEF list_for_each
    <3> QED
      BY <1>1, <2>8, <3>1
  <2>10. CASE i + 1 = 4
    <3>1. roster' = Cons(new, r)
      BY <1>1, <2>3, <2>4, <2>6, <2>7, <2>10, LinkedLooks DEF list_for_each
    <3>2. Roster!Enter
      <4>1. new \in Threads \ Roster!ToSet(roster)
        BY <2>4, <2>8, RosterWords
      <4>2. roster' = <<new>> \o roster
        BY <2>8, <3>1 DEF Cons
      <4>3. \E th \in Threads \ Roster!ToSet(roster) : roster' = <<th>> \o roster
        BY <4>1, <4>2, Zenon
      <4> QED
        BY <1>1, <4>3 DEF Roster!Enter
    <3> QED
      BY <3>2 DEF Roster!Next
  <2> QED
    BY <2>5, <2>9, <2>10
<1>4. CASE pc[t] = "kill_table"
  <2>1. PICK l0, r : \E k \in 1 .. Len(r), i \in 0 .. 4 : Unlinking(l0, r, k, i)
    BY <1>1, <1>4 DEF ListInv
  <2>2. PICK k \in 1 .. Len(r), i \in 0 .. 4 : Unlinking(l0, r, k, i)
    BY <2>1
  <2> DEFINE prev == Spot(lThreads, r, k - 1)
             next == Spot(lThreads, r, k + 1)
             ops == Unlink(prev, t, next)
  <2>3. /\ Whole(l0, r) /\ r[k] = t
        /\ Unlinked(links, l0, prev, t, next, i) /\ Rest(stores[t], ops, i)
    BY <1>1, <2>2 DEF Unlinking
  <2>4. prev \in Cells /\ next \in Cells /\ Len(r) \in Nat /\ DOMAIN r = 1 .. Len(r)
    <3>1. r \in Entries(lThreads) /\ lThreads \in Cells /\ Len(r) \in Nat /\ r \in Seq(Threads)
      BY <2>3, ThreadListFacts, CellsFinite DEF Whole
    <3>2. k - 1 \in 0 .. (Len(r) + 1) /\ k + 1 \in 0 .. (Len(r) + 1)
      BY <3>1
    <3>3. DOMAIN r = 1 .. Len(r)
      BY <3>1, LenProperties
    <3> QED
      BY <3>1, <3>2, <3>3, SpotFacts
  <2> HIDE DEF ops
  <2>5. i \in 0 .. 3 /\ Head(stores[t]) = ops[i + 1]
    BY <1>1, <2>3, RestStep
  <2>6. Unlinked(links', l0, prev, t, next, i + 1)
    <3>1. links' = Apply1(links, Unlink(prev, t, next)[i + 1])
      BY <1>1, <2>5 DEF ops
    <3> DEFINE m == Apply1(links, Unlink(prev, t, next)[i + 1])
    <3>2. m \in [Cells -> Pointers] /\ Unlinked(m, l0, prev, t, next, i + 1)
      <4> HIDE DEF prev, next
      <4> QED
        BY <1>1, <2>3, <2>4, <2>5, UnlinkedStep
    <3> HIDE DEF m
    <3>3. links' = m
      BY <3>1 DEF m
    <3> QED
      BY <3>2, <3>3
  <2>7. i + 1 \in 0 .. 4
    BY <2>5
  <2>8. /\ i < 2 => roster = r
        /\ i >= 2 => roster = RemoveAt(r, k)
    BY <1>1, <2>3, UnlinkedLooks
  <2>9. /\ i + 1 < 2 => roster' = r
        /\ i + 1 >= 2 => roster' = RemoveAt(r, k)
    BY <1>1, <2>3, <2>6, <2>7, UnlinkedLooks DEF list_for_each
  <2>10. CASE i = 1
    <3>1. roster = r /\ roster' = RemoveAt(r, k)
      BY <2>8, <2>9, <2>10
    <3>2. Roster!Leave
      <4>1. roster' = Roster!RemoveAt(roster, k) /\ k \in DOMAIN roster
        BY <2>4, <3>1, RosterWords
      <4> QED
        BY <1>1, <4>1 DEF Roster!Leave
    <3> QED
      BY <3>2 DEF Roster!Next
  <2>11. CASE i # 1
    <3>1. i = 0 \/ i >= 2
      BY <2>5, <2>11
    <3>2. roster' = roster
      BY <2>8, <2>9, <3>1
    <3> QED
      BY <1>1, <3>2
  <2> QED
    BY <2>10, <2>11
<1> QED
  BY <1>2, <1>3, <1>4

LEMMA RosterPs ==
    ASSUME IInv, Ps
    PROVE  [Roster!Next]_<<list_for_each(links, lThreads), listing>>
<1>1. PICK r : Whole(links, r)
  BY WholeWhenOpen DEF Ps
<1>2. list_for_each(links, lThreads) = r /\ listing' = Reverse(r) /\ links' = links
  BY <1>1, WholeLooks DEF Ps
<1>3. (list_for_each(links, lThreads))' = list_for_each(links, lThreads)
  BY <1>2 DEF list_for_each, Visits
<1>4. Roster!Show
  BY <1>2, <1>3, RosterWords DEF Roster!Show
<1> QED
  BY <1>4 DEF Roster!Next

LEMMA RosterStep ==
    IInv /\ [Next]_vars => [Roster!Next]_<<list_for_each(links, lThreads), listing>>
<1> SUFFICES ASSUME IInv, [Next]_vars
             PROVE  [Roster!Next]_<<list_for_each(links, lThreads), listing>>
  OBVIOUS
<1>1. ASSUME UNCHANGED <<links, listing>>
      PROVE  [Roster!Next]_<<list_for_each(links, lThreads), listing>>
  <2>1. (list_for_each(links, lThreads))' = list_for_each(links, lThreads)
    BY <1>1 DEF list_for_each, Visits
  <2> QED
    BY <1>1, <2>1
<1>2. CASE StartScheduler \/ TaskSwitch \/ UNCHANGED vars
  BY <1>1, <1>2 DEF StartScheduler, TaskSwitch, vars
<1>3. CASE Ps
  BY <1>3, RosterPs
<1>4. ASSUME NEW t \in Threads, Step(t)
      PROVE  [Roster!Next]_<<list_for_each(links, lThreads), listing>>
  <2>1. CASE ListStore(t)
    BY <2>1, RosterStore
  <2>2. CASE ~ListStore(t)
    <3>1. UNCHANGED <<links, listing>>
      BY <1>4, <2>2 DEF Step, Create, CreateCli, CreateTable, Sti, KillMark, KillCli, KillTable
    <3> QED
      BY <1>1, <3>1
  <2> QED
    BY <2>1, <2>2
<1> QED
  BY <1>2, <1>3, <1>4 DEF Next

(***************************************************************************)
(* Whoever looks at the list sees each thread enter and leave it at one    *)
(* instant, the last store of list_add and the second of list_del, and ps  *)
(* prints all of it, oldest first.                                         *)
(***************************************************************************)
THEOREM Refinement == Spec => ImplementsRoster
<1>1. Init => Roster!Init
  <2> SUFFICES ASSUME Init PROVE Roster!Init
    OBVIOUS
  <2>1. IInv
    BY InitInv
  <2>2. PICK r : Whole(links, r)
    <3>1. pc[cpu] = "run"
      BY ThreadListAssumption DEF Init
    <3> QED
      BY <2>1, <3>1 DEF IInv, ListInv
  <2>3. r = <<>>
    <3>1. ToSet(r) = {} /\ r \in ThreadLists
      BY <2>2 DEF Whole, Init
    <3>2. Len(r) = 0 /\ r \in Seq(Threads)
      <4>1. Len(r) \in Nat /\ {r[i] : i \in 1 .. Len(r)} = {} /\ r \in Seq(Threads)
        BY <3>1, ThreadListFacts
      <4>2. 1 \notin 1 .. Len(r)
        BY <4>1
      <4> QED
        BY <4>1, <4>2
    <3> QED
      BY <3>2, EmptySeq
  <2> QED
    BY <2>2, <2>3, WholeLooks DEF Roster!Init, Init
<1>2. IInv /\ [Next]_vars => [Roster!Next]_<<list_for_each(links, lThreads), listing>>
  BY RosterStep
<1> QED
  BY <1>1, <1>2, Invariance, PTL DEF Spec, ImplementsRoster, Roster!Spec

-----------------------------------------------------------------------------
(* The operations of list.h, on two lists at a time. *)

(***************************************************************************)
(* A recursive function exists: n steps of F from base on.                 *)
(***************************************************************************)
Do(F, n, x) == F[n][x]

Prior(g, n) == g[n - 1]

Runs(g, N, base, F, D) ==
    /\ g \in [0 .. N -> D] /\ g[0] = base
    /\ \A n \in 1 .. N : g[n] = Do(F, n, Prior(g, n))

LEMMA DoType ==
    ASSUME NEW D, NEW F \in [Nat -> [D -> D]], NEW n \in Nat, NEW x \in D
    PROVE  Do(F, n, x) \in D
<1>1. F[n] \in [D -> D]
  OBVIOUS
<1> QED
  BY <1>1 DEF Do

LEMMA Recursion ==
    ASSUME NEW D, NEW base \in D, NEW F \in [Nat -> [D -> D]]
    PROVE  \A N \in Nat : \E g : Runs(g, N, base, F, D)
<1> DEFINE S == {N \in Nat : \E g : Runs(g, N, base, F, D)}
<1>1. 0 \in S
  <2> DEFINE g == [n \in 0 .. 0 |-> base]
  <2>1. Runs(g, 0, base, F, D)
    BY DEF Runs
  <2> QED
    BY <2>1
<1>2. ASSUME NEW N \in Nat, N \in S PROVE N + 1 \in S
  <2>1. PICK g : Runs(g, N, base, F, D)
    BY <1>2
  <2>2. /\ g \in [0 .. N -> D] /\ g[0] = base
        /\ \A n \in 1 .. N : g[n] = Do(F, n, Prior(g, n))
    BY <2>1 DEF Runs
  <2> DEFINE last == Do(F, N + 1, g[N])
             h == [n \in 0 .. (N + 1) |-> IF n <= N THEN g[n] ELSE last]
  <2>3. last \in D
    BY <2>2, DoType
  <2> HIDE DEF last
  <2>4. h \in [0 .. (N + 1) -> D]
    <3>1. ASSUME NEW n \in 0 .. (N + 1) PROVE (IF n <= N THEN g[n] ELSE last) \in D
      BY <2>2, <2>3
    <3> QED
      BY <3>1
  <2>5. h[0] = base
    BY <2>2
  <2>6. ASSUME NEW n \in 1 .. (N + 1) PROVE h[n] = Do(F, n, Prior(h, n))
    <3>1. n \in 0 .. (N + 1) /\ n - 1 \in 0 .. (N + 1) /\ n - 1 <= N
      OBVIOUS
    <3>2. Prior(h, n) = g[n - 1]
      BY <3>1 DEF Prior
    <3>3. CASE n <= N
      <4>1. n \in 1 .. N
        BY <3>3
      <4>2. h[n] = g[n]
        BY <3>1, <3>3
      <4>3. g[n] = Do(F, n, Prior(g, n))
        BY <2>2, <4>1
      <4>4. Prior(g, n) = Prior(h, n)
        BY <3>2 DEF Prior
      <4> QED
        BY <4>2, <4>3, <4>4
    <3>4. CASE ~(n <= N)
      <4>1. n = N + 1 /\ n - 1 = N
        BY <3>1, <3>4
      <4>2. h[n] = last
        BY <3>1, <3>4
      <4> QED
        BY <3>2, <4>1, <4>2 DEF last
    <3> QED
      BY <3>3, <3>4
  <2> HIDE DEF h
  <2>7. Runs(h, N + 1, base, F, D)
    BY <2>4, <2>5, <2>6 DEF Runs
  <2> QED
    BY <2>7
<1> HIDE DEF S
<1>3. Nat \subseteq S
  BY <1>1, <1>2, Induction
<1> QED
  BY <1>3 DEF S

\* What Apply defines After by.
IsAfter(f, l, st) ==
    f = [n \in 0 .. Len(st) |-> IF n = 0 THEN l ELSE Apply1(f[n - 1], st[n])]

LinkSet == [Cells -> Pointers]

\* One through NULL leaves the cells as they are.
AnyStore == [cell : Cells \cup {NULL}, field : Fields, value : Cells \cup {NULL}]

LEMMA Apply1Type ==
    ASSUME NEW l \in LinkSet, NEW x \in AnyStore
    PROVE  Apply1(l, x) \in LinkSet
<1>1. x = Store(x.cell, x.field, x.value)
  BY DEF AnyStore, Store
<1>2. x.cell \in Cells \cup {NULL} /\ x.field \in Fields /\ x.value \in Cells \cup {NULL}
  BY DEF AnyStore
<1>3. CASE x.cell \in Cells
  <2>1. Changed(Apply1(l, Store(x.cell, x.field, x.value)), l, x.cell, x.field, x.value)
    BY <1>2, <1>3, Stored DEF LinkSet
  <2> QED
    BY <1>1, <2>1 DEF Changed, LinkSet
<1>4. CASE x.cell \notin Cells
  <2>1. Apply1(l, x) = l
    BY <1>4 DEF Apply1, LinkSet
  <2> QED
    BY <2>1
<1> QED
  BY <1>3, <1>4

LEMMA ApplyAfter ==
    ASSUME NEW l \in LinkSet, NEW st \in Seq(AnyStore)
    PROVE  \E f \in [0 .. Len(st) -> LinkSet] :
              /\ IsAfter(f, l, st)
              /\ Apply(l, st) = f[Len(st)]
<1> DEFINE F == [n \in Nat |-> [m \in LinkSet |->
                    IF n \in 1 .. Len(st) THEN Apply1(m, st[n]) ELSE l]]
<1>1. Len(st) \in Nat /\ \A n \in 1 .. Len(st) : st[n] \in AnyStore
  BY LenProperties
<1>2. F \in [Nat -> [LinkSet -> LinkSet]]
  <2>1. ASSUME NEW n \in Nat, NEW m \in LinkSet
        PROVE  (IF n \in 1 .. Len(st) THEN Apply1(m, st[n]) ELSE l) \in LinkSet
    BY <1>1, Apply1Type
  <2> QED
    BY <2>1
<1>3. ASSUME NEW n \in 1 .. Len(st), NEW m \in LinkSet PROVE Do(F, n, m) = Apply1(m, st[n])
  <2>1. n \in Nat
    BY <1>1
  <2>2. F[n] = [k \in LinkSet |-> IF n \in 1 .. Len(st) THEN Apply1(k, st[n]) ELSE l]
    BY <2>1
  <2> QED
    BY <2>2 DEF Do
<1> HIDE DEF F
<1>4. PICK g : Runs(g, Len(st), l, F, LinkSet)
  BY <1>1, <1>2, Recursion
<1>5. IsAfter(g, l, st)
  <2>1. ASSUME NEW n \in 0 .. Len(st)
        PROVE  g[n] = IF n = 0 THEN l ELSE Apply1(g[n - 1], st[n])
    <3>1. CASE n = 0
      BY <1>4, <3>1 DEF Runs
    <3>2. CASE n # 0
      <4>1. n \in 1 .. Len(st) /\ n - 1 \in 0 .. Len(st)
        BY <1>1, <3>2
      <4>2. g[n - 1] \in LinkSet /\ g[n] = Do(F, n, Prior(g, n))
        BY <1>4, <4>1 DEF Runs
      <4>3. Do(F, n, g[n - 1]) = Apply1(g[n - 1], st[n])
        BY <1>3, <4>1, <4>2
      <4> QED
        BY <3>2, <4>2, <4>3 DEF Prior
    <3> QED
      BY <3>1, <3>2
  <2>2. g = [n \in 0 .. Len(st) |-> g[n]]
    BY <1>4 DEF Runs
  <2> QED
    BY <2>1, <2>2 DEF IsAfter
<1> DEFINE f == CHOOSE f : IsAfter(f, l, st)
<1>6. IsAfter(f, l, st)
  BY <1>5
<1>7. Apply(l, st) = f[Len(st)]
  BY DEF Apply, IsAfter
<1> HIDE DEF f
<1>8. DOMAIN f = 0 .. Len(st) /\ \A n \in 0 .. Len(st) :
         f[n] = IF n = 0 THEN l ELSE Apply1(f[n - 1], st[n])
  BY <1>6 DEF IsAfter
<1> DEFINE S == {n \in Nat : n <= Len(st) => f[n] \in LinkSet}
<1>9. 0 \in S
  BY <1>1, <1>8
<1>10. ASSUME NEW n \in Nat, n \in S PROVE n + 1 \in S
  <2> SUFFICES ASSUME n + 1 <= Len(st) PROVE f[n + 1] \in LinkSet
    OBVIOUS
  <2>1. n + 1 \in 0 .. Len(st) /\ n + 1 # 0 /\ (n + 1) - 1 = n /\ n <= Len(st)
        /\ n + 1 \in 1 .. Len(st)
    BY <1>1
  <2>2. f[n + 1] = Apply1(f[n], st[n + 1]) /\ f[n] \in LinkSet
    BY <1>8, <1>10, <2>1
  <2> QED
    BY <1>1, <2>1, <2>2, Apply1Type
<1> HIDE DEF S
<1>11. Nat \subseteq S
  BY <1>9, <1>10, Induction
<1>12. f \in [0 .. Len(st) -> LinkSet]
  <2>1. \A n \in 0 .. Len(st) : f[n] \in LinkSet
    BY <1>11 DEF S
  <2> QED
    BY <1>6, <2>1 DEF IsAfter
<1> QED
  BY <1>6, <1>7, <1>12

LEMMA AfterUnique ==
    ASSUME NEW l, NEW st \in Seq(AnyStore), NEW f, NEW g, IsAfter(f, l, st), IsAfter(g, l, st)
    PROVE  f[Len(st)] = g[Len(st)]
<1>1. Len(st) \in Nat
  BY LenProperties
<1>2. \A n \in 0 .. Len(st) :
         /\ f[n] = IF n = 0 THEN l ELSE Apply1(f[n - 1], st[n])
         /\ g[n] = IF n = 0 THEN l ELSE Apply1(g[n - 1], st[n])
  BY DEF IsAfter
<1> DEFINE S == {n \in Nat : n <= Len(st) => f[n] = g[n]}
<1>3. 0 \in S
  BY <1>1, <1>2
<1>4. ASSUME NEW n \in Nat, n \in S PROVE n + 1 \in S
  <2> SUFFICES ASSUME n + 1 <= Len(st) PROVE f[n + 1] = g[n + 1]
    OBVIOUS
  <2>1. n + 1 \in 0 .. Len(st) /\ n + 1 # 0 /\ (n + 1) - 1 = n /\ n <= Len(st)
    BY <1>1
  <2> QED
    BY <1>2, <1>4, <2>1
<1> HIDE DEF S
<1>5. Nat \subseteq S
  BY <1>3, <1>4, Induction
<1> QED
  BY <1>1, <1>5 DEF S

LEMMA ApplyIs ==
    ASSUME NEW l \in LinkSet, NEW st \in Seq(AnyStore), NEW f, IsAfter(f, l, st)
    PROVE  Apply(l, st) = f[Len(st)]
  BY ApplyAfter, AfterUnique

LEMMA ApplyNone ==
    ASSUME NEW l \in LinkSet PROVE Apply(l, <<>>) = l
<1>1. <<>> \in Seq(AnyStore) /\ Len(<<>>) = 0 /\ 0 \in 0 .. 0
  OBVIOUS
<1>2. PICK f : IsAfter(f, l, <<>>) /\ Apply(l, <<>>) = f[0]
  BY <1>1, ApplyAfter
<1> QED
  BY <1>1, <1>2 DEF IsAfter

LEMMA ApplyTwo ==
    ASSUME NEW l \in LinkSet, NEW a \in AnyStore, NEW b \in AnyStore
    PROVE  Apply(l, <<a, b>>) = Apply1(Apply1(l, a), b)
<1> DEFINE st == <<a, b>>
<1>1. st \in Seq(AnyStore) /\ Len(st) = 2 /\ st[1] = a /\ st[2] = b
  OBVIOUS
<1> HIDE DEF st
<1>2. PICK f : IsAfter(f, l, st) /\ Apply(l, st) = f[2]
  BY <1>1, ApplyAfter
<1>3. \A n \in 0 .. 2 : f[n] = IF n = 0 THEN l ELSE Apply1(f[n - 1], st[n])
  BY <1>1, <1>2 DEF IsAfter
<1>4. f[0] = l /\ f[1] = Apply1(f[0], st[1]) /\ f[2] = Apply1(f[1], st[2])
  BY <1>3
<1> QED
  BY <1>1, <1>2, <1>4 DEF st

LEMMA ApplyFour ==
    ASSUME NEW l \in LinkSet, NEW a \in AnyStore, NEW b \in AnyStore,
           NEW c \in AnyStore, NEW d \in AnyStore
    PROVE  Apply(l, <<a, b, c, d>>) = Apply1(Apply1(Apply1(Apply1(l, a), b), c), d)
<1> DEFINE st == <<a, b, c, d>>
<1>1. st \in Seq(AnyStore) /\ Len(st) = 4 /\ st[1] = a /\ st[2] = b /\ st[3] = c /\ st[4] = d
  OBVIOUS
<1> HIDE DEF st
<1>2. PICK f : IsAfter(f, l, st) /\ Apply(l, st) = f[4]
  BY <1>1, ApplyAfter
<1>3. \A n \in 0 .. 4 : f[n] = IF n = 0 THEN l ELSE Apply1(f[n - 1], st[n])
  BY <1>1, <1>2 DEF IsAfter
<1>4. /\ f[0] = l /\ f[1] = Apply1(f[0], st[1]) /\ f[2] = Apply1(f[1], st[2])
      /\ f[3] = Apply1(f[2], st[3]) /\ f[4] = Apply1(f[3], st[4])
  BY <1>3
<1> QED
  BY <1>1, <1>2, <1>4 DEF st

LEMMA ApplyConcat ==
    ASSUME NEW l \in LinkSet, NEW a \in Seq(AnyStore), NEW b \in Seq(AnyStore)
    PROVE  Apply(l, a) \in LinkSet /\ Apply(l, a \o b) = Apply(Apply(l, a), b)
<1>1. /\ Len(a) \in Nat /\ Len(b) \in Nat
      /\ a \o b \in Seq(AnyStore) /\ Len(a \o b) = Len(a) + Len(b)
      /\ \A i \in 1 .. Len(a) + Len(b) :
            (a \o b)[i] = IF i <= Len(a) THEN a[i] ELSE b[i - Len(a)]
  BY LenProperties, ConcatProperties
<1>2. PICK f \in [0 .. Len(a) -> LinkSet] : IsAfter(f, l, a) /\ Apply(l, a) = f[Len(a)]
  BY ApplyAfter
<1>3. Apply(l, a) \in LinkSet
  BY <1>1, <1>2
<1>4. PICK g \in [0 .. Len(b) -> LinkSet] :
         IsAfter(g, Apply(l, a), b) /\ Apply(Apply(l, a), b) = g[Len(b)]
  BY <1>3, ApplyAfter
<1>5. \A n \in 0 .. Len(a) : f[n] = IF n = 0 THEN l ELSE Apply1(f[n - 1], a[n])
  BY <1>2 DEF IsAfter
<1>6. \A n \in 0 .. Len(b) : g[n] = IF n = 0 THEN f[Len(a)] ELSE Apply1(g[n - 1], b[n])
  BY <1>2, <1>4 DEF IsAfter
<1> DEFINE ab == a \o b
           h == [n \in 0 .. Len(ab) |-> IF n <= Len(a) THEN f[n] ELSE g[n - Len(a)]]
<1> HIDE DEF ab
<1>7. ASSUME NEW n \in 0 .. Len(ab)
      PROVE  h[n] = IF n = 0 THEN l ELSE Apply1(h[n - 1], ab[n])
  <2>1. n \in Nat /\ Len(ab) = Len(a) + Len(b) /\ n <= Len(a) + Len(b)
    BY <1>1 DEF ab
  <2>2. CASE n = 0
    BY <1>1, <1>5, <2>1, <2>2
  <2>3. CASE n # 0 /\ n <= Len(a)
    <3>1. n \in 0 .. Len(a) /\ n - 1 \in 0 .. Len(ab) /\ n - 1 <= Len(a) /\ n \in 1 .. Len(a) + Len(b)
      BY <1>1, <2>1, <2>3
    <3>2. h[n] = f[n] /\ h[n - 1] = f[n - 1] /\ ab[n] = a[n]
      BY <1>1, <2>3, <3>1 DEF ab
    <3> QED
      BY <1>5, <2>3, <3>1, <3>2
  <2>4. CASE n > Len(a)
    <3> DEFINE k == n - Len(a)
    <3>1. k \in 0 .. Len(b) /\ k # 0 /\ n - 1 \in 0 .. Len(ab) /\ n \in 1 .. Len(a) + Len(b)
          /\ ~(n <= Len(a)) /\ n # 0 /\ k - 1 = (n - 1) - Len(a)
      BY <1>1, <2>1, <2>4
    <3>2. h[n] = g[k] /\ ab[n] = b[k]
      BY <1>1, <3>1 DEF ab
    <3>3. h[n - 1] = g[k - 1]
      <4>1. CASE n - 1 <= Len(a)
        <5>1. k - 1 = 0 /\ n - 1 = Len(a) /\ 0 \in 0 .. Len(b)
          BY <1>1, <2>1, <2>4, <4>1
        <5> QED
          BY <1>6, <3>1, <4>1, <5>1
      <4>2. CASE ~(n - 1 <= Len(a))
        BY <3>1, <4>2
      <4> QED
        BY <4>1, <4>2
    <3>4. g[k] = Apply1(g[k - 1], b[k])
      BY <1>6, <3>1
    <3> QED
      BY <3>1, <3>2, <3>3, <3>4
  <2> QED
    BY <1>1, <2>1, <2>2, <2>3, <2>4
<1>8. IsAfter(h, l, ab)
  <2>1. h = [n \in 0 .. Len(ab) |-> h[n]]
    OBVIOUS
  <2> HIDE DEF h
  <2> QED
    BY <1>7, <2>1 DEF IsAfter
<1>9. h[Len(ab)] = g[Len(b)]
  <2>1. Len(ab) = Len(a) + Len(b) /\ Len(ab) \in 0 .. Len(ab)
    BY <1>1 DEF ab
  <2>2. CASE Len(b) = 0
    <3>1. Len(ab) <= Len(a) /\ Len(ab) = Len(a) /\ 0 \in 0 .. Len(b)
      BY <1>1, <2>1, <2>2
    <3> QED
      BY <1>6, <2>1, <2>2, <3>1
  <2>3. CASE Len(b) # 0
    <3>1. ~(Len(ab) <= Len(a)) /\ Len(ab) - Len(a) = Len(b)
      BY <1>1, <2>1, <2>3
    <3> QED
      BY <2>1, <3>1
  <2> QED
    BY <2>2, <2>3
<1> HIDE DEF h
<1>10. Apply(l, ab) = h[Len(ab)]
  <2>1. ab \in Seq(AnyStore)
    BY <1>1 DEF ab
  <2> QED
    BY <1>8, <2>1, ApplyIs
<1> QED
  BY <1>3, <1>4, <1>9, <1>10 DEF ab

(***************************************************************************)
(* Two lists that have no cell in common.                                  *)
(***************************************************************************)
Apart(h, s, g, t) ==
    \A i \in 0 .. Len(s), j \in 0 .. Len(t) : Spot(h, s, i) # Spot(g, t, j)

Two(l, h, s, g, t) ==
    /\ l \in LinkSet
    /\ h \in Cells /\ g \in Cells
    /\ s \in Entries(h) /\ t \in Entries(g)
    /\ Apart(h, s, g, t)
    /\ Ring(l, h, s) /\ Ring(l, g, t)

\* A cell of neither.
Outside(e, h, s, g, t) ==
    /\ e \in Cells
    /\ \A i \in 0 .. Len(s) : Spot(h, s, i) # e
    /\ \A i \in 0 .. Len(t) : Spot(g, t, i) # e

LEMMA TwoTurned ==
    ASSUME NEW l, NEW h, NEW s, NEW g, NEW t
    PROVE  /\ Two(l, h, s, g, t) => Two(l, g, t, h, s)
           /\ \A e : Outside(e, h, s, g, t) => Outside(e, g, t, h, s)
  BY DEF Two, Apart, Outside

LEMMA TwoLooks ==
    ASSUME NEW l, NEW s, NEW t, Two(l, lThreads, s, spare, t)
    PROVE  Are(l, s, t)
<1>1. /\ Visits(l, lThreads, "next") = s /\ Visits(l, spare, "next") = t
  BY VisitsChain DEF Two, Ring
<1>2. /\ Visits(l, lThreads, "prev") = Reverse(s) /\ Visits(l, spare, "prev") = Reverse(t)
  BY RingBackwards, VisitsChain DEF Two
<1> QED
  BY <1>1, <1>2 DEF Are, list_for_each, list_for_each_prev

LEMMA EmptyLooks ==
    ASSUME NEW l, NEW h, NEW s, NEW g, NEW t, Two(l, h, s, g, t)
    PROVE  /\ l[h]["next"] = Spot(h, s, 1) /\ Spot(h, s, 1) \in Cells
           /\ l[h]["prev"] = Spot(h, s, Len(s)) /\ Spot(h, s, Len(s)) \in Cells
           /\ list_empty(l, h) <=> s = <<>>
<1>1. h \in Cells /\ s \in Entries(h) /\ Ring(l, h, s)
  BY DEF Two
<1>2. /\ Len(s) \in Nat /\ Spot(h, s, 0) = h /\ Spot(h, s, Len(s) + 1) = h
      /\ \A i \in 1 .. Len(s) : Spot(h, s, i) = s[i] /\ s[i] # h
      /\ \A i \in 0 .. (Len(s) + 1) : Spot(h, s, i) \in Cells
  BY <1>1, SpotFacts
<1>3. l[h]["next"] = Spot(h, s, 1)
  <2>1. 0 \in 0 .. Len(s) /\ 0 + 1 = 1
    BY <1>2
  <2> QED
    BY <1>1, <1>2, <2>1 DEF Ring, Chain
<1>4. l[h]["prev"] = Spot(h, s, Len(s))
  <2>1. Len(s) \in 0 .. Len(s)
    BY <1>2
  <2> QED
    BY <1>1, <1>2, <2>1 DEF Ring
<1>5. s = <<>> <=> Len(s) = 0
  BY <1>1, EmptySeq DEF Entries
<1>6. Spot(h, s, 1) = h <=> Len(s) = 0
  <2>1. CASE Len(s) = 0
    BY <1>2, <2>1
  <2>2. CASE Len(s) # 0
    <3>1. 1 \in 1 .. Len(s)
      BY <1>2, <2>2
    <3> QED
      BY <1>2, <2>2, <3>1
  <2> QED
    BY <2>1, <2>2
<1>7. Spot(h, s, 1) \in Cells /\ Spot(h, s, Len(s)) \in Cells
  BY <1>2
<1> QED
  BY <1>3, <1>4, <1>5, <1>6, <1>7 DEF list_empty

\* Links that differ in other cells only show the same list.
LEMMA RingApart ==
    ASSUME NEW l, NEW m, NEW g \in Cells, NEW t \in Entries(g), Ring(l, g, t),
           \A j \in 0 .. Len(t) :
              /\ m[Spot(g, t, j)]["next"] = l[Spot(g, t, j)]["next"]
              /\ m[Spot(g, t, j)]["prev"] = l[Spot(g, t, j)]["prev"]
    PROVE  Ring(m, g, t)
<1>1. Len(t) \in Nat /\ Spot(g, t, 0) = g /\ Spot(g, t, Len(t) + 1) = g
  BY SpotFacts
<1>2. ASSUME NEW i \in 0 .. Len(t)
      PROVE  m[Spot(g, t, i)]["next"] = Spot(g, t, i + 1)
  BY DEF Ring, Chain
<1>3. ASSUME NEW i \in 0 .. Len(t)
      PROVE  m[Spot(g, t, i + 1)]["prev"] = Spot(g, t, i)
  <2>1. l[Spot(g, t, i + 1)]["prev"] = Spot(g, t, i)
    BY DEF Ring
  <2>2. CASE i + 1 \in 0 .. Len(t)
    BY <2>1, <2>2
  <2>3. CASE i + 1 = Len(t) + 1
    <3>1. Spot(g, t, i + 1) = Spot(g, t, 0) /\ 0 \in 0 .. Len(t)
      BY <1>1, <2>3
    <3> QED
      BY <2>1, <3>1
  <2> QED
    BY <1>1, <2>2, <2>3
<1> QED
  BY <1>2, <1>3 DEF Ring, Chain

-----------------------------------------------------------------------------
(* What the stores of each operation come to. *)

\* Stores of these cells, fields and values.
LEMMA StoreType ==
    ASSUME NEW c \in Cells, NEW f \in Fields, NEW v \in Cells \cup {NULL}
    PROVE  Store(c, f, v) \in AnyStore
  BY DEF Store, AnyStore

LEMMA DelStores ==
    ASSUME NEW l \in LinkSet, NEW prev \in Cells, NEW next \in Cells
    PROVE  /\ Del(prev, next) \in Seq(AnyStore)
           /\ Apply(l, Del(prev, next)) \in LinkSet
           /\ \A e : Parted(Apply(l, Del(prev, next)), l, prev, e, next)
<1> DEFINE a == Store(next, "prev", prev)
           b == Store(prev, "next", next)
           l1 == Apply1(l, a)
           l2 == Apply1(l1, b)
<1>1. a \in AnyStore /\ b \in AnyStore
  BY StoreType DEF Fields
<1>2. Changed(l1, l, next, "prev", prev)
  BY Stored DEF LinkSet, Fields
<1>3. l1 \in LinkSet
  BY <1>2 DEF Changed, LinkSet
<1>4. Changed(l2, l1, prev, "next", next)
  <2> HIDE DEF l1
  <2> QED
    BY <1>3, Stored DEF LinkSet, Fields
<1>5. Apply(l, Del(prev, next)) = l2
  BY <1>1, ApplyTwo DEF Del
<1>6. Del(prev, next) \in Seq(AnyStore)
  BY <1>1 DEF Del
<1> HIDE DEF l1, l2, a, b
<1>7. l2 \in LinkSet /\ \A e : Parted(l2, l, prev, e, next)
  BY <1>2, <1>4 DEF Changed, Parted, LinkSet, Fields
<1> QED
  BY <1>5, <1>6, <1>7

LEMMA AddStores ==
    ASSUME NEW l \in LinkSet, NEW new \in Cells, NEW prev \in Cells \ {new},
           NEW next \in Cells \ {new}
    PROVE  /\ Add(new, prev, next) \in Seq(AnyStore)
           /\ Apply(l, Add(new, prev, next)) \in LinkSet
           /\ Joined(Apply(l, Add(new, prev, next)), l, prev, new, next)
<1> DEFINE a == Store(next, "prev", new)
           b == Store(new, "next", next)
           c == Store(new, "prev", prev)
           d == Store(prev, "next", new)
           l1 == Apply1(l, a)
           l2 == Apply1(l1, b)
           l3 == Apply1(l2, c)
           l4 == Apply1(l3, d)
<1>1. a \in AnyStore /\ b \in AnyStore /\ c \in AnyStore /\ d \in AnyStore
  BY StoreType DEF Fields
<1>2. Changed(l1, l, next, "prev", new) /\ l1 \in LinkSet
  <2>1. Changed(l1, l, next, "prev", new)
    BY Stored DEF LinkSet, Fields
  <2> QED
    BY <2>1 DEF Changed, LinkSet
<1>3. Changed(l2, l1, new, "next", next) /\ l2 \in LinkSet
  <2> HIDE DEF l1
  <2>1. Changed(l2, l1, new, "next", next)
    BY <1>2, Stored DEF LinkSet, Fields
  <2> QED
    BY <2>1 DEF Changed, LinkSet
<1>4. Changed(l3, l2, new, "prev", prev) /\ l3 \in LinkSet
  <2> HIDE DEF l2
  <2>1. Changed(l3, l2, new, "prev", prev)
    BY <1>3, Stored DEF LinkSet, Fields
  <2> QED
    BY <2>1 DEF Changed, LinkSet
<1>5. Changed(l4, l3, prev, "next", new) /\ l4 \in LinkSet
  <2> HIDE DEF l3
  <2>1. Changed(l4, l3, prev, "next", new)
    BY <1>4, Stored DEF LinkSet, Fields
  <2> QED
    BY <2>1 DEF Changed, LinkSet
<1>6. Apply(l, Add(new, prev, next)) = l4
  BY <1>1, ApplyFour DEF Add
<1>7. Add(new, prev, next) \in Seq(AnyStore)
  BY <1>1 DEF Add
<1> HIDE DEF l1, l2, l3, l4, a, b, c, d
<1>8. Joined(l4, l, prev, new, next)
  BY <1>2, <1>3, <1>4, <1>5 DEF Changed, Joined, Fields
<1> QED
  BY <1>5, <1>6, <1>7, <1>8

\* Both pointers of one cell.
Reset(m, l, e, next, prev) ==
    \A c \in Cells :
       /\ m[c]["next"] = IF c = e THEN next ELSE l[c]["next"]
       /\ m[c]["prev"] = IF c = e THEN prev ELSE l[c]["prev"]

LEMMA ResetStores ==
    ASSUME NEW l \in LinkSet, NEW e \in Cells, NEW next \in Cells \cup {NULL},
           NEW prev \in Cells \cup {NULL}
    PROVE  LET st == <<Store(e, "next", next), Store(e, "prev", prev)>>
           IN  /\ st \in Seq(AnyStore) /\ Apply(l, st) \in LinkSet
               /\ Reset(Apply(l, st), l, e, next, prev)
<1> DEFINE a == Store(e, "next", next)
           b == Store(e, "prev", prev)
           l1 == Apply1(l, a)
           l2 == Apply1(l1, b)
<1>1. a \in AnyStore /\ b \in AnyStore
  BY StoreType DEF Fields
<1>2. Changed(l1, l, e, "next", next) /\ l1 \in LinkSet
  <2>1. Changed(l1, l, e, "next", next)
    BY Stored DEF LinkSet, Fields
  <2> QED
    BY <2>1 DEF Changed, LinkSet
<1>3. Changed(l2, l1, e, "prev", prev) /\ l2 \in LinkSet
  <2> HIDE DEF l1
  <2>1. Changed(l2, l1, e, "prev", prev)
    BY <1>2, Stored DEF LinkSet, Fields
  <2> QED
    BY <2>1 DEF Changed, LinkSet
<1>4. Apply(l, <<a, b>>) = l2 /\ <<a, b>> \in Seq(AnyStore)
  BY <1>1, ApplyTwo
<1>5. Reset(l2, l, e, next, prev)
  <2> HIDE DEF l1, l2, a, b
  <2> QED
    BY <1>2, <1>3 DEF Changed, Reset, Fields
<1> QED
  BY <1>3, <1>4, <1>5

-----------------------------------------------------------------------------
(* Taking out and putting in, with the other list looking on. *)

LEMMA ApartSpots ==
    ASSUME NEW l, NEW h, NEW s, NEW g, NEW t, Two(l, h, s, g, t)
    PROVE  \A i \in 0 .. (Len(s) + 1), j \in 0 .. (Len(t) + 1) : Spot(h, s, i) # Spot(g, t, j)
<1>1. /\ Len(s) \in Nat /\ Spot(h, s, 0) = h /\ Spot(h, s, Len(s) + 1) = h
      /\ Len(t) \in Nat /\ Spot(g, t, 0) = g /\ Spot(g, t, Len(t) + 1) = g
  BY SpotFacts DEF Two
<1> TAKE i \in 0 .. (Len(s) + 1), j \in 0 .. (Len(t) + 1)
<1>2. PICK i1 \in 0 .. Len(s) : Spot(h, s, i) = Spot(h, s, i1)
  <2>1. i \in 0 .. Len(s) \/ i = Len(s) + 1
    BY <1>1
  <2>2. 0 \in 0 .. Len(s)
    BY <1>1
  <2> QED
    BY <1>1, <2>1, <2>2
<1>3. PICK j1 \in 0 .. Len(t) : Spot(g, t, j) = Spot(g, t, j1)
  <2>1. j \in 0 .. Len(t) \/ j = Len(t) + 1
    BY <1>1
  <2>2. 0 \in 0 .. Len(t)
    BY <1>1
  <2> QED
    BY <1>1, <2>1, <2>2
<1> QED
  BY <1>2, <1>3 DEF Two, Apart

LEMMA TwoDel ==
    ASSUME NEW l, NEW h, NEW s, NEW g, NEW t, Two(l, h, s, g, t), NEW k \in 1 .. Len(s)
    PROVE  LET del == Del(l[s[k]]["prev"], l[s[k]]["next"])
               u == RemoveAt(s, k)
           IN  /\ del \in Seq(AnyStore)
               /\ Two(Apply(l, del), h, u, g, t)
               /\ Outside(s[k], h, u, g, t)
<1> DEFINE e == s[k]
           prev == Spot(h, s, k - 1)
           next == Spot(h, s, k + 1)
           del == Del(l[e]["prev"], l[e]["next"])
           m == Apply(l, del)
           u == RemoveAt(s, k)
<1>1. /\ l \in LinkSet /\ h \in Cells /\ g \in Cells /\ s \in Entries(h) /\ t \in Entries(g)
      /\ Ring(l, h, s) /\ Ring(l, g, t)
  BY DEF Two
<1>2. /\ Len(s) \in Nat /\ k \in Nat /\ 1 <= k /\ k <= Len(s)
      /\ Spot(h, s, k) = e /\ e \in Cells /\ e # h
      /\ \A i \in 0 .. (Len(s) + 1) : Spot(h, s, i) \in Cells
      /\ \A i, j \in 0 .. Len(s) : Spot(h, s, i) = Spot(h, s, j) => i = j
  BY <1>1, SpotFacts
<1>3. l[e]["prev"] = prev /\ l[e]["next"] = next /\ prev \in Cells /\ next \in Cells
  <2>1. /\ k \in 0 .. Len(s) /\ k - 1 \in 0 .. Len(s) /\ (k - 1) + 1 = k
        /\ k - 1 \in 0 .. (Len(s) + 1) /\ k + 1 \in 0 .. (Len(s) + 1)
    BY <1>2
  <2>2. l[Spot(h, s, k)]["next"] = next
    BY <1>1, <2>1 DEF Ring, Chain
  <2>3. l[Spot(h, s, k)]["prev"] = prev
    BY <1>1, <2>1 DEF Ring
  <2> QED
    BY <1>2, <2>1, <2>2, <2>3
<1>4. del = Del(prev, next)
  BY <1>3
<1> HIDE DEF del
<1>5. del \in Seq(AnyStore) /\ m \in LinkSet /\ Parted(m, l, prev, e, next)
  <2> HIDE DEF prev, next
  <2> QED
    BY <1>1, <1>3, <1>4, DelStores
<1>6. u \in Seq(Cells \ {h}) /\ Removed(u, s, k)
  <2>1. s \in Seq(Cells \ {h})
    BY <1>1 DEF Entries
  <2> QED
    BY <2>1, RemoveAtRemoves
<1> HIDE DEF m, u, e
<1>7. u \in Entries(h) /\ Ring(m, h, u)
  BY <1>1, <1>2, <1>5, <1>6, RemoveRing DEF LinkSet, e
<1>8. /\ Len(u) = Len(s) - 1
      /\ \A i \in 0 .. (k - 1) : Spot(h, u, i) = Spot(h, s, i)
      /\ \A i \in k .. Len(s) : Spot(h, u, i) = Spot(h, s, i + 1)
  <2>1. Len(u) = Len(s) - 1
    BY <1>6 DEF Removed
  <2> QED
    BY <1>1, <1>6, <2>1, RemovedSpots
<1>9. ASSUME NEW i \in 0 .. Len(u)
      PROVE  \E j \in 0 .. Len(s) : j # k /\ Spot(h, u, i) = Spot(h, s, j)
  <2>1. CASE i < k
    <3>1. i \in 0 .. (k - 1) /\ i \in 0 .. Len(s) /\ i # k
      BY <1>2, <1>8, <2>1
    <3> QED
      BY <1>8, <3>1
  <2>2. CASE ~(i < k)
    <3>1. i \in k .. Len(s) /\ i + 1 \in 0 .. Len(s) /\ i + 1 # k
      BY <1>2, <1>8, <2>2
    <3> QED
      BY <1>8, <3>1
  <2> QED
    BY <2>1, <2>2
<1>10. Apart(h, u, g, t)
  BY <1>9 DEF Two, Apart
<1>11. k \in 0 .. Len(s)
  BY <1>2
<1>12. Outside(e, h, u, g, t)
  <2>1. \A i \in 0 .. Len(u) : Spot(h, u, i) # e
    BY <1>2, <1>9, <1>11
  <2>2. \A j \in 0 .. Len(t) : Spot(g, t, j) # e
    BY <1>2, <1>11 DEF Two, Apart
  <2> QED
    BY <1>2, <2>1, <2>2 DEF Outside
<1>13. Ring(m, g, t)
  <2>1. ASSUME NEW j \in 0 .. Len(t)
        PROVE  /\ m[Spot(g, t, j)]["next"] = l[Spot(g, t, j)]["next"]
               /\ m[Spot(g, t, j)]["prev"] = l[Spot(g, t, j)]["prev"]
    <3>1. j \in 0 .. (Len(t) + 1) /\ k - 1 \in 0 .. (Len(s) + 1) /\ k + 1 \in 0 .. (Len(s) + 1)
          /\ Len(t) \in Nat /\ k \in 0 .. (Len(s) + 1)
      BY <1>1, <1>2, SpotFacts
    <3>2. Spot(g, t, j) # prev /\ Spot(g, t, j) # next /\ Spot(g, t, j) # e
      BY <1>2, <3>1, ApartSpots
    <3>3. Spot(g, t, j) \in Cells \ {e}
      BY <1>1, <3>1, <3>2, SpotFacts
    <3> QED
      BY <1>5, <3>2, <3>3 DEF Parted
  <2> QED
    BY <1>1, <2>1, RingApart
<1>14. Two(m, h, u, g, t)
  BY <1>1, <1>5, <1>7, <1>10, <1>13 DEF Two
<1> QED
  BY <1>5, <1>12, <1>14 DEF m, u, del, e

LEMMA TwoAdd ==
    ASSUME NEW l, NEW h, NEW s, NEW g, NEW t, Two(l, h, s, g, t),
           NEW e, Outside(e, h, s, g, t), NEW k \in 0 .. Len(s),
           NEW u \in Seq(Cells \ {h}), Inserted(u, s, k, e)
    PROVE  LET add == Add(e, Spot(h, s, k), Spot(h, s, k + 1))
           IN  add \in Seq(AnyStore) /\ Two(Apply(l, add), h, u, g, t)
<1> DEFINE prev == Spot(h, s, k)
           next == Spot(h, s, k + 1)
           add == Add(e, prev, next)
           m == Apply(l, add)
<1>1. /\ l \in LinkSet /\ h \in Cells /\ g \in Cells /\ s \in Entries(h) /\ t \in Entries(g)
      /\ Ring(l, h, s) /\ Ring(l, g, t)
  BY DEF Two
<1>2. /\ Len(s) \in Nat /\ Spot(h, s, 0) = h /\ Spot(h, s, Len(s) + 1) = h
      /\ \A i \in 0 .. (Len(s) + 1) : Spot(h, s, i) \in Cells
      /\ \A i \in 1 .. Len(s) : Spot(h, s, i) = s[i]
  BY <1>1, SpotFacts
<1>3. e \in Cells /\ e # h /\ \A i \in 0 .. (Len(s) + 1) : Spot(h, s, i) # e
  <2>1. \A i \in 0 .. (Len(s) + 1) : i \in 0 .. Len(s) \/ i = Len(s) + 1
    BY <1>2
  <2>2. 0 \in 0 .. Len(s)
    BY <1>2
  <2> QED
    BY <1>2, <2>1, <2>2 DEF Outside
<1>4. k \in 0 .. (Len(s) + 1) /\ k + 1 \in 0 .. (Len(s) + 1) /\ k \in Nat
  BY <1>2
<1>5. prev \in Cells \ {e} /\ next \in Cells \ {e}
  BY <1>2, <1>3, <1>4
<1>6. add \in Seq(AnyStore) /\ m \in LinkSet /\ Joined(m, l, prev, e, next)
  <2> HIDE DEF prev, next
  <2> QED
    BY <1>1, <1>3, <1>5, AddStores
<1> HIDE DEF m, add
<1>7. e \in Cells \ {h} /\ \A i \in 1 .. Len(s) : s[i] # e
  <2>1. \A i \in 1 .. Len(s) : i \in 0 .. (Len(s) + 1)
    BY <1>2
  <2> QED
    BY <1>2, <1>3, <2>1
<1>8. u \in Entries(h) /\ Ring(m, h, u)
  BY <1>1, <1>6, <1>7, InsertRing DEF LinkSet
<1>9. /\ Len(u) = Len(s) + 1
      /\ \A i \in 0 .. k : Spot(h, u, i) = Spot(h, s, i)
      /\ Spot(h, u, k + 1) = e
      /\ \A i \in (k + 2) .. (Len(s) + 2) : Spot(h, u, i) = Spot(h, s, i - 1)
  <2>1. Len(u) = Len(s) + 1
    BY DEF Inserted
  <2> QED
    BY <1>1, <1>7, <2>1, InsertedSpots
<1>10. ASSUME NEW i \in 0 .. Len(u)
       PROVE  Spot(h, u, i) = e \/ \E j \in 0 .. Len(s) : Spot(h, u, i) = Spot(h, s, j)
  <2>1. CASE i <= k
    <3>1. i \in 0 .. k /\ i \in 0 .. Len(s)
      BY <1>2, <1>4, <1>9, <2>1
    <3> QED
      BY <1>9, <3>1
  <2>2. CASE i = k + 1
    BY <1>9, <2>2
  <2>3. CASE i > k + 1
    <3>1. i \in (k + 2) .. (Len(s) + 2) /\ i - 1 \in 0 .. Len(s)
      BY <1>2, <1>4, <1>9, <2>3
    <3> QED
      BY <1>9, <3>1
  <2> QED
    BY <1>4, <1>9, <2>1, <2>2, <2>3
<1>11. Apart(h, u, g, t)
  <2> SUFFICES ASSUME NEW i \in 0 .. Len(u), NEW j \in 0 .. Len(t)
               PROVE  Spot(h, u, i) # Spot(g, t, j)
    BY DEF Apart
  <2>1. Spot(g, t, j) # e
    BY DEF Outside
  <2>2. \A i1 \in 0 .. Len(s) : Spot(h, s, i1) # Spot(g, t, j)
    BY DEF Two, Apart
  <2> QED
    BY <1>10, <2>1, <2>2
<1>12. Ring(m, g, t)
  <2>1. ASSUME NEW j \in 0 .. Len(t)
        PROVE  /\ m[Spot(g, t, j)]["next"] = l[Spot(g, t, j)]["next"]
               /\ m[Spot(g, t, j)]["prev"] = l[Spot(g, t, j)]["prev"]
    <3>1. j \in 0 .. (Len(t) + 1) /\ Len(t) \in Nat
      BY <1>1, SpotFacts
    <3>2. Spot(g, t, j) # prev /\ Spot(g, t, j) # next /\ Spot(g, t, j) # e
      BY <1>4, <3>1, ApartSpots DEF Outside
    <3>3. Spot(g, t, j) \in Cells
      BY <1>1, <3>1, SpotFacts
    <3> QED
      BY <1>6, <3>2, <3>3 DEF Joined
  <2> QED
    BY <1>1, <2>1, RingApart
<1>13. Two(m, h, u, g, t)
  BY <1>1, <1>6, <1>8, <1>11, <1>12 DEF Two
<1> QED
  BY <1>6, <1>13 DEF m, add

\* A cell of neither list may take any pointers.
LEMMA TwoReset ==
    ASSUME NEW l, NEW h, NEW s, NEW g, NEW t, Two(l, h, s, g, t),
           NEW e, Outside(e, h, s, g, t),
           NEW m \in LinkSet, NEW next, NEW prev, Reset(m, l, e, next, prev)
    PROVE  Two(m, h, s, g, t)
<1>1. h \in Cells /\ g \in Cells /\ s \in Entries(h) /\ t \in Entries(g)
      /\ Ring(l, h, s) /\ Ring(l, g, t)
  BY DEF Two
<1>2. /\ \A i \in 0 .. Len(s) : Spot(h, s, i) \in Cells \ {e}
      /\ \A i \in 0 .. Len(t) : Spot(g, t, i) \in Cells \ {e}
  <2>1. /\ Len(s) \in Nat /\ \A i \in 0 .. (Len(s) + 1) : Spot(h, s, i) \in Cells
        /\ Len(t) \in Nat /\ \A i \in 0 .. (Len(t) + 1) : Spot(g, t, i) \in Cells
    BY <1>1, SpotFacts
  <2> QED
    BY <2>1 DEF Outside
<1>3. Ring(m, h, s)
  BY <1>1, <1>2, RingApart DEF Reset
<1>4. Ring(m, g, t)
  BY <1>1, <1>2, RingApart DEF Reset
<1> QED
  BY <1>3, <1>4 DEF Two

LEMMA AppendInserts ==
    ASSUME NEW S, NEW s \in Seq(S), NEW new \in S
    PROVE  Append(s, new) \in Seq(S) /\ Inserted(Append(s, new), s, Len(s), new)
<1> DEFINE t == Append(s, new)
<1>1. Len(s) \in Nat
  BY LenProperties
<1>2. /\ t \in Seq(S) /\ Len(t) = Len(s) + 1
      /\ \A i \in 1 .. Len(s) : t[i] = s[i]
      /\ t[Len(s) + 1] = new
  BY AppendProperties
<1> HIDE DEF t
<1>3. ASSUME NEW i \in 1 .. (Len(s) + 1)
      PROVE  t[i] = IF i <= Len(s) THEN s[i] ELSE IF i = Len(s) + 1 THEN new ELSE s[i - 1]
  BY <1>1, <1>2
<1> QED
  BY <1>2, <1>3 DEF Inserted, t

LEMMA AddFront ==
    ASSUME NEW l, NEW h, NEW s, NEW g, NEW t, Two(l, h, s, g, t),
           NEW e, Outside(e, h, s, g, t)
    PROVE  /\ list_add(l, e, h) \in Seq(AnyStore)
           /\ Two(Apply(l, list_add(l, e, h)), h, <<e>> \o s, g, t)
<1>1. h \in Cells /\ s \in Entries(h) /\ s \in Seq(Cells \ {h}) /\ Len(s) \in Nat
      /\ Spot(h, s, 0) = h
  BY SpotFacts DEF Two, Entries
<1>2. e \in Cells \ {h} /\ 0 \in 0 .. Len(s) /\ 0 + 1 = 1
  BY <1>1 DEF Outside
<1>3. Cons(e, s) \in Seq(Cells \ {h}) /\ Inserted(Cons(e, s), s, 0, e)
  BY <1>1, <1>2, ConsInserts
<1>4. list_add(l, e, h) = Add(e, Spot(h, s, 0), Spot(h, s, 0 + 1))
  BY <1>1, <1>2, EmptyLooks DEF list_add
<1> DEFINE add == Add(e, Spot(h, s, 0), Spot(h, s, 0 + 1))
<1>5. add \in Seq(AnyStore) /\ Two(Apply(l, add), h, Cons(e, s), g, t)
  BY <1>2, <1>3, TwoAdd
<1> QED
  BY <1>4, <1>5 DEF Cons

LEMMA AddBack ==
    ASSUME NEW l, NEW h, NEW s, NEW g, NEW t, Two(l, h, s, g, t),
           NEW e, Outside(e, h, s, g, t)
    PROVE  /\ list_add_tail(l, e, h) \in Seq(AnyStore)
           /\ Two(Apply(l, list_add_tail(l, e, h)), h, Append(s, e), g, t)
<1>1. h \in Cells /\ s \in Entries(h) /\ s \in Seq(Cells \ {h}) /\ Len(s) \in Nat
      /\ Spot(h, s, Len(s) + 1) = h /\ Spot(h, s, 0) = h
  BY SpotFacts DEF Two, Entries
<1>2. e \in Cells \ {h} /\ Len(s) \in 0 .. Len(s)
  <2>1. 0 \in 0 .. Len(s)
    BY <1>1
  <2> QED
    BY <1>1, <2>1 DEF Outside
<1>3. Append(s, e) \in Seq(Cells \ {h}) /\ Inserted(Append(s, e), s, Len(s), e)
  BY <1>1, <1>2, AppendInserts
<1>4. list_add_tail(l, e, h) = Add(e, Spot(h, s, Len(s)), Spot(h, s, Len(s) + 1))
  BY <1>1, EmptyLooks DEF list_add_tail
<1> DEFINE add == Add(e, Spot(h, s, Len(s)), Spot(h, s, Len(s) + 1))
<1>5. add \in Seq(AnyStore) /\ Two(Apply(l, add), h, Append(s, e), g, t)
  BY <1>2, <1>3, TwoAdd
<1> QED
  BY <1>4, <1>5

(***************************************************************************)
(* Taking out an entry for good, and moving it.                            *)
(***************************************************************************)
LEMMA TakenOut ==
    ASSUME NEW l, NEW h, NEW s, NEW g, NEW t, Two(l, h, s, g, t), NEW k \in 1 .. Len(s)
    PROVE  /\ Two(Apply(l, list_del(l, s[k])), h, RemoveAt(s, k), g, t)
           /\ Two(Apply(l, list_del_init(l, s[k])), h, RemoveAt(s, k), g, t)
           /\ list_empty(Apply(l, list_del_init(l, s[k])), s[k])
<1> DEFINE e == s[k]
           del == Del(l[e]["prev"], l[e]["next"])
           m == Apply(l, del)
           u == RemoveAt(s, k)
           null == <<Store(e, "next", NULL), Store(e, "prev", NULL)>>
           init == <<Store(e, "next", e), Store(e, "prev", e)>>
<1>1. del \in Seq(AnyStore) /\ Two(m, h, u, g, t) /\ Outside(e, h, u, g, t)
  BY TwoDel
<1>2. l \in LinkSet /\ e \in Cells
  BY <1>1 DEF Two, Outside
<1>3. list_del(l, e) = del \o null /\ list_del_init(l, e) = del \o init
  BY DEF list_del, list_del_init, init_list_head
<1> HIDE DEF e, del, m, u
<1>4. m \in LinkSet
  BY <1>1 DEF Two
<1>5. /\ null \in Seq(AnyStore) /\ Apply(m, null) \in LinkSet
      /\ Reset(Apply(m, null), m, e, NULL, NULL)
  BY <1>2, <1>4, ResetStores
<1>6. /\ init \in Seq(AnyStore) /\ Apply(m, init) \in LinkSet
      /\ Reset(Apply(m, init), m, e, e, e)
  BY <1>2, <1>4, ResetStores
<1> HIDE DEF null, init
<1>7. Two(Apply(m, null), h, u, g, t) /\ Two(Apply(m, init), h, u, g, t)
  BY <1>1, <1>5, <1>6, TwoReset
<1>8. Apply(l, del \o null) = Apply(m, null) /\ Apply(l, del \o init) = Apply(m, init)
  BY <1>1, <1>2, <1>5, <1>6, ApplyConcat DEF m
<1>9. list_empty(Apply(m, init), e)
  BY <1>2, <1>6 DEF Reset, list_empty
<1> QED
  BY <1>3, <1>7, <1>8, <1>9 DEF e, u

LEMMA Moved ==
    ASSUME NEW l, NEW h, NEW s, NEW g, NEW t, Two(l, h, s, g, t), NEW k \in 1 .. Len(s)
    PROVE  /\ Two(Apply(l, list_move(l, s[k], g)), h, RemoveAt(s, k), g, <<s[k]>> \o t)
           /\ Two(Apply(l, list_move(l, s[k], h)), h, <<s[k]>> \o RemoveAt(s, k), g, t)
           /\ Two(Apply(l, list_move_tail(l, s[k], g)), h, RemoveAt(s, k), g, Append(t, s[k]))
<1> DEFINE e == s[k]
           del == Del(l[e]["prev"], l[e]["next"])
           m == Apply(l, del)
           u == RemoveAt(s, k)
<1>1. del \in Seq(AnyStore) /\ Two(m, h, u, g, t) /\ Outside(e, h, u, g, t)
  BY TwoDel
<1>2. l \in LinkSet
  BY DEF Two
<1>3. /\ list_move(l, e, g) = del \o list_add(m, e, g)
      /\ list_move(l, e, h) = del \o list_add(m, e, h)
      /\ list_move_tail(l, e, g) = del \o list_add_tail(m, e, g)
  BY DEF list_move, list_move_tail
<1> HIDE DEF e, del, m, u
<1>4. Two(m, g, t, h, u) /\ Outside(e, g, t, h, u)
  BY <1>1, TwoTurned
<1>5. /\ list_add(m, e, g) \in Seq(AnyStore)
      /\ Two(Apply(m, list_add(m, e, g)), g, <<e>> \o t, h, u)
  BY <1>4, AddFront
<1>6. /\ list_add(m, e, h) \in Seq(AnyStore)
      /\ Two(Apply(m, list_add(m, e, h)), h, <<e>> \o u, g, t)
  BY <1>1, AddFront
<1>7. /\ list_add_tail(m, e, g) \in Seq(AnyStore)
      /\ Two(Apply(m, list_add_tail(m, e, g)), g, Append(t, e), h, u)
  BY <1>4, AddBack
<1>8. /\ Apply(l, del \o list_add(m, e, g)) = Apply(m, list_add(m, e, g))
      /\ Apply(l, del \o list_add(m, e, h)) = Apply(m, list_add(m, e, h))
      /\ Apply(l, del \o list_add_tail(m, e, g)) = Apply(m, list_add_tail(m, e, g))
  BY <1>1, <1>2, <1>5, <1>6, <1>7, ApplyConcat DEF m
<1>9. /\ Two(Apply(m, list_add(m, e, g)), h, u, g, <<e>> \o t)
      /\ Two(Apply(m, list_add_tail(m, e, g)), h, u, g, Append(t, e))
  BY <1>5, <1>7, TwoTurned
<1> QED
  BY <1>3, <1>6, <1>8, <1>9 DEF e, u

-----------------------------------------------------------------------------
(* Splicing. *)

LEMMA ConcatSpots ==
    ASSUME NEW l, NEW h, NEW s, NEW g, NEW t, Two(l, h, s, g, t)
    PROVE  /\ t \o s \in Entries(h) /\ Len(t \o s) = Len(t) + Len(s)
           /\ \A i \in 1 .. Len(t) : Spot(h, t \o s, i) = Spot(g, t, i)
           /\ \A i \in (Len(t) + 1) .. (Len(t) + Len(s) + 1) :
                 Spot(h, t \o s, i) = Spot(h, s, i - Len(t))
<1>1. /\ h \in Cells /\ g \in Cells /\ s \in Entries(h) /\ t \in Entries(g)
      /\ s \in Seq(Cells \ {h}) /\ t \in Seq(Cells) /\ Len(s) \in Nat /\ Len(t) \in Nat
  <2>1. h \in Cells /\ g \in Cells /\ s \in Entries(h) /\ t \in Entries(g)
    BY DEF Two
  <2>2. t \in Seq(Cells \ {g}) /\ s \in Seq(Cells \ {h})
    BY <2>1 DEF Entries
  <2> QED
    BY <2>1, <2>2, SeqMonotonic, LenProperties
<1>2. /\ \A i \in 1 .. Len(s) : Spot(h, s, i) = s[i]
      /\ \A i \in 1 .. Len(t) : Spot(g, t, i) = t[i] /\ t[i] \in Cells
      /\ \A i, j \in 0 .. Len(s) : Spot(h, s, i) = Spot(h, s, j) => i = j
      /\ \A i, j \in 0 .. Len(t) : Spot(g, t, i) = Spot(g, t, j) => i = j
      /\ Spot(h, s, 0) = h
  BY <1>1, SpotFacts
<1>3. /\ \A i \in 0 .. Len(s), j \in 0 .. Len(t) : Spot(h, s, i) # Spot(g, t, j)
  BY DEF Two, Apart
<1>4. t \in Seq(Cells \ {h})
  <2>1. ASSUME NEW i \in 1 .. Len(t) PROVE t[i] \in Cells \ {h}
    <3>1. 0 \in 0 .. Len(s) /\ i \in 0 .. Len(t)
      BY <1>1
    <3> QED
      BY <1>2, <1>3, <3>1
  <2> QED
    BY <1>1, <2>1, SeqDef, LenProperties
<1> DEFINE u == t \o s
<1>5. /\ u \in Seq(Cells \ {h}) /\ Len(u) = Len(t) + Len(s)
      /\ \A i \in 1 .. Len(t) + Len(s) : u[i] = IF i <= Len(t) THEN t[i] ELSE s[i - Len(t)]
  BY <1>1, <1>4, ConcatProperties
<1> HIDE DEF u
<1>6. DOMAIN u = 1 .. (Len(t) + Len(s))
  BY <1>5
<1>7. \A i \in 1 .. Len(t) : Spot(h, u, i) = Spot(g, t, i)
  <2> TAKE i \in 1 .. Len(t)
  <2>1. i \in 1 .. Len(t) + Len(s) /\ i <= Len(t)
    BY <1>1
  <2> QED
    BY <1>2, <1>5, <2>1 DEF Spot
<1>8. \A i \in (Len(t) + 1) .. (Len(t) + Len(s) + 1) : Spot(h, u, i) = Spot(h, s, i - Len(t))
  <2> TAKE i \in (Len(t) + 1) .. (Len(t) + Len(s) + 1)
  <2>1. CASE i = Len(t) + Len(s) + 1
    <3>1. i \notin 1 .. Len(u) /\ i - Len(t) \notin 1 .. Len(s)
      BY <1>1, <1>5, <2>1
    <3> QED
      BY <3>1 DEF Spot
  <2>2. CASE i # Len(t) + Len(s) + 1
    <3>1. i \in 1 .. Len(t) + Len(s) /\ ~(i <= Len(t)) /\ i - Len(t) \in 1 .. Len(s)
      BY <1>1, <2>2
    <3> QED
      BY <1>5, <3>1 DEF Spot
  <2> QED
    BY <2>1, <2>2
<1>9. ASSUME NEW i \in 1 .. (Len(t) + Len(s)), NEW j \in 1 .. (Len(t) + Len(s)), u[i] = u[j]
      PROVE  i = j
  <2>1. /\ i <= Len(t) => u[i] = Spot(g, t, i) /\ i \in 0 .. Len(t)
        /\ ~(i <= Len(t)) => u[i] = Spot(h, s, i - Len(t)) /\ i - Len(t) \in 0 .. Len(s)
    <3>1. i <= Len(t) => i \in 1 .. Len(t) /\ i \in 0 .. Len(t)
      BY <1>1
    <3>2. ~(i <= Len(t)) => i - Len(t) \in 1 .. Len(s) /\ i - Len(t) \in 0 .. Len(s)
      BY <1>1
    <3> QED
      BY <1>2, <1>5, <3>1, <3>2
  <2>2. /\ j <= Len(t) => u[j] = Spot(g, t, j) /\ j \in 0 .. Len(t)
        /\ ~(j <= Len(t)) => u[j] = Spot(h, s, j - Len(t)) /\ j - Len(t) \in 0 .. Len(s)
    <3>1. j <= Len(t) => j \in 1 .. Len(t) /\ j \in 0 .. Len(t)
      BY <1>1
    <3>2. ~(j <= Len(t)) => j - Len(t) \in 1 .. Len(s) /\ j - Len(t) \in 0 .. Len(s)
      BY <1>1
    <3> QED
      BY <1>2, <1>5, <3>1, <3>2
  <2>3. CASE i <= Len(t) /\ j <= Len(t)
    BY <1>2, <1>9, <2>1, <2>2, <2>3
  <2>4. CASE i <= Len(t) /\ ~(j <= Len(t))
    BY <1>3, <1>9, <2>1, <2>2, <2>4
  <2>5. CASE ~(i <= Len(t)) /\ j <= Len(t)
    BY <1>3, <1>9, <2>1, <2>2, <2>5
  <2>6. CASE ~(i <= Len(t)) /\ ~(j <= Len(t))
    <3>1. i - Len(t) = j - Len(t)
      BY <1>2, <1>9, <2>1, <2>2, <2>6
    <3> QED
      BY <1>1, <3>1
  <2> QED
    BY <2>3, <2>4, <2>5, <2>6
<1>10. u \in Entries(h)
  BY <1>5, <1>6, <1>9 DEF Entries, IsInjective
<1> QED
  BY <1>5, <1>7, <1>8, <1>10 DEF u

\* m is l with the list from first to last between h and at.
Spliced(m, l, h, first, last, at) ==
    \A c \in Cells :
       /\ m[c]["next"] = IF c = last THEN at ELSE IF c = h THEN first ELSE l[c]["next"]
       /\ m[c]["prev"] = IF c = at THEN last ELSE IF c = first THEN h ELSE l[c]["prev"]

LEMMA SpliceStores ==
    ASSUME NEW l \in LinkSet, NEW h \in Cells, NEW g \in Cells,
           l[g]["next"] \in Cells, l[g]["prev"] \in Cells, l[h]["next"] \in Cells
    PROVE  /\ Splice(l, g, h) \in Seq(AnyStore)
           /\ Apply(l, Splice(l, g, h)) \in LinkSet
           /\ Spliced(Apply(l, Splice(l, g, h)), l, h, l[g]["next"], l[g]["prev"], l[h]["next"])
<1> DEFINE first == l[g]["next"]
           last == l[g]["prev"]
           at == l[h]["next"]
           a == Store(first, "prev", h)
           b == Store(h, "next", first)
           c == Store(last, "next", at)
           d == Store(at, "prev", last)
           l1 == Apply1(l, a)
           l2 == Apply1(l1, b)
           l3 == Apply1(l2, c)
           l4 == Apply1(l3, d)
<1>1. a \in AnyStore /\ b \in AnyStore /\ c \in AnyStore /\ d \in AnyStore
  BY StoreType DEF Fields
<1>2. Splice(l, g, h) = <<a, b, c, d>>
  BY DEF Splice
<1>3. Apply(l, Splice(l, g, h)) = l4 /\ Splice(l, g, h) \in Seq(AnyStore)
  <2> HIDE DEF a, b, c, d
  <2> QED
    BY <1>1, <1>2, ApplyFour
<1>4. first \in Cells /\ last \in Cells /\ at \in Cells
  OBVIOUS
<1> HIDE DEF first, last, at
<1>5. Changed(l1, l, first, "prev", h) /\ l1 \in LinkSet
  <2>1. Changed(l1, l, first, "prev", h)
    BY <1>4, Stored DEF LinkSet, Fields
  <2> QED
    BY <2>1 DEF Changed, LinkSet
<1>6. Changed(l2, l1, h, "next", first) /\ l2 \in LinkSet
  <2> HIDE DEF l1
  <2>1. Changed(l2, l1, h, "next", first)
    BY <1>4, <1>5, Stored DEF LinkSet, Fields
  <2> QED
    BY <2>1 DEF Changed, LinkSet
<1>7. Changed(l3, l2, last, "next", at) /\ l3 \in LinkSet
  <2> HIDE DEF l2
  <2>1. Changed(l3, l2, last, "next", at)
    BY <1>4, <1>6, Stored DEF LinkSet, Fields
  <2> QED
    BY <2>1 DEF Changed, LinkSet
<1>8. Changed(l4, l3, at, "prev", last) /\ l4 \in LinkSet
  <2> HIDE DEF l3
  <2>1. Changed(l4, l3, at, "prev", last)
    BY <1>4, <1>7, Stored DEF LinkSet, Fields
  <2> QED
    BY <2>1 DEF Changed, LinkSet
<1> HIDE DEF l1, l2, l3, l4, a, b, c, d
<1>9. Spliced(l4, l, h, first, last, at)
  BY <1>5, <1>6, <1>7, <1>8 DEF Changed, Spliced, Fields
<1> QED
  BY <1>3, <1>8, <1>9 DEF first, last, at

(***************************************************************************)
(* A list that is not empty goes in front of another.                      *)
(***************************************************************************)
LEMMA SpliceRing ==
    ASSUME NEW l, NEW h, NEW s, NEW g, NEW t, Two(l, h, s, g, t), t # <<>>
    PROVE  /\ Splice(l, g, h) \in Seq(AnyStore)
           /\ Apply(l, Splice(l, g, h)) \in LinkSet
           /\ t \o s \in Entries(h)
           /\ Ring(Apply(l, Splice(l, g, h)), h, t \o s)
           /\ \A i \in 0 .. Len(t \o s) : Spot(h, t \o s, i) # g
<1> DEFINE u == t \o s
           m == Apply(l, Splice(l, g, h))
           first == Spot(g, t, 1)
           last == Spot(g, t, Len(t))
           at == Spot(h, s, 1)
<1>1. /\ l \in LinkSet /\ h \in Cells /\ g \in Cells /\ s \in Entries(h) /\ t \in Entries(g)
      /\ Ring(l, h, s) /\ Ring(l, g, t)
  BY DEF Two
<1>2. /\ Len(s) \in Nat /\ Spot(h, s, 0) = h /\ Spot(h, s, Len(s) + 1) = h
      /\ \A i \in 0 .. (Len(s) + 1) : Spot(h, s, i) \in Cells
      /\ \A i, j \in 0 .. Len(s) : Spot(h, s, i) = Spot(h, s, j) => i = j
      /\ \A i, j \in 1 .. (Len(s) + 1) : Spot(h, s, i) = Spot(h, s, j) => i = j
  BY <1>1, SpotFacts
<1>3. /\ Len(t) \in Nat /\ Spot(g, t, 0) = g
      /\ \A i \in 0 .. (Len(t) + 1) : Spot(g, t, i) \in Cells
      /\ \A i, j \in 0 .. Len(t) : Spot(g, t, i) = Spot(g, t, j) => i = j
  BY <1>1, SpotFacts
<1>4. Len(t) # 0
  BY <1>1, EmptySeq DEF Entries
<1>5. \A i \in 0 .. (Len(s) + 1), j \in 0 .. (Len(t) + 1) : Spot(h, s, i) # Spot(g, t, j)
  BY ApartSpots
<1>6. /\ l[g]["next"] = first /\ first \in Cells /\ l[g]["prev"] = last /\ last \in Cells
      /\ l[h]["next"] = at /\ at \in Cells
  <2>1. Two(l, g, t, h, s)
    BY TwoTurned
  <2> QED
    BY <2>1, EmptyLooks
<1>7. Splice(l, g, h) \in Seq(AnyStore) /\ m \in LinkSet /\ Spliced(m, l, h, first, last, at)
  <2> HIDE DEF first, last, at
  <2> QED
    BY <1>1, <1>6, SpliceStores
<1>8. /\ u \in Entries(h) /\ Len(u) = Len(t) + Len(s)
      /\ \A i \in 1 .. Len(t) : Spot(h, u, i) = Spot(g, t, i)
      /\ \A i \in (Len(t) + 1) .. (Len(t) + Len(s) + 1) : Spot(h, u, i) = Spot(h, s, i - Len(t))
  BY ConcatSpots
<1> HIDE DEF u, m
<1>9. Spot(h, u, 0) = h
  BY <1>1, <1>8, SpotFacts
<1>10. ASSUME NEW i \in 0 .. Len(u)
       PROVE  \/ i = 0
              \/ i \in 1 .. (Len(t) - 1)
              \/ i = Len(t)
              \/ i \in (Len(t) + 1) .. (Len(t) + Len(s))
  BY <1>2, <1>3, <1>8
<1>11. ASSUME NEW i \in 0 .. Len(u)
       PROVE  m[Spot(h, u, i)]["next"] = Spot(h, u, i + 1)
  <2>1. CASE i = 0
    <3>1. 1 \in 1 .. Len(t) /\ 0 \in 0 .. (Len(s) + 1) /\ Len(t) \in 0 .. (Len(t) + 1) /\ 0 + 1 = 1
      BY <1>2, <1>3, <1>4
    <3>2. h # last
      BY <1>2, <1>5, <3>1
    <3>3. m[h]["next"] = first
      BY <1>1, <1>7, <3>2 DEF Spliced
    <3>4. Spot(h, u, i) = h /\ Spot(h, u, i + 1) = first
      BY <1>8, <1>9, <2>1, <3>1
    <3> QED
      BY <3>3, <3>4
  <2>2. CASE i \in 1 .. (Len(t) - 1)
    <3>1. /\ i \in 1 .. Len(t) /\ i + 1 \in 1 .. Len(t) /\ i \in 0 .. Len(t) /\ Len(t) \in 0 .. Len(t)
          /\ i # Len(t) /\ 0 \in 0 .. (Len(s) + 1) /\ i \in 0 .. (Len(t) + 1)
      BY <1>2, <1>3, <2>2
    <3>2. Spot(g, t, i) # last /\ Spot(g, t, i) # h /\ Spot(g, t, i) \in Cells
      BY <1>2, <1>3, <1>5, <3>1
    <3>3. l[Spot(g, t, i)]["next"] = Spot(g, t, i + 1)
      BY <1>1, <3>1 DEF Ring, Chain
    <3>4. m[Spot(g, t, i)]["next"] = Spot(g, t, i + 1)
      BY <1>7, <3>2, <3>3 DEF Spliced
    <3> QED
      BY <1>8, <3>1, <3>4
  <2>3. CASE i = Len(t)
    <3>1. /\ i \in 1 .. Len(t) /\ i + 1 \in (Len(t) + 1) .. (Len(t) + Len(s) + 1)
          /\ (i + 1) - Len(t) = 1
      BY <1>2, <1>3, <1>4, <2>3
    <3>2. m[last]["next"] = at
      BY <1>6, <1>7 DEF Spliced
    <3>3. Spot(h, u, i) = last /\ Spot(h, u, i + 1) = at
      BY <1>8, <2>3, <3>1
    <3> QED
      BY <3>2, <3>3
  <2>4. CASE i \in (Len(t) + 1) .. (Len(t) + Len(s))
    <3> DEFINE j == i - Len(t)
    <3>1. /\ j \in 0 .. Len(s) /\ j \in 0 .. (Len(s) + 1) /\ j # 0 /\ 0 \in 0 .. Len(s)
          /\ i \in (Len(t) + 1) .. (Len(t) + Len(s) + 1)
          /\ i + 1 \in (Len(t) + 1) .. (Len(t) + Len(s) + 1)
          /\ (i + 1) - Len(t) = j + 1 /\ Len(t) \in 0 .. (Len(t) + 1)
      BY <1>2, <1>3, <2>4
    <3>2. Spot(h, u, i) = Spot(h, s, j) /\ Spot(h, u, i + 1) = Spot(h, s, j + 1)
      BY <1>8, <3>1
    <3> HIDE DEF j
    <3>3. Spot(h, s, j) # last /\ Spot(h, s, j) # h /\ Spot(h, s, j) \in Cells
      BY <1>2, <1>5, <3>1
    <3>4. l[Spot(h, s, j)]["next"] = Spot(h, s, j + 1)
      BY <1>1, <3>1 DEF Ring, Chain
    <3>5. m[Spot(h, s, j)]["next"] = Spot(h, s, j + 1)
      BY <1>7, <3>3, <3>4 DEF Spliced
    <3> QED
      BY <3>2, <3>5
  <2> QED
    BY <1>10, <2>1, <2>2, <2>3, <2>4
<1>12. ASSUME NEW i \in 0 .. Len(u)
       PROVE  m[Spot(h, u, i + 1)]["prev"] = Spot(h, u, i)
  <2>1. CASE i = 0
    <3>1. 1 \in 1 .. Len(t) /\ 1 \in 0 .. (Len(t) + 1) /\ 1 \in 0 .. (Len(s) + 1) /\ 0 + 1 = 1
      BY <1>2, <1>3, <1>4
    <3>2. first # at
      BY <1>5, <3>1
    <3>3. m[first]["prev"] = h
      BY <1>6, <1>7, <3>2 DEF Spliced
    <3>4. Spot(h, u, i) = h /\ Spot(h, u, i + 1) = first
      BY <1>8, <1>9, <2>1, <3>1
    <3> QED
      BY <3>3, <3>4
  <2>2. CASE i \in 1 .. (Len(t) - 1)
    <3>1. /\ i \in 1 .. Len(t) /\ i + 1 \in 1 .. Len(t) /\ i + 1 \in 0 .. Len(t) /\ 1 \in 0 .. Len(t)
          /\ i + 1 # 1 /\ 1 \in 0 .. (Len(s) + 1) /\ i + 1 \in 0 .. (Len(t) + 1) /\ i \in 0 .. Len(t)
      BY <1>2, <1>3, <2>2
    <3>2. Spot(g, t, i + 1) # first /\ Spot(g, t, i + 1) # at /\ Spot(g, t, i + 1) \in Cells
      BY <1>2, <1>3, <1>5, <3>1
    <3>3. l[Spot(g, t, i + 1)]["prev"] = Spot(g, t, i)
      BY <1>1, <3>1 DEF Ring
    <3>4. m[Spot(g, t, i + 1)]["prev"] = Spot(g, t, i)
      BY <1>7, <3>2, <3>3 DEF Spliced
    <3> QED
      BY <1>8, <3>1, <3>4
  <2>3. CASE i = Len(t)
    <3>1. /\ i \in 1 .. Len(t) /\ i + 1 \in (Len(t) + 1) .. (Len(t) + Len(s) + 1)
          /\ (i + 1) - Len(t) = 1
      BY <1>2, <1>3, <1>4, <2>3
    <3>2. m[at]["prev"] = last
      BY <1>6, <1>7 DEF Spliced
    <3>3. Spot(h, u, i) = last /\ Spot(h, u, i + 1) = at
      BY <1>8, <2>3, <3>1
    <3> QED
      BY <3>2, <3>3
  <2>4. CASE i \in (Len(t) + 1) .. (Len(t) + Len(s))
    <3> DEFINE j == i - Len(t)
    <3>1. /\ j \in 0 .. Len(s) /\ j + 1 \in 0 .. (Len(s) + 1) /\ j + 1 # 1 /\ 1 \in 1 .. (Len(s) + 1)
          /\ j + 1 \in 1 .. (Len(s) + 1) /\ 1 \in 0 .. (Len(t) + 1)
          /\ i \in (Len(t) + 1) .. (Len(t) + Len(s) + 1)
          /\ i + 1 \in (Len(t) + 1) .. (Len(t) + Len(s) + 1)
          /\ (i + 1) - Len(t) = j + 1
      BY <1>2, <1>3, <2>4
    <3>2. Spot(h, u, i) = Spot(h, s, j) /\ Spot(h, u, i + 1) = Spot(h, s, j + 1)
      BY <1>8, <3>1
    <3> HIDE DEF j
    <3>3. Spot(h, s, j + 1) # at /\ Spot(h, s, j + 1) # first /\ Spot(h, s, j + 1) \in Cells
      BY <1>2, <1>5, <3>1
    <3>4. l[Spot(h, s, j + 1)]["prev"] = Spot(h, s, j)
      BY <1>1, <3>1 DEF Ring
    <3>5. m[Spot(h, s, j + 1)]["prev"] = Spot(h, s, j)
      BY <1>7, <3>3, <3>4 DEF Spliced
    <3> QED
      BY <3>2, <3>5
  <2> QED
    BY <1>10, <2>1, <2>2, <2>3, <2>4
<1>13. ASSUME NEW i \in 0 .. Len(u) PROVE Spot(h, u, i) # g
  <2>1. 0 \in 0 .. (Len(t) + 1) /\ 0 \in 0 .. Len(t) /\ 0 \in 0 .. (Len(s) + 1)
    BY <1>2, <1>3
  <2>2. CASE i = 0
    BY <1>2, <1>3, <1>5, <1>9, <2>1, <2>2
  <2>3. CASE i \in 1 .. Len(t)
    <3>1. i \in 0 .. Len(t) /\ i # 0
      BY <1>3, <2>3
    <3> QED
      BY <1>3, <1>8, <2>1, <2>3, <3>1
  <2>4. CASE i \in (Len(t) + 1) .. (Len(t) + Len(s))
    <3>1. i - Len(t) \in 0 .. (Len(s) + 1) /\ i \in (Len(t) + 1) .. (Len(t) + Len(s) + 1)
      BY <1>2, <1>3, <2>4
    <3> QED
      BY <1>3, <1>5, <1>8, <2>1, <3>1
  <2>5. i = Len(t) => i \in 1 .. Len(t)
    BY <1>3, <1>4
  <2>6. i \in 1 .. (Len(t) - 1) => i \in 1 .. Len(t)
    BY <1>3
  <2> QED
    BY <1>10, <2>2, <2>3, <2>4, <2>5, <2>6
<1>14. Ring(m, h, u)
  BY <1>11, <1>12 DEF Ring, Chain
<1> QED
  BY <1>7, <1>8, <1>13, <1>14 DEF u, m

LEMMA NoEntries ==
    ASSUME NEW h \in Cells
    PROVE  <<>> \in Entries(h) /\ Len(<<>>) = 0 /\ \A i : Spot(h, <<>>, i) = h
<1>1. <<>> \in Seq(Cells \ {h}) /\ Len(<<>>) = 0 /\ DOMAIN <<>> = {}
  OBVIOUS
<1> QED
  BY <1>1 DEF Entries, IsInjective, Spot

LEMMA SplicedLists ==
    ASSUME NEW l, NEW h, NEW s, NEW g, NEW t, Two(l, h, s, g, t)
    PROVE  /\ list_for_each(Apply(l, list_splice(l, g, h)), h) = t \o s
           /\ Two(Apply(l, list_splice_init(l, g, h)), h, t \o s, g, <<>>)
<1>1. l \in LinkSet /\ h \in Cells /\ g \in Cells /\ s \in Entries(h) /\ t \in Entries(g)
  BY DEF Two
<1>2. list_empty(l, g) <=> t = <<>>
  <2>1. Two(l, g, t, h, s)
    BY TwoTurned
  <2> QED
    BY <2>1, EmptyLooks
<1>3. CASE t = <<>>
  <2>1. list_splice(l, g, h) = <<>> /\ list_splice_init(l, g, h) = <<>>
    BY <1>2, <1>3 DEF list_splice, list_splice_init
  <2>2. t \o s = s
    <3>1. s \in Seq(Cells \ {h})
      BY <1>1 DEF Entries
    <3> QED
      BY <1>3, <3>1, ConcatEmptySeq
  <2>3. Apply(l, <<>>) = l
    BY <1>1, ApplyNone
  <2>4. Visits(l, h, "next") = s
    BY VisitsChain DEF Two, Ring
  <2> QED
    BY <1>3, <2>1, <2>2, <2>3, <2>4 DEF list_for_each
<1>4. CASE t # <<>>
  <2> DEFINE st == Splice(l, g, h)
             m == Apply(l, st)
             init == <<Store(g, "next", g), Store(g, "prev", g)>>
             m2 == Apply(m, init)
             u == t \o s
  <2>1. list_splice(l, g, h) = st /\ list_splice_init(l, g, h) = st \o init
    BY <1>2, <1>4 DEF list_splice, list_splice_init, init_list_head
  <2>2. /\ st \in Seq(AnyStore) /\ m \in LinkSet /\ u \in Entries(h) /\ Ring(m, h, u)
        /\ \A i \in 0 .. Len(u) : Spot(h, u, i) # g
    BY <1>4, SpliceRing
  <2> HIDE DEF st, m, u
  <2>3. init \in Seq(AnyStore) /\ m2 \in LinkSet /\ Reset(m2, m, g, g, g)
    BY <1>1, <2>2, ResetStores
  <2> HIDE DEF init
  <2>4. Apply(l, st \o init) = m2
    BY <1>1, <2>2, <2>3, ApplyConcat DEF m
  <2> HIDE DEF m2
  <2>5. Visits(m, h, "next") = u
    BY <1>1, <2>2, VisitsChain DEF Ring
  <2>6. Two(m2, h, u, g, <<>>)
    <3>1. <<>> \in Entries(g) /\ Len(<<>>) = 0 /\ \A i : Spot(g, <<>>, i) = g
      BY <1>1, NoEntries
    <3>2. m2[g]["next"] = g /\ m2[g]["prev"] = g
      BY <1>1, <2>3 DEF Reset
    <3>3. Ring(m2, g, <<>>)
      BY <3>1, <3>2 DEF Ring, Chain
    <3>4. Apart(h, u, g, <<>>)
      BY <2>2, <3>1 DEF Apart
    <3>5. Ring(m2, h, u)
      <4>1. Len(u) \in Nat /\ \A i \in 0 .. (Len(u) + 1) : Spot(h, u, i) \in Cells
        BY <1>1, <2>2, SpotFacts
      <4>2. ASSUME NEW i \in 0 .. Len(u)
            PROVE  /\ m2[Spot(h, u, i)]["next"] = m[Spot(h, u, i)]["next"]
                   /\ m2[Spot(h, u, i)]["prev"] = m[Spot(h, u, i)]["prev"]
        BY <2>2, <2>3, <4>1 DEF Reset
      <4> QED
        BY <1>1, <2>2, <4>2, RingApart
    <3> QED
      BY <1>1, <2>2, <2>3, <3>1, <3>3, <3>4, <3>5 DEF Two
  <2> QED
    BY <2>1, <2>4, <2>5, <2>6 DEF list_for_each, u, m
<1> QED
  BY <1>3, <1>4

-----------------------------------------------------------------------------
(* The second list. *)

LEMMA SparesOrder ==
    LET order == SetToSeq(Spares)
    IN  /\ order \in Seq(Spares) /\ IsInjective(order)
        /\ Len(order) = Cardinality(Spares) /\ Len(order) \in Nat
<1> DEFINE n == Cardinality(Spares)
           order == SetToSeq(Spares)
<1>1. IsFiniteSet(Spares)
  BY FS_Subset, ThreadListAssumption
<1>2. n \in Nat /\ ExistsBijection(1 .. n, Spares)
  BY <1>1, FS_CardinalityType
<1>3. PICK f : f \in Bijection(1 .. n, Spares)
  BY <1>2 DEF ExistsBijection
<1>4. f \in [1 .. n -> Spares] /\ IsInjective(f)
  BY <1>3 DEF Bijection, Injection, IsInjective
<1>5. order \in [1 .. n -> Spares] /\ IsInjective(order)
  BY <1>4 DEF SetToSeq
<1> HIDE DEF order, n
<1>6. order \in Seq(Spares) /\ Len(order) = n
  BY <1>2, <1>5, SeqDef
<1> QED
  BY <1>2, <1>5, <1>6 DEF order, n

\* What WithSpares defines Links by.
IsLinks(f, order) ==
    f = [n \in 0 .. Len(order) |->
            IF n = 0 THEN Apply(links, init_list_head(spare))
            ELSE Apply(f[n - 1], list_add_tail(f[n - 1], order[n], spare))]

LEMMA ApplyType ==
    ASSUME NEW l \in LinkSet, NEW st \in Seq(AnyStore)
    PROVE  Apply(l, st) \in LinkSet
<1>1. Len(st) \in 0 .. Len(st)
  BY LenProperties
<1> QED
  BY <1>1, ApplyAfter

LEMMA AddTailType ==
    ASSUME NEW l \in LinkSet, NEW e \in Cells, NEW h \in Cells
    PROVE  list_add_tail(l, e, h) \in Seq(AnyStore)
<1>1. l[h]["prev"] \in Cells \cup {NULL}
  BY DEF LinkSet, Pointers
<1> QED
  BY <1>1 DEF list_add_tail, Add, Store, AnyStore, Fields

LEMMA InitHeadType ==
    ASSUME NEW h \in Cells PROVE init_list_head(h) \in Seq(AnyStore)
  BY DEF init_list_head, Store, AnyStore, Fields

LEMMA LinksExist ==
    ASSUME links \in LinkSet, NEW order \in Seq(Spares)
    PROVE  \E f : IsLinks(f, order)
<1> DEFINE base == Apply(links, init_list_head(spare))
           F == [n \in Nat |-> [m \in LinkSet |->
                    IF n \in 1 .. Len(order) THEN Apply(m, list_add_tail(m, order[n], spare))
                    ELSE m]]
<1>1. Len(order) \in Nat /\ \A n \in 1 .. Len(order) : order[n] \in Cells
  BY CellsFinite, LenProperties
<1>2. base \in LinkSet
  BY CellsFinite, InitHeadType, ApplyType
<1>3. F \in [Nat -> [LinkSet -> LinkSet]]
  <2>1. ASSUME NEW n \in Nat, NEW m \in LinkSet
        PROVE  (IF n \in 1 .. Len(order) THEN Apply(m, list_add_tail(m, order[n], spare))
                ELSE m) \in LinkSet
    BY <1>1, CellsFinite, AddTailType, ApplyType
  <2> QED
    BY <2>1
<1>4. ASSUME NEW n \in 1 .. Len(order), NEW m \in LinkSet
      PROVE  Do(F, n, m) = Apply(m, list_add_tail(m, order[n], spare))
  <2>1. n \in Nat
    BY <1>1
  <2>2. F[n] = [k \in LinkSet |->
                    IF n \in 1 .. Len(order) THEN Apply(k, list_add_tail(k, order[n], spare))
                    ELSE k]
    BY <2>1
  <2> QED
    BY <2>2 DEF Do
<1> HIDE DEF F, base
<1>5. PICK g : Runs(g, Len(order), base, F, LinkSet)
  BY <1>1, <1>2, <1>3, Recursion
<1>6. ASSUME NEW n \in 0 .. Len(order)
      PROVE  g[n] = IF n = 0 THEN base
                    ELSE Apply(g[n - 1], list_add_tail(g[n - 1], order[n], spare))
  <2>1. CASE n = 0
    BY <1>5, <2>1 DEF Runs
  <2>2. CASE n # 0
    <3>1. n \in 1 .. Len(order) /\ n - 1 \in 0 .. Len(order)
      BY <1>1, <2>2
    <3>2. g[n - 1] \in LinkSet /\ g[n] = Do(F, n, Prior(g, n))
      BY <1>5, <3>1 DEF Runs
    <3>3. Do(F, n, g[n - 1]) = Apply(g[n - 1], list_add_tail(g[n - 1], order[n], spare))
      BY <1>4, <3>1, <3>2
    <3> QED
      BY <2>2, <3>2, <3>3 DEF Prior
  <2> QED
    BY <2>1, <2>2
<1>7. g = [n \in 0 .. Len(order) |-> g[n]]
  BY <1>5 DEF Runs
<1> QED
  BY <1>6, <1>7 DEF IsLinks, base

\* One more of them.
LEMMA NextSpare ==
    ASSUME NEW l, NEW r \in ThreadLists, NEW order \in Seq(Spares), IsInjective(order),
           NEW n \in Nat, n + 1 <= Len(order),
           Two(l, lThreads, r, spare, SubSeq(order, 1, n))
    PROVE  Two(Apply(l, list_add_tail(l, order[n + 1], spare)), lThreads, r, spare,
               SubSeq(order, 1, n + 1))
<1> DEFINE t == SubSeq(order, 1, n)
           t2 == SubSeq(order, 1, n + 1)
           e == order[n + 1]
<1>1. /\ Len(order) \in Nat /\ DOMAIN order = 1 .. Len(order)
      /\ n + 1 \in 1 .. Len(order)
      /\ \A i \in 1 .. Len(order) : order[i] \in Spares
  BY LenProperties
<1>2. t \in Seq(Spares) /\ Len(t) = n /\ \A i \in 1 .. n : t[i] = order[i]
  <2>1. 1 \in Int /\ n \in Int /\ \A i \in 1 .. n : order[i] \in Spares
    BY <1>1
  <2>2. /\ t \in Seq(Spares)
        /\ Len(t) = IF 1 <= n THEN n - 1 + 1 ELSE 0
        /\ \A i \in 1 .. n - 1 + 1 : t[i] = order[1 + i - 1]
    BY <2>1, SubSeqProperties
  <2> HIDE DEF t
  <2> QED
    BY <2>2
<1>3. t2 \in Seq(Spares) /\ Len(t2) = n + 1 /\ \A i \in 1 .. (n + 1) : t2[i] = order[i]
  <2>1. 1 \in Int /\ n + 1 \in Int /\ \A i \in 1 .. (n + 1) : order[i] \in Spares
    BY <1>1
  <2>2. /\ t2 \in Seq(Spares)
        /\ Len(t2) = IF 1 <= n + 1 THEN (n + 1) - 1 + 1 ELSE 0
        /\ \A i \in 1 .. (n + 1) - 1 + 1 : t2[i] = order[1 + i - 1]
    BY <2>1, SubSeqProperties
  <2> HIDE DEF t2
  <2> QED
    BY <2>2
<1>4. e \in Spares
  BY <1>1
<1> HIDE DEF t, t2
<1>5. t2 = Append(t, e)
  <2> DEFINE a == Append(t, e)
  <2>1. a \in Seq(Spares) /\ Len(a) = n + 1 /\ (\A i \in 1 .. n : a[i] = t[i]) /\ a[n + 1] = e
    BY <1>2, <1>4, AppendProperties
  <2> HIDE DEF a
  <2>2. ASSUME NEW i \in 1 .. (n + 1) PROVE t2[i] = a[i]
    BY <1>2, <1>3, <2>1
  <2>3. t2 = a
    BY <1>3, <2>1, <2>2, SeqEqual
  <2> QED
    BY <2>3 DEF a
<1>6. Outside(e, lThreads, r, spare, t)
  <2>1. e \in Cells /\ e # lThreads /\ e # spare /\ e \notin Threads
    BY <1>4, CellsFinite, ThreadListAssumption
  <2>2. \A i \in 0 .. Len(r) : Spot(lThreads, r, i) # e
    BY <2>1, ThreadListFacts DEF Spot
  <2>3. ASSUME NEW i \in 1 .. n PROVE t[i] # e
    <3>1. i \in 1 .. Len(order) /\ i # n + 1
      BY <1>1
    <3> QED
      BY <1>1, <1>2, <3>1 DEF IsInjective
  <2>4. \A i \in 0 .. Len(t) : Spot(spare, t, i) # e
    BY <1>2, <2>1, <2>3 DEF Spot
  <2> QED
    BY <2>1, <2>2, <2>4 DEF Outside
<1>7. Two(l, spare, t, lThreads, r) /\ Outside(e, spare, t, lThreads, r)
  BY <1>6, TwoTurned DEF t
<1>8. Two(Apply(l, list_add_tail(l, e, spare)), spare, Append(t, e), lThreads, r)
  BY <1>7, AddBack
<1> QED
  BY <1>5, <1>8, TwoTurned DEF t2

\* The empty second list.
LEMMA NoSpares ==
    ASSUME NEW r, Whole(links, r)
    PROVE  Two(Apply(links, init_list_head(spare)), lThreads, r, spare, <<>>)
<1> DEFINE m == Apply(links, init_list_head(spare))
<1>1. /\ links \in LinkSet /\ r \in ThreadLists /\ r \in Entries(lThreads) /\ Len(r) \in Nat
      /\ Ring(links, lThreads, r) /\ lThreads \in Cells /\ spare \in Cells
      /\ \A i \in 1 .. Len(r) : r[i] \in Threads
  BY ThreadListFacts, CellsFinite DEF Whole, LinkSet
<1>2. m \in LinkSet /\ Reset(m, links, spare, spare, spare)
  BY <1>1, ResetStores DEF init_list_head
<1> HIDE DEF m
<1>3. <<>> \in Entries(spare) /\ Len(<<>>) = 0 /\ \A i : Spot(spare, <<>>, i) = spare
  BY <1>1, NoEntries
<1>4. m[spare]["next"] = spare /\ m[spare]["prev"] = spare
  BY <1>1, <1>2 DEF Reset
<1>5. Ring(m, spare, <<>>)
  BY <1>3, <1>4 DEF Ring, Chain
<1>6. ASSUME NEW i \in 0 .. Len(r)
      PROVE  Spot(lThreads, r, i) # spare /\ Spot(lThreads, r, i) \in Cells
  <2>1. i \in 1 .. Len(r) \/ i \notin 1 .. Len(r)
    OBVIOUS
  <2> QED
    BY <1>1, <2>1, CellsFinite, ThreadListAssumption DEF Spot
<1>7. Apart(lThreads, r, spare, <<>>)
  BY <1>3, <1>6 DEF Apart
<1>8. Ring(m, lThreads, r)
  <2>1. ASSUME NEW i \in 0 .. Len(r)
        PROVE  /\ m[Spot(lThreads, r, i)]["next"] = links[Spot(lThreads, r, i)]["next"]
               /\ m[Spot(lThreads, r, i)]["prev"] = links[Spot(lThreads, r, i)]["prev"]
    BY <1>2, <1>6 DEF Reset
  <2> QED
    BY <1>1, <2>1, RingApart
<1> QED
  BY <1>1, <1>2, <1>3, <1>5, <1>7, <1>8 DEF Two, m

LEMMA SparesLinked ==
    ASSUME NEW r, Whole(links, r), NEW n \in 0 .. Cardinality(Spares)
    PROVE  Two(WithSpares(SetToSeq(Spares))[n], lThreads, r, spare, SubSeq(SetToSeq(Spares), 1, n))
<1> DEFINE order == SetToSeq(Spares)
           f == CHOOSE f : IsLinks(f, order)
<1>1. /\ order \in Seq(Spares) /\ IsInjective(order)
      /\ Len(order) = Cardinality(Spares) /\ Len(order) \in Nat
  BY SparesOrder
<1>2. links \in LinkSet /\ r \in ThreadLists
  BY DEF Whole, LinkSet
<1>3. WithSpares(order) = f
  BY DEF WithSpares, IsLinks
<1> HIDE DEF order
<1>4. IsLinks(f, order)
  BY <1>1, <1>2, LinksExist
<1> HIDE DEF f
<1>5. \A k \in 0 .. Len(order) :
         f[k] = IF k = 0 THEN Apply(links, init_list_head(spare))
                ELSE Apply(f[k - 1], list_add_tail(f[k - 1], order[k], spare))
  BY <1>4 DEF IsLinks
<1> DEFINE Good(k) == Two(f[k], lThreads, r, spare, SubSeq(order, 1, k))
           S == {k \in Nat : k <= Len(order) => Good(k)}
<1>6. 0 \in S
  <2>1. f[0] = Apply(links, init_list_head(spare))
    BY <1>1, <1>5
  <2>2. SubSeq(order, 1, 0) = <<>>
    BY SubSeqEmpty
  <2> QED
    BY <2>1, <2>2, NoSpares
<1>7. ASSUME NEW k \in Nat, k \in S PROVE k + 1 \in S
  <2> SUFFICES ASSUME k + 1 <= Len(order) PROVE Good(k + 1)
    OBVIOUS
  <2>1. k + 1 \in 0 .. Len(order) /\ k + 1 # 0 /\ (k + 1) - 1 = k /\ k <= Len(order)
    BY <1>1
  <2>2. f[k + 1] = Apply(f[k], list_add_tail(f[k], order[k + 1], spare))
    BY <1>5, <2>1
  <2>3. Good(k)
    BY <1>7, <2>1
  <2> QED
    BY <1>1, <1>2, <2>2, <2>3, NextSpare
<1> HIDE DEF Good
<1>8. Nat \subseteq S
  <2> HIDE DEF S
  <2> QED
    BY <1>6, <1>7, Induction
<1>9. Good(n)
  BY <1>1, <1>8
<1> QED
  BY <1>3, <1>9 DEF Good, order

-----------------------------------------------------------------------------
(* The loop that deletes what it visits. *)

Following(m, pos) == IF pos = NULL THEN NULL ELSE m[pos].next

\* What DrainSafely defines After by.
Turned(at, head) ==
    IF at.pos \in {head, NULL} THEN at
    ELSE [links |-> Apply(at.links, list_del(at.links, at.pos)), pos |-> at.n,
          n |-> Following(Apply(at.links, list_del(at.links, at.pos)), at.n),
          visited |-> Append(at.visited, at.pos)]

Entered(l, head) ==
    [links |-> l, pos |-> l[head].next, n |-> Following(l, l[head].next), visited |-> <<>>]

IsDrain(f, l, head) ==
    f = [turns \in 0 .. Bound |->
            IF turns = 0 THEN Entered(l, head) ELSE Turned(f[turns - 1], head)]

Drains == [links : LinkSet, pos : Cells \cup {NULL}, n : Cells \cup {NULL}, visited : Seq(Cells)]

LEMMA DelType ==
    ASSUME NEW l \in LinkSet, NEW e \in Cells
    PROVE  list_del(l, e) \in Seq(AnyStore)
<1> DEFINE a == Del(l[e].prev, l[e].next)
           b == <<Store(e, "next", NULL), Store(e, "prev", NULL)>>
<1>1. l[e].prev \in Cells \cup {NULL} /\ l[e].next \in Cells \cup {NULL}
  BY DEF LinkSet, Pointers
<1>2. a \in Seq(AnyStore)
  BY <1>1 DEF Del, Store, AnyStore, Fields
<1>3. b \in Seq(AnyStore)
  BY DEF Store, AnyStore, Fields
<1>4. list_del(l, e) = a \o b
  BY DEF list_del
<1> HIDE DEF a, b
<1> QED
  BY <1>2, <1>3, <1>4, ConcatProperties

LEMMA FollowingType ==
    ASSUME NEW l \in LinkSet, NEW pos \in Cells \cup {NULL}
    PROVE  Following(l, pos) \in Cells \cup {NULL}
  BY DEF Following, LinkSet, Pointers

LEMMA TurnedType ==
    ASSUME NEW at \in Drains, NEW head
    PROVE  Turned(at, head) \in Drains
<1>1. /\ at.links \in LinkSet /\ at.pos \in Cells \cup {NULL}
      /\ at.n \in Cells \cup {NULL} /\ at.visited \in Seq(Cells)
  BY DEF Drains
<1>2. CASE at.pos \in {head, NULL}
  BY <1>2 DEF Turned
<1>3. CASE at.pos \notin {head, NULL}
  <2> DEFINE m == Apply(at.links, list_del(at.links, at.pos))
  <2>1. at.pos \in Cells
    BY <1>1, <1>3
  <2>2. m \in LinkSet
    BY <1>1, <2>1, DelType, ApplyType
  <2>3. Turned(at, head) = [links |-> m, pos |-> at.n, n |-> Following(m, at.n),
                            visited |-> Append(at.visited, at.pos)]
    BY <1>3 DEF Turned
  <2> HIDE DEF m
  <2>4. Following(m, at.n) \in Cells \cup {NULL} /\ Append(at.visited, at.pos) \in Seq(Cells)
    BY <1>1, <2>1, <2>2, FollowingType, AppendProperties
  <2> QED
    BY <1>1, <2>2, <2>3, <2>4 DEF Drains
<1> QED
  BY <1>2, <1>3

LEMMA EnteredType ==
    ASSUME NEW l \in LinkSet, NEW head \in Cells
    PROVE  Entered(l, head) \in Drains
<1>1. l[head].next \in Cells \cup {NULL}
  BY DEF LinkSet, Pointers
<1>2. <<>> \in Seq(Cells)
  OBVIOUS
<1> QED
  BY <1>1, <1>2, FollowingType DEF Entered, Drains

LEMMA DrainExists ==
    ASSUME NEW l \in LinkSet, NEW head \in Cells
    PROVE  \E f : IsDrain(f, l, head)
<1> DEFINE base == Entered(l, head)
           F == [n \in Nat |-> [at \in Drains |-> Turned(at, head)]]
<1>1. base \in Drains
  BY EnteredType
<1>2. F \in [Nat -> [Drains -> Drains]]
  BY TurnedType
<1>3. ASSUME NEW n \in Nat, NEW at \in Drains PROVE Do(F, n, at) = Turned(at, head)
  <2>1. F[n] = [x \in Drains |-> Turned(x, head)]
    OBVIOUS
  <2> QED
    BY <2>1 DEF Do
<1> HIDE DEF F, base
<1>4. PICK g : Runs(g, Bound, base, F, Drains)
  BY <1>1, <1>2, CellsFinite, Recursion
<1>5. ASSUME NEW n \in 0 .. Bound
      PROVE  g[n] = IF n = 0 THEN base ELSE Turned(g[n - 1], head)
  <2>1. CASE n = 0
    BY <1>4, <2>1 DEF Runs
  <2>2. CASE n # 0
    <3>1. n \in 1 .. Bound /\ n - 1 \in 0 .. Bound /\ n \in Nat
      BY CellsFinite, <2>2
    <3>2. g[n - 1] \in Drains /\ g[n] = Do(F, n, Prior(g, n))
      BY <1>4, <3>1 DEF Runs
    <3>3. Do(F, n, g[n - 1]) = Turned(g[n - 1], head)
      BY <1>3, <3>1, <3>2
    <3> QED
      BY <2>2, <3>2, <3>3 DEF Prior
  <2> QED
    BY <2>1, <2>2
<1>6. g = [n \in 0 .. Bound |-> g[n]]
  BY <1>4 DEF Runs
<1> QED
  BY <1>5, <1>6 DEF IsDrain, base

\* The loop has visited s up to the rest u, which is what the list still has.
Draining(at, h, s, u, g, t) ==
    /\ Two(at.links, h, u, g, t)
    /\ at.pos = Spot(h, u, 1)
    /\ at.n = Following(at.links, at.pos)
    /\ at.visited \in Seq(Cells) /\ at.visited \o u = s

LEMMA MoveOver ==
    ASSUME NEW S, NEW v \in Seq(S), NEW u \in Seq(S), u # <<>>
    PROVE  Append(v, u[1]) \o RemoveAt(u, 1) = v \o u
<1> DEFINE a == Append(v, u[1])
           b == RemoveAt(u, 1)
           x == a \o b
           y == v \o u
<1>1. Len(v) \in Nat /\ Len(u) \in Nat /\ Len(u) >= 1 /\ 1 \in 1 .. Len(u) /\ u[1] \in S
  <2>1. Len(u) \in Nat /\ Len(u) # 0
    BY LenProperties, EmptySeq
  <2> QED
    BY <2>1, LenProperties
<1>2. a \in Seq(S) /\ Len(a) = Len(v) + 1 /\ (\A i \in 1 .. Len(v) : a[i] = v[i])
      /\ a[Len(v) + 1] = u[1]
  BY <1>1, AppendProperties
<1>3. b \in Seq(S) /\ Len(b) = Len(u) - 1 /\ \A i \in 1 .. (Len(u) - 1) : b[i] = u[i + 1]
  <2>1. b \in Seq(S) /\ Removed(b, u, 1)
    BY <1>1, RemoveAtRemoves
  <2> HIDE DEF b
  <2> QED
    BY <1>1, <2>1 DEF Removed
<1> HIDE DEF a, b
<1>4. /\ x \in Seq(S) /\ Len(x) = Len(v) + Len(u)
      /\ \A i \in 1 .. Len(v) + Len(u) : x[i] = IF i <= Len(v) + 1 THEN a[i] ELSE b[i - (Len(v) + 1)]
  <2>1. /\ x \in Seq(S) /\ Len(x) = Len(a) + Len(b)
        /\ \A i \in 1 .. Len(a) + Len(b) : x[i] = IF i <= Len(a) THEN a[i] ELSE b[i - Len(a)]
    BY <1>2, <1>3, ConcatProperties
  <2> HIDE DEF x
  <2>2. Len(a) + Len(b) = Len(v) + Len(u)
    BY <1>1, <1>2, <1>3
  <2> QED
    BY <1>2, <2>1, <2>2
<1>5. /\ y \in Seq(S) /\ Len(y) = Len(v) + Len(u)
      /\ \A i \in 1 .. Len(v) + Len(u) : y[i] = IF i <= Len(v) THEN v[i] ELSE u[i - Len(v)]
  BY ConcatProperties
<1> HIDE DEF x, y
<1>6. ASSUME NEW i \in 1 .. Len(v) + Len(u) PROVE x[i] = y[i]
  <2>1. CASE i <= Len(v)
    <3>1. i \in 1 .. Len(v) /\ i <= Len(v) + 1
      BY <1>1, <2>1
    <3> QED
      BY <1>2, <1>4, <1>5, <2>1, <3>1
  <2>2. CASE i = Len(v) + 1
    <3>1. i <= Len(v) + 1 /\ ~(i <= Len(v)) /\ i - Len(v) = 1
      BY <1>1, <2>2
    <3> QED
      BY <1>2, <1>4, <1>5, <2>2, <3>1
  <2>3. CASE i > Len(v) + 1
    <3> DEFINE j == i - (Len(v) + 1)
    <3>1. ~(i <= Len(v) + 1) /\ ~(i <= Len(v)) /\ j \in 1 .. (Len(u) - 1) /\ j + 1 = i - Len(v)
      BY <1>1, <2>3
    <3>2. x[i] = b[j] /\ y[i] = u[i - Len(v)]
      BY <1>4, <1>5, <3>1
    <3>3. b[j] = u[j + 1]
      BY <1>3, <3>1
    <3> QED
      BY <3>1, <3>2, <3>3
  <2> QED
    BY <1>1, <2>1, <2>2, <2>3
<1>7. x = y
  BY <1>4, <1>5, <1>6, SeqEqual
<1> QED
  BY <1>7 DEF x, y, a, b

\* One turn of the loop.
LEMMA DrainTurn ==
    ASSUME NEW at, NEW h, NEW s, NEW u, NEW g, NEW t, Draining(at, h, s, u, g, t)
    PROVE  /\ u = <<>> => Draining(Turned(at, h), h, s, u, g, t)
           /\ u # <<>> => /\ Draining(Turned(at, h), h, s, RemoveAt(u, 1), g, t)
                          /\ Len(RemoveAt(u, 1)) = Len(u) - 1
<1>1. /\ h \in Cells /\ g \in Cells /\ u \in Entries(h) /\ u \in Seq(Cells \ {h}) /\ Len(u) \in Nat
      /\ Ring(at.links, h, u) /\ at.links \in LinkSet
  <2>1. h \in Cells /\ g \in Cells /\ u \in Entries(h) /\ Ring(at.links, h, u) /\ at.links \in LinkSet
    BY DEF Draining, Two
  <2> QED
    BY <2>1, SpotFacts DEF Entries
<1>2. CASE u = <<>>
  <2>1. at.pos = h
    BY <1>1, <1>2, NoEntries DEF Draining
  <2>2. Turned(at, h) = at
    BY <2>1 DEF Turned
  <2> QED
    BY <1>2, <2>2
<1>3. CASE u # <<>>
  <2> DEFINE e == u[1]
             m == Apply(at.links, list_del(at.links, e))
             rest == RemoveAt(u, 1)
             next == Spot(h, u, 2)
             to == Turned(at, h)
  <2>1. 1 \in 1 .. Len(u) /\ 1 \in 0 .. Len(u) /\ 1 + 1 = 2 /\ 2 \in 0 .. (Len(u) + 1)
    <3>1. Len(u) # 0
      BY <1>1, <1>3, EmptySeq
    <3> QED
      BY <1>1, <3>1
  <2>2. Spot(h, u, 1) = e /\ e \in Cells /\ e # h /\ next \in Cells /\ e # NULL /\ next # NULL
    <3>1. Spot(h, u, 1) = e /\ e \in Cells /\ e # h /\ next \in Cells
      BY <1>1, <2>1, SpotFacts
    <3> QED
      BY <3>1, CellsFinite
  <2>3. at.pos = e
    BY <2>2 DEF Draining
  <2>4. at.links[e]["next"] = next
    <3>1. at.links[Spot(h, u, 1)]["next"] = Spot(h, u, 1 + 1)
      BY <1>1, <2>1 DEF Ring, Chain
    <3> QED
      BY <2>1, <2>2, <3>1
  <2>5. at.n = next
    BY <2>2, <2>3, <2>4 DEF Draining, Following
  <2>6. to = [links |-> m, pos |-> next, n |-> Following(m, next),
              visited |-> Append(at.visited, e)]
    BY <2>2, <2>3, <2>5 DEF Turned
  <2>7. Two(m, h, rest, g, t)
    <3>1. Two(at.links, h, u, g, t)
      BY DEF Draining
    <3> QED
      BY <2>1, <3>1, TakenOut
  <2>8. rest \in Seq(Cells \ {h}) /\ Removed(rest, u, 1)
    BY <1>1, <2>1, RemoveAtRemoves
  <2>9. Append(at.visited, e) \in Seq(Cells) /\ Append(at.visited, e) \o rest = s
    <3>1. at.visited \in Seq(Cells) /\ at.visited \o u = s /\ u \in Seq(Cells)
      BY <1>1, SeqMonotonic DEF Draining
    <3> QED
      BY <1>3, <2>2, <3>1, MoveOver, AppendProperties
  <2> HIDE DEF e, m, rest, next, to
  <2>10. next = Spot(h, rest, 1)
    <3>1. /\ \A i \in 1 .. Len(u) : Spot(h, rest, i) = Spot(h, u, i + 1)
      BY <1>1, <2>1, <2>8, RemovedSpots
    <3> QED
      BY <2>1, <3>1 DEF next
  <2>11. Len(rest) = Len(u) - 1
    BY <2>8 DEF Removed
  <2>12. Draining(to, h, s, rest, g, t)
    BY <2>6, <2>7, <2>9, <2>10 DEF Draining
  <2> QED
    BY <1>3, <2>11, <2>12 DEF to, rest
<1> QED
  BY <1>2, <1>3

(***************************************************************************)
(* The loop visits every entry, though its body deletes them, and leaves   *)
(* the other list alone.                                                   *)
(***************************************************************************)
LEMMA Drained ==
    ASSUME NEW l, NEW h, NEW s, NEW g, NEW t, Two(l, h, s, g, t)
    PROVE  /\ DrainSafely(l, h).visited = s
           /\ Two(DrainSafely(l, h).links, h, <<>>, g, t)
<1> DEFINE f == CHOOSE f : IsDrain(f, l, h)
<1>1. /\ l \in LinkSet /\ h \in Cells /\ s \in Entries(h) /\ s \in Seq(Cells) /\ Len(s) \in Nat
      /\ Len(s) <= Bound
  <2>1. l \in LinkSet /\ h \in Cells /\ s \in Entries(h)
    BY DEF Two
  <2>2. s \in Seq(Cells \ {h})
    BY <2>1 DEF Entries
  <2> QED
    BY <2>1, <2>2, SeqMonotonic, FitsCells
<1>2. DrainSafely(l, h) = f[Bound]
  BY DEF DrainSafely, IsDrain, Turned, Entered, Following
<1>3. IsDrain(f, l, h)
  BY <1>1, DrainExists
<1> HIDE DEF f
<1>4. \A n \in 0 .. Bound : f[n] = IF n = 0 THEN Entered(l, h) ELSE Turned(f[n - 1], h)
  BY <1>3 DEF IsDrain
<1> DEFINE Good(n) == \E u : Draining(f[n], h, s, u, g, t) /\ (u = <<>> \/ Len(u) + n = Len(s))
           S == {n \in Nat : n <= Bound => Good(n)}
<1>5. 0 \in S
  <2>1. f[0] = Entered(l, h)
    BY <1>4, CellsFinite
  <2>2. l[h].next = Spot(h, s, 1)
    BY EmptyLooks
  <2>3. <<>> \in Seq(Cells) /\ <<>> \o s = s
    BY <1>1, ConcatEmptySeq
  <2>4. Draining(Entered(l, h), h, s, s, g, t)
    BY <2>2, <2>3 DEF Draining, Entered
  <2>5. Len(s) + 0 = Len(s)
    BY <1>1
  <2> QED
    BY <2>1, <2>4, <2>5
<1>6. ASSUME NEW n \in Nat, n \in S PROVE n + 1 \in S
  <2> SUFFICES ASSUME n + 1 <= Bound PROVE Good(n + 1)
    OBVIOUS
  <2>1. n + 1 \in 0 .. Bound /\ n + 1 # 0 /\ (n + 1) - 1 = n /\ n <= Bound
    BY CellsFinite
  <2>2. f[n + 1] = Turned(f[n], h)
    BY <1>4, <2>1
  <2>3. PICK u : Draining(f[n], h, s, u, g, t) /\ (u = <<>> \/ Len(u) + n = Len(s))
    BY <1>6, <2>1
  <2>4. CASE u = <<>>
    BY <2>2, <2>3, <2>4, DrainTurn
  <2>5. CASE u # <<>>
    <3>1. /\ Draining(f[n + 1], h, s, RemoveAt(u, 1), g, t)
          /\ Len(RemoveAt(u, 1)) = Len(u) - 1
      BY <2>2, <2>3, <2>5, DrainTurn
    <3>2. Len(u) \in Nat
      BY <2>3, SpotFacts DEF Draining, Two
    <3>3. Len(RemoveAt(u, 1)) + (n + 1) = Len(s)
      BY <1>1, <2>3, <2>5, <3>1, <3>2
    <3> QED
      BY <3>1, <3>3
  <2> QED
    BY <2>4, <2>5
<1> HIDE DEF Good
<1>7. Nat \subseteq S
  <2> HIDE DEF S
  <2> QED
    BY <1>5, <1>6, Induction
<1>8. Good(Bound)
  BY <1>7, CellsFinite
<1>9. PICK u : Draining(f[Bound], h, s, u, g, t) /\ (u = <<>> \/ Len(u) + Bound = Len(s))
  BY <1>8 DEF Good
<1>10. u = <<>>
  <2>1. Len(u) \in Nat /\ u \in Seq(Cells \ {h})
    <3>1. u \in Entries(h) /\ h \in Cells
      BY <1>9 DEF Draining, Two
    <3> QED
      BY <3>1, SpotFacts DEF Entries
  <2>2. CASE Len(u) + Bound = Len(s)
    <3>1. Len(u) = 0
      BY <1>1, <2>1, <2>2, CellsFinite
    <3> QED
      BY <2>1, <3>1, EmptySeq
  <2> QED
    BY <1>9, <2>2
<1>11. f[Bound].visited = s
  <2>1. f[Bound].visited \in Seq(Cells) /\ f[Bound].visited \o <<>> = s
    BY <1>9, <1>10 DEF Draining
  <2> QED
    BY <2>1, ConcatEmptySeq
<1> QED
  BY <1>2, <1>9, <1>10, <1>11 DEF Draining

-----------------------------------------------------------------------------
(***************************************************************************)
(* Whatever list of threads there is, and beside a second list of any      *)
(* length, the operations of list.h that the kernel has and does not call  *)
(* yet do what their comments say.                                         *)
(***************************************************************************)
THEOREM OperationsAgreeTheorem == Spec => []OperationsAgree
<1>1. IInv => OperationsAgree
  <2> SUFFICES ASSUME IInv, intFlag, NEW n \in 0 .. Cardinality(Spares)
               PROVE  LET order == SetToSeq(Spares)
                          others == SubSeq(order, 1, n)
                          threads == list_for_each(links, lThreads)
                          l == WithSpares(order)[n]
                          drained == DrainSafely(l, lThreads)
                      IN  /\ Are(l, threads, others)
                          /\ list_empty(l, spare) <=> others = <<>>
                          /\ \A i \in DOMAIN threads :
                                LET e == threads[i]
                                    rest == RemoveAt(threads, i)
                                IN  /\ Are(Apply(l, list_move(l, e, spare)), rest, <<e>> \o others)
                                    /\ Are(Apply(l, list_move(l, e, lThreads)), <<e>> \o rest, others)
                                    /\ Are(Apply(l, list_move_tail(l, e, spare)), rest, Append(others, e))
                                    /\ LET m == Apply(l, list_del_init(l, e))
                                       IN  Are(m, rest, others) /\ list_empty(m, e)
                          /\ list_for_each(Apply(l, list_splice(l, spare, lThreads)), lThreads)
                                = others \o threads
                          /\ Are(Apply(l, list_splice_init(l, spare, lThreads)), others \o threads, <<>>)
                          /\ drained.visited = threads /\ Are(drained.links, <<>>, others)
    BY DEF OperationsAgree
  <2> DEFINE order == SetToSeq(Spares)
             others == SubSeq(order, 1, n)
             threads == list_for_each(links, lThreads)
             l == WithSpares(order)[n]
             drained == DrainSafely(l, lThreads)
  <2>1. PICK r : Whole(links, r)
    BY WholeWhenOpen
  <2>2. threads = r
    BY <2>1, WholeLooks
  <2>3. Two(l, lThreads, r, spare, others)
    BY <2>1, SparesLinked
  <2>4. DOMAIN r = 1 .. Len(r)
    BY <2>1, LenProperties DEF Whole, ThreadLists
  <2> HIDE DEF others, threads, l, drained
  <2>5. Are(l, r, others)
    BY <2>3, TwoLooks
  <2>6. list_empty(l, spare) <=> others = <<>>
    <3>1. Two(l, spare, others, lThreads, r)
      BY <2>3, TwoTurned
    <3> QED
      BY <3>1, EmptyLooks
  <2>7. ASSUME NEW i \in 1 .. Len(r)
        PROVE  /\ Are(Apply(l, list_move(l, r[i], spare)), RemoveAt(r, i), <<r[i]>> \o others)
               /\ Are(Apply(l, list_move(l, r[i], lThreads)), <<r[i]>> \o RemoveAt(r, i), others)
               /\ Are(Apply(l, list_move_tail(l, r[i], spare)), RemoveAt(r, i), Append(others, r[i]))
               /\ Are(Apply(l, list_del_init(l, r[i])), RemoveAt(r, i), others)
               /\ list_empty(Apply(l, list_del_init(l, r[i])), r[i])
    <3>1. /\ Two(Apply(l, list_move(l, r[i], spare)), lThreads, RemoveAt(r, i), spare, <<r[i]>> \o others)
          /\ Two(Apply(l, list_move(l, r[i], lThreads)), lThreads, <<r[i]>> \o RemoveAt(r, i), spare, others)
          /\ Two(Apply(l, list_move_tail(l, r[i], spare)), lThreads, RemoveAt(r, i), spare, Append(others, r[i]))
      BY <2>3, Moved
    <3>2. /\ Two(Apply(l, list_del_init(l, r[i])), lThreads, RemoveAt(r, i), spare, others)
          /\ list_empty(Apply(l, list_del_init(l, r[i])), r[i])
      BY <2>3, TakenOut
    <3> QED
      BY <3>1, <3>2, TwoLooks
  <2>8. /\ list_for_each(Apply(l, list_splice(l, spare, lThreads)), lThreads) = others \o r
        /\ Are(Apply(l, list_splice_init(l, spare, lThreads)), others \o r, <<>>)
    <3> DEFINE all == others \o r
               m == Apply(l, list_splice_init(l, spare, lThreads))
    <3>1. /\ list_for_each(Apply(l, list_splice(l, spare, lThreads)), lThreads) = all
          /\ Two(m, lThreads, all, spare, <<>>)
      BY <2>3, SplicedLists
    <3> HIDE DEF all, m
    <3>2. Are(m, all, <<>>)
      BY <3>1, TwoLooks
    <3> QED
      BY <3>1, <3>2 DEF all, m
  <2>9. drained.visited = r /\ Are(drained.links, <<>>, others)
    BY <2>3, Drained, TwoLooks DEF drained
  <2> QED
    BY <2>2, <2>4, <2>5, <2>6, <2>7, <2>8, <2>9 DEF others, threads, l, drained
<1> QED
  BY <1>1, Invariance, PTL
============================================================================
