--------------------------- MODULE KeyboardProofs --------------------------
(***************************************************************************)
(* Proofs about Keyboard, for any set of keys, any number of them down at  *)
(* a time and any delay between a key and its interrupt.                   *)
(***************************************************************************)
EXTENDS Keyboard, SequenceTheorems, TLAPS

Modifiers == {"alt", "ctrl", "shift"}
Codes == [key : Keys, break : BOOLEAN, line : Seq(Glyphs)]

TypeInv ==
    /\ held \subseteq Keys
    /\ typed \in Seq(Glyphs)
    /\ wire \in Seq(Codes)
    /\ kbd_status \subseteq Modifiers \cup LockKeys

(***************************************************************************)
(* A key of modifier m is down, or comes up on the wire behind place n.    *)
(***************************************************************************)
Ends(m, n) ==
    \/ \E k \in held : m \in Meta(k)
    \/ \E j \in (n + 1) .. Len(wire) : wire[j].break /\ m \in Meta(wire[j].key)

(***************************************************************************)
(* A modifier that is on, or that a code on the wire will switch on, ends. *)
(***************************************************************************)
EndInv ==
    \A m \in Modifiers :
        /\ m \in kbd_status => Ends(m, 0)
        /\ \A n \in 1 .. Len(wire) :
              ~wire[n].break /\ m \in Meta(wire[n].key) => Ends(m, n)

Inv == TypeInv /\ EndInv

LEMMA MetaIsModifier == \A k : Meta(k) \subseteq Modifiers
  BY DEF Meta, Modifiers

LEMMA LockIsNoModifier == \A k \in LockKeys : k \notin Modifiers
  BY DEF LockKeys, Modifiers

(***************************************************************************)
(* The user's side: a code goes on the end of the wire.                    *)
(***************************************************************************)
LEMMA FrontOf ==
    ASSUME NEW line \in Seq(Glyphs), line # <<>>
    PROVE  /\ Front(line) \in Seq(Glyphs)
           /\ Len(Front(line)) = Len(line) - 1
           /\ \A m \in 1 .. (Len(line) - 1) : Front(line)[m] = line[m]
<1>1. PICK n \in Int : n = Len(line) - 1
  OBVIOUS
<1>2. 1 \in Int /\ 1 <= n + 1 /\ \A i \in 1 .. n : line[i] \in Glyphs
  BY <1>1
<1>3. /\ SubSeq(line, 1, n) \in Seq(Glyphs)
      /\ Len(SubSeq(line, 1, n)) = IF 1 <= n THEN n - 1 + 1 ELSE 0
      /\ \A i \in 1 .. (n - 1 + 1) : SubSeq(line, 1, n)[i] = line[1 + i - 1]
  BY <1>1, <1>2, SubSeqProperties
<1>4. (IF 1 <= n THEN n - 1 + 1 ELSE 0) = n /\ n - 1 + 1 = n
  BY <1>2
<1>5. \A i \in 1 .. n : 1 + i - 1 = i
  BY <1>1
<1>6. Front(line) = SubSeq(line, 1, n)
  BY <1>1 DEF Front
<1> QED
  BY <1>1, <1>3, <1>4, <1>5, <1>6

LEMMA EditedLine == ASSUME typed \in Seq(Glyphs), NEW k PROVE Edited(typed, k) \in Seq(Glyphs)
<1>1. ASSUME k \in {"a", "s", "1"} PROVE Meant(k) \in Glyphs
  BY <1>1 DEF Meant, Shifted, Capital, Glyphs
<1>2. ASSUME typed # <<>> PROVE Front(typed) \in Seq(Glyphs)
  BY <1>2, FrontOf
<1> QED
  BY <1>1, <1>2 DEF Edited

LEMMA SendKeeps ==
    ASSUME Inv, NEW k \in Keys, NEW up \in BOOLEAN,
           wire' = Append(wire, Code(k, up)),
           held' = IF up THEN held \ {k} ELSE held \cup {k},
           typed' \in Seq(Glyphs), UNCHANGED kbd_status
    PROVE  Inv'
<1> DEFINE code == Code(k, up)
           n == Len(wire)
<1>1. wire \in Seq(Codes) /\ n \in Nat /\ typed \in Seq(Glyphs)
  BY DEF Inv, TypeInv
<1>2. code \in Codes /\ code.key = k /\ code.break = up
  BY <1>1 DEF Code, Codes
<1>3. /\ wire' \in Seq(Codes) /\ Len(wire') = n + 1
      /\ wire'[n + 1] = code
      /\ \A j \in 1 .. n : wire'[j] = wire[j]
  BY <1>1, <1>2
<1>4. TypeInv'
  BY <1>3 DEF Inv, TypeInv
<1>5. ASSUME NEW m \in Modifiers, NEW i \in 0 .. n, Ends(m, i)
      PROVE  Ends(m, i)'
  <2>1. CASE \E j \in (i + 1) .. n : wire[j].break /\ m \in Meta(wire[j].key)
    <3>1. PICK j \in (i + 1) .. n : wire[j].break /\ m \in Meta(wire[j].key)
      BY <2>1
    <3>2. j \in (i + 1) .. (n + 1) /\ wire'[j] = wire[j]
      BY <1>1, <1>3
    <3>3. \E l \in (i + 1) .. Len(wire') : wire'[l].break /\ m \in Meta(wire'[l].key)
      BY <1>3, <3>1, <3>2
    <3> QED
      BY <3>3 DEF Ends, Meta
  <2>2. CASE \E h \in held : m \in Meta(h)
    <3>1. PICK h \in held : m \in Meta(h)
      BY <2>2
    <3>2. CASE up /\ h = k
      <4>1. n + 1 \in (i + 1) .. Len(wire') /\ wire'[n + 1].break /\ m \in Meta(wire'[n + 1].key)
        <5>1. n + 1 \in (i + 1) .. (n + 1)
          BY <1>1
        <5>2. code.break /\ m \in Meta(code.key)
          BY <3>1, <3>2, <1>2
        <5> HIDE DEF code
        <5> QED
          BY <5>1, <5>2, <1>3
      <4> QED
        BY <4>1 DEF Ends, Meta
    <3>3. CASE ~(up /\ h = k)
      <4>1. h \in held'
        BY <3>1, <3>3
      <4> QED
        BY <3>1, <4>1 DEF Ends, Meta
    <3> QED
      BY <3>2, <3>3
  <2> QED
    BY <1>5, <2>1, <2>2 DEF Ends
<1>6. EndInv'
  <2> SUFFICES ASSUME NEW m \in Modifiers
               PROVE  /\ m \in kbd_status' => Ends(m, 0)'
                      /\ \A i \in 1 .. Len(wire') :
                           ~wire'[i].break /\ m \in Meta(wire'[i].key) => Ends(m, i)'
    BY DEF EndInv, Meta
  <2>1. m \in kbd_status' => Ends(m, 0)'
    BY <1>1, <1>5 DEF Inv, EndInv
  <2>2. ASSUME NEW i \in 1 .. Len(wire'), ~wire'[i].break, m \in Meta(wire'[i].key)
        PROVE  Ends(m, i)'
    <3>1. CASE i = n + 1
      <4>1. ~up /\ k \in held' /\ m \in Meta(k)
        BY <2>2, <3>1, <1>2, <1>3
      <4> QED
        BY <4>1 DEF Ends, Meta
    <3>2. CASE i # n + 1
      <4>1. i \in 1 .. n /\ ~wire[i].break /\ m \in Meta(wire[i].key)
        BY <2>2, <3>2, <1>1, <1>3
      <4>2. Ends(m, i)
        BY <4>1 DEF Inv, EndInv
      <4> QED
        BY <4>1, <4>2, <1>1, <1>5
    <3> QED
      BY <3>1, <3>2
  <2> QED
    BY <2>1, <2>2
<1> QED
  BY <1>4, <1>6 DEF Inv

(***************************************************************************)
(* The driver's side: the head of the wire is read, and switches on no     *)
(* modifier but its own, and leaves none on that it ends.                  *)
(***************************************************************************)
LEMMA ReadKeeps ==
    ASSUME Inv, NEW code, Reads(code),
           kbd_status' \subseteq Modifiers \cup LockKeys,
           \A m \in Modifiers : m \in kbd_status' =>
              \/ m \in kbd_status /\ ~(code.break /\ m \in Meta(code.key))
              \/ ~code.break /\ m \in Meta(code.key)
    PROVE  Inv'
<1> DEFINE n == Len(wire)
<1>1. wire \in Seq(Codes) /\ n \in Nat /\ wire # <<>>
  BY DEF Inv, TypeInv, Reads
<1>2. /\ n > 0 /\ code = wire[1]
      /\ wire' \in Seq(Codes) /\ Len(wire') = n - 1
      /\ \A j \in 1 .. (n - 1) : wire'[j] = wire[j + 1]
      /\ UNCHANGED <<held, typed>>
  BY <1>1 DEF Reads
<1>3. TypeInv'
  BY <1>2 DEF Inv, TypeInv
<1>4. ASSUME NEW m \in Modifiers, NEW i \in 1 .. n, Ends(m, i)
      PROVE  Ends(m, i - 1)'
  <2>1. CASE \E k \in held : m \in Meta(k)
    BY <2>1, <1>2 DEF Ends, Meta
  <2>2. CASE \E j \in (i + 1) .. n : wire[j].break /\ m \in Meta(wire[j].key)
    <3>1. PICK j \in (i + 1) .. n : wire[j].break /\ m \in Meta(wire[j].key)
      BY <2>2
    <3>2. j - 1 \in ((i - 1) + 1) .. (n - 1) /\ wire'[j - 1] = wire[j]
      <4>1. j - 1 \in 1 .. (n - 1) /\ j - 1 \in ((i - 1) + 1) .. (n - 1) /\ (j - 1) + 1 = j
        BY <1>1
      <4> QED
        BY <4>1, <1>2
    <3> QED
      BY <3>1, <3>2, <1>2 DEF Ends, Meta
  <2> QED
    BY <1>4, <2>1, <2>2 DEF Ends
<1>5. EndInv'
  <2> SUFFICES ASSUME NEW m \in Modifiers
               PROVE  /\ m \in kbd_status' => Ends(m, 0)'
                      /\ \A i \in 1 .. Len(wire') :
                           ~wire'[i].break /\ m \in Meta(wire'[i].key) => Ends(m, i)'
    BY DEF EndInv, Meta
  <2>1. ASSUME m \in kbd_status' PROVE Ends(m, 0)'
    <3>1. Ends(m, 1)
      <4>1. CASE ~code.break /\ m \in Meta(code.key)
        BY <4>1, <1>1, <1>2 DEF Inv, EndInv
      <4>2. CASE m \in kbd_status /\ ~(code.break /\ m \in Meta(code.key))
        <5>1. Ends(m, 0)
          BY <4>2 DEF Inv, EndInv
        <5>2. \A j \in (0 + 1) .. n : j = 1 \/ j \in (1 + 1) .. n
          BY <1>1
        <5> QED
          BY <5>1, <5>2, <4>2, <1>2 DEF Ends
      <4> QED
        BY <2>1, <4>1, <4>2
    <3>2. 1 \in 1 .. n /\ 1 - 1 = 0
      BY <1>1, <1>2
    <3>3. Ends(m, 1 - 1)'
      BY <3>1, <3>2, <1>4
    <3> QED
      BY <3>2, <3>3
  <2>2. ASSUME NEW i \in 1 .. Len(wire'), ~wire'[i].break, m \in Meta(wire'[i].key)
        PROVE  Ends(m, i)'
    <3>1. i + 1 \in 1 .. n /\ (i + 1) - 1 = i /\ wire'[i] = wire[i + 1]
      BY <1>1, <1>2
    <3>2. Ends(m, i + 1)
      BY <2>2, <3>1 DEF Inv, EndInv
    <3>3. Ends(m, (i + 1) - 1)'
      BY <3>1, <3>2, <1>4
    <3> QED
      BY <3>1, <3>3
  <2> QED
    BY <2>1, <2>2
<1> QED
  BY <1>3, <1>5 DEF Inv

LEMMA NextInv == Inv /\ [Next]_vars => Inv'
<1> SUFFICES ASSUME Inv, [Next]_vars PROVE Inv'
  OBVIOUS
<1>0. /\ typed \in Seq(Glyphs)
      /\ kbd_status \subseteq Modifiers \cup LockKeys
  BY DEF Inv, TypeInv
<1>1. ASSUME NEW k \in Keys, Press(k) PROVE Inv'
  <2>1. /\ wire' = Append(wire, Code(k, FALSE)) /\ held' = held \cup {k}
        /\ typed' = Edited(typed, k) /\ UNCHANGED kbd_status
    BY <1>1 DEF Press, Make
  <2>2. typed' \in Seq(Glyphs)
    BY <2>1, <1>0, EditedLine
  <2> QED
    BY <2>1, <2>2, SendKeeps
<1>2. ASSUME NEW k \in Keys, Repeat(k) PROVE Inv'
  <2>1. /\ wire' = Append(wire, Code(k, FALSE)) /\ held' = held \cup {k}
        /\ typed' = Edited(typed, k) /\ UNCHANGED kbd_status
    BY <1>2 DEF Repeat, Make
  <2>2. typed' \in Seq(Glyphs)
    BY <2>1, <1>0, EditedLine
  <2> QED
    BY <2>1, <2>2, SendKeeps
<1>3. ASSUME NEW k \in Keys, Release(k) PROVE Inv'
  <2>1. /\ wire' = Append(wire, Code(k, TRUE)) /\ held' = held \ {k}
        /\ typed' = typed /\ UNCHANGED kbd_status
    BY <1>3 DEF Release
  <2> QED
    BY <2>1, <1>0, SendKeeps
<1>4. ASSUME NEW code, BreakCode(code) PROVE Inv'
  BY <1>4, <1>0, ReadKeeps DEF BreakCode
<1>5. ASSUME NEW code, MetaKey(code) PROVE Inv'
  BY <1>5, <1>0, ReadKeeps, MetaIsModifier DEF MetaKey
<1>6. ASSUME NEW code, LockKey(code) PROVE Inv'
  BY <1>6, <1>0, ReadKeeps, LockIsNoModifier DEF LockKey, Toggled
<1>7. ASSUME NEW code, FunctionKey(code) \/ TextKey(code) \/ Ignored(code) PROVE Inv'
  <2>1. Reads(code) /\ ~code.break /\ UNCHANGED kbd_status
    BY <1>7 DEF FunctionKey, TextKey, Ignored
  <2> QED
    BY <2>1, <1>0, ReadKeeps
<1>8. CASE UNCHANGED vars
  BY <1>8 DEF vars, user, Inv, TypeInv, EndInv, Ends, Meta
<1> QED
  BY <1>1, <1>2, <1>3, <1>4, <1>5, <1>6, <1>7, <1>8 DEF Next, KbdIrq

(***************************************************************************)
(* With every key up and every code read no modifier is on, whatever was   *)
(* pressed, repeated and released before, and in whatever order.           *)
(***************************************************************************)
THEOREM NoStuckModifierTheorem == Spec => []NoStuckModifier
<1>1. Init => Inv
  BY DEF Init, Inv, TypeInv, EndInv
<1>2. Inv => NoStuckModifier
  <2> SUFFICES ASSUME Inv, AllRead, held = {} PROVE kbd_status \subseteq LockKeys
    BY DEF NoStuckModifier
  <2>1. \A m \in Modifiers : ~Ends(m, 0)
    BY DEF Ends, AllRead
  <2> QED
    BY <2>1 DEF Inv, TypeInv, EndInv
<1> QED
  BY <1>1, <1>2, NextInv, PTL DEF Spec

-----------------------------------------------------------------------------
(***************************************************************************)
(* The driver lags behind the user by the codes on the wire.  What it has  *)
(* of the user's work is its status and its line; each code takes one such *)
(* state to the next, and a trace of them leads from the driver's state to *)
(* the user's.                                                             *)
(***************************************************************************)
Editors == [status : SUBSET (Modifiers \cup LockKeys), line : Seq(Glyphs)]

Converted(status, k) == CASE "shift" \in status     -> Shifted(k)
                          [] "caps_lock" \in status -> Capital(k)
                          [] OTHER                  -> k

StatusAfter(status, code) ==
    IF code.break THEN status \ Meta(code.key)
    ELSE IF code.key \in LockKeys THEN Toggled(status, code.key)
    ELSE status \cup Meta(code.key)

LineAfter(s, code) ==
    IF code.break THEN s.line
    ELSE CASE code.key = "backspace" -> IF s.line = <<>> THEN s.line ELSE Front(s.line)
           [] code.key = "enter"     -> <<>>
           [] code.key \in {"a", "s", "1"} ->
                Append(s.line, Converted(s.status, code.key))
           [] OTHER -> s.line

After(s, code) ==
    [status |-> StatusAfter(s.status, code), line |-> LineAfter(s, code)]

\* The shift keys that are used: with two of them the driver forgets that the
\* other is still down (see the configuration KeyboardShift).
OneShift == \A k, l \in Keys \cap ShiftKeys : k = l

\* The buffer holds the line, and NULs behind it.
Holds(line) ==
    /\ cmdBufPos = Len(line)
    /\ commandBuffer = [m \in 0 .. (CMD_BUF_SIZE - 1) |->
                          IF m < Len(line) THEN line[m + 1] ELSE NUL]

Driver(s) ==
    /\ kbd_status = s.status
    /\ MaxLine <= CMD_BUF_SIZE => Holds(s.line) /\ (tabbed \/ echoed = s.line)

User(s) ==
    /\ lockOn = s.status \cap LockKeys
    /\ Len(typed) = Len(s.line)
    /\ OneShift => /\ "shift" \in s.status <=> held \cap ShiftKeys # {}
                   /\ typed = s.line

Follows(s, code, t) ==
    /\ t = After(s, code)
    /\ OneShift /\ code.key = "enter" /\ ~code.break => code.line = s.line

Trace(tr) ==
    /\ tr \in Seq(Editors)
    /\ Len(tr) = Len(wire) + 1
    /\ \A n \in 1 .. Len(tr) : Len(tr[n].line) <= MaxLine
    /\ \A n \in 1 .. Len(wire) : Follows(tr[n], wire[n], tr[n + 1])

TraceInv == \E tr : Trace(tr) /\ Driver(tr[1]) /\ User(tr[Len(wire) + 1])

LightInv == leds = kbd_status \cap LockKeys

LineInv == Inv /\ LightInv /\ TraceInv

LEMMA TextIsGlyph ==
    ASSUME NEW k \in {"a", "s", "1"}
    PROVE  Shifted(k) \in Glyphs /\ Capital(k) \in Glyphs /\ k \in Glyphs
  BY DEF Shifted, Capital, Glyphs

LEMMA AfterIsEditor ==
    ASSUME NEW s \in Editors, NEW code \in Codes
    PROVE  /\ After(s, code) \in Editors
           /\ Len(After(s, code).line) =
                IF code.break THEN Len(s.line)
                ELSE CASE code.key = "backspace" ->
                            IF s.line = <<>> THEN 0 ELSE Len(s.line) - 1
                       [] code.key = "enter" -> 0
                       [] code.key \in {"a", "s", "1"} -> Len(s.line) + 1
                       [] OTHER -> Len(s.line)
<1>1. /\ s.line \in Seq(Glyphs) /\ s.status \subseteq Modifiers \cup LockKeys
      /\ code.break \in BOOLEAN
  BY DEF Editors, Codes
<1>2. StatusAfter(s.status, code) \subseteq Modifiers \cup LockKeys
  BY <1>1, MetaIsModifier DEF StatusAfter, Toggled
<1>3. CASE code.break
  BY <1>1, <1>2, <1>3 DEF After, LineAfter, Editors
<1>4. CASE ~code.break /\ code.key = "backspace"
  <2>1. CASE s.line = <<>>
    BY <1>1, <1>2, <1>4, <2>1 DEF After, LineAfter, Editors
  <2>2. CASE s.line # <<>>
    <3>1. Front(s.line) \in Seq(Glyphs) /\ Len(Front(s.line)) = Len(s.line) - 1
      BY <1>1, <2>2, FrontOf
    <3> QED
      BY <1>2, <1>4, <2>2, <3>1 DEF After, LineAfter, Editors
  <2> QED
    BY <2>1, <2>2
<1>5. CASE ~code.break /\ code.key = "enter"
  BY <1>2, <1>5 DEF After, LineAfter, Editors
<1>6. CASE ~code.break /\ code.key \in {"a", "s", "1"}
  <2>1. Converted(s.status, code.key) \in Glyphs
    BY <1>6, TextIsGlyph DEF Converted
  <2>2. LineAfter(s, code) = Append(s.line, Converted(s.status, code.key))
    BY <1>6 DEF LineAfter
  <2>3. LineAfter(s, code) \in Seq(Glyphs) /\ Len(LineAfter(s, code)) = Len(s.line) + 1
    BY <1>1, <2>1, <2>2
  <2> QED
    BY <1>2, <1>6, <2>3 DEF After, Editors
<1>7. CASE ~code.break /\ code.key \notin {"backspace", "enter", "a", "s", "1"}
  BY <1>1, <1>2, <1>7 DEF After, LineAfter, Editors
<1> QED
  BY <1>3, <1>4, <1>5, <1>6, <1>7

(***************************************************************************)
(* A code the user sends lengthens the trace at its end.                   *)
(***************************************************************************)
LEMMA SendTrace ==
    ASSUME Inv, TraceInv, NEW code \in Codes,
           wire' = Append(wire, code),
           code.key = "enter" /\ ~code.break => code.line = typed,
           ~code.break /\ code.key \in {"a", "s", "1"} => Len(typed) < MaxLine,
           UNCHANGED <<kbd_status, commandBuffer, cmdBufPos, echoed, tabbed>>,
           \A s \in Editors : User(s) => User(After(s, code))'
    PROVE  TraceInv'
<1> DEFINE n == Len(wire)
<1>1. PICK tr : Trace(tr) /\ Driver(tr[1]) /\ User(tr[n + 1])
  BY DEF TraceInv
<1>2. wire \in Seq(Codes) /\ n \in Nat
  BY DEF Inv, TypeInv
<1>3. tr \in Seq(Editors) /\ Len(tr) = n + 1
  BY <1>1 DEF Trace
<1>4. PICK s \in Editors : s = tr[n + 1]
  BY <1>2, <1>3
<1>5. PICK t : t = After(s, code)
  OBVIOUS
<1>6. PICK new : new = Append(tr, t)
  OBVIOUS
<1>7. /\ new \in Seq(Editors) /\ Len(new) = n + 2
      /\ \A i \in 1 .. (n + 1) : new[i] = tr[i]
      /\ new[n + 2] = t
  BY <1>2, <1>3, <1>5, <1>6, AfterIsEditor
<1>8. /\ Len(wire') = n + 1 /\ wire'[n + 1] = code
      /\ \A i \in 1 .. n : wire'[i] = wire[i]
  BY <1>2
<1>9. Len(t.line) <= MaxLine
  <2>1. s.line \in Seq(Glyphs) /\ Len(s.line) <= MaxLine /\ Len(typed) = Len(s.line)
    BY <1>1, <1>2, <1>3, <1>4 DEF Trace, User, Editors
  <2>2. code.break \in BOOLEAN /\ MaxLine \in Nat
    BY KeyboardAssumption DEF Codes
  <2> QED
    BY <1>5, <2>1, <2>2, AfterIsEditor
<1>10. \A i \in 1 .. Len(new) : Len(new[i].line) <= MaxLine
  BY <1>1, <1>2, <1>3, <1>7, <1>9 DEF Trace
<1>11. ASSUME NEW i \in 1 .. (n + 1) PROVE Follows(new[i], wire'[i], new[i + 1])
  <2>1. CASE i = n + 1
    <3>1. new[i] = s /\ wire'[i] = code /\ new[i + 1] = t
      BY <1>2, <1>4, <1>7, <1>8, <2>1
    <3>2. OneShift => typed = s.line
      BY <1>1, <1>4 DEF User
    <3> QED
      BY <1>5, <3>1, <3>2 DEF Follows
  <2>2. CASE i # n + 1
    <3>1. i \in 1 .. n /\ i + 1 \in 1 .. (n + 1)
      BY <1>2, <2>2
    <3>2. new[i] = tr[i] /\ wire'[i] = wire[i] /\ new[i + 1] = tr[i + 1]
      BY <1>7, <1>8, <3>1
    <3> QED
      BY <1>1, <3>1, <3>2 DEF Trace
  <2> QED
    BY <2>1, <2>2
<1>12. Trace(new)'
  BY <1>2, <1>7, <1>8, <1>10, <1>11 DEF Trace, Follows
<1>13. Driver(new[1])'
  BY <1>1, <1>2, <1>7 DEF Driver, Holds
<1>14. User(new[Len(wire) + 1])'
  <2>1. User(t)'
    BY <1>1, <1>4, <1>5
  <2>2. Len(wire') + 1 = n + 2
    BY <1>2, <1>8
  <2> QED
    BY <1>7, <2>1, <2>2
<1> QED
  BY <1>12, <1>13, <1>14 DEF TraceInv

(***************************************************************************)
(* The interrupt reads the first code, and shortens the trace at its head. *)
(***************************************************************************)
LEMMA ReadTrace ==
    ASSUME Inv, TraceInv, NEW code, Reads(code),
           \A s \in Editors :
              Driver(s) /\ Len(s.line) <= MaxLine /\ Len(After(s, code).line) <= MaxLine
                => Driver(After(s, code))'
    PROVE  TraceInv'
<1> DEFINE n == Len(wire)
<1>1. PICK tr : Trace(tr) /\ Driver(tr[1]) /\ User(tr[n + 1])
  BY DEF TraceInv
<1>2. /\ wire \in Seq(Codes) /\ n \in Nat /\ n > 0
      /\ code = wire[1] /\ code \in Codes
      /\ wire' = Tail(wire)
      /\ UNCHANGED <<held, lockOn, typed>>
  BY DEF Inv, TypeInv, Reads
<1>3. tr \in Seq(Editors) /\ Len(tr) = n + 1
  BY <1>1 DEF Trace
<1>4. PICK new : new = Tail(tr)
  OBVIOUS
<1>5. /\ new \in Seq(Editors) /\ Len(new) = n
      /\ \A i \in 1 .. n : new[i] = tr[i + 1]
  BY <1>2, <1>3, <1>4
<1>6. Len(wire') = n - 1 /\ \A i \in 1 .. (n - 1) : wire'[i] = wire[i + 1]
  BY <1>2
<1>7. PICK s \in Editors : s = tr[1]
  BY <1>2, <1>3
<1>8. new[1] = After(s, code) /\ Len(new[1].line) <= MaxLine
  <2>1. Follows(tr[1], wire[1], tr[1 + 1])
    BY <1>1, <1>2 DEF Trace
  <2>2. 1 + 1 \in 1 .. Len(tr)
    BY <1>2, <1>3
  <2>3. Len(tr[1 + 1].line) <= MaxLine
    BY <1>1, <2>2 DEF Trace
  <2> QED
    BY <1>2, <1>5, <1>7, <2>1, <2>3 DEF Follows
<1>9. \A i \in 1 .. Len(new) : Len(new[i].line) <= MaxLine
  <2> SUFFICES ASSUME NEW i \in 1 .. n PROVE Len(new[i].line) <= MaxLine
    BY <1>5
  <2>1. i + 1 \in 1 .. Len(tr)
    BY <1>2, <1>3
  <2> QED
    BY <1>1, <1>5, <2>1 DEF Trace
<1>10. ASSUME NEW i \in 1 .. (n - 1) PROVE Follows(new[i], wire'[i], new[i + 1])
  <2>1. i \in 1 .. n /\ i + 1 \in 1 .. n
    BY <1>2
  <2>2. Follows(tr[i + 1], wire[i + 1], tr[(i + 1) + 1])
    BY <1>1, <2>1 DEF Trace
  <2> QED
    BY <1>5, <1>6, <2>1, <2>2
<1>11. Trace(new)'
  BY <1>2, <1>5, <1>6, <1>9, <1>10 DEF Trace, Follows
<1>12. Driver(new[1])'
  <2>1. 1 \in 1 .. Len(tr)
    BY <1>2, <1>3
  <2>2. Len(s.line) <= MaxLine
    BY <1>1, <1>7, <2>1 DEF Trace
  <2> QED
    BY <1>1, <1>7, <1>8, <2>2
<1>13. User(new[Len(wire) + 1])'
  <2>1. n \in 1 .. n /\ Len(wire') + 1 = n
    BY <1>2, <1>6
  <2>2. PICK u : u = tr[n + 1]
    OBVIOUS
  <2>3. User(u)'
    BY <1>1, <1>2, <2>2 DEF User
  <2>4. new[Len(wire') + 1] = u
    BY <1>5, <2>1, <2>2
  <2> QED
    BY <2>3, <2>4
<1> QED
  BY <1>11, <1>12, <1>13 DEF TraceInv

(***************************************************************************)
(* The user's side: each key does to the user's state what its code will   *)
(* do to the driver's.                                                     *)
(***************************************************************************)
LEMMA MetaOfShift ==
    /\ \A k \in ShiftKeys : Meta(k) = {"shift"}
    /\ \A k : k \notin ShiftKeys => "shift" \notin Meta(k)
    /\ \A k \in LockKeys : Meta(k) = {}
    /\ \A k : Meta(k) \cap LockKeys = {}
    /\ \A k \in LockKeys : k \notin ShiftKeys /\ k # "shift"
  BY DEF Meta, ShiftKeys, CtrlKeys, AltKeys, LockKeys

LEMMA LocksFollow ==
    ASSUME NEW s \in Editors, NEW code \in Codes, lockOn = s.status \cap LockKeys,
           lockOn' = IF code.break \/ code.key \notin LockKeys THEN lockOn
                     ELSE IF code.key \in lockOn THEN lockOn \ {code.key}
                     ELSE lockOn \cup {code.key}
    PROVE  lockOn' = After(s, code).status \cap LockKeys
<1>1. After(s, code).status = StatusAfter(s.status, code)
  BY DEF After
<1>2. code.break \in BOOLEAN
  BY DEF Codes
<1> QED
  BY <1>1, <1>2, MetaOfShift DEF StatusAfter, Toggled

LEMMA ShiftFollows ==
    ASSUME NEW s \in Editors, NEW code \in Codes, OneShift, held \subseteq Keys,
           "shift" \in s.status <=> held \cap ShiftKeys # {},
           held' = IF code.break THEN held \ {code.key} ELSE held \cup {code.key}
    PROVE  "shift" \in After(s, code).status <=> held' \cap ShiftKeys # {}
<1>1. After(s, code).status = StatusAfter(s.status, code)
  BY DEF After
<1>2. code.break \in BOOLEAN /\ code.key \in Keys
  BY DEF Codes
<1>3. CASE code.break
  <2>1. After(s, code).status = s.status \ Meta(code.key)
    BY <1>1, <1>3 DEF StatusAfter
  <2>2. CASE code.key \in ShiftKeys
    <3>1. held' \cap ShiftKeys = {}
      BY <1>2, <1>3, <2>2 DEF OneShift
    <3> QED
      BY <2>1, <2>2, <3>1, MetaOfShift
  <2>3. CASE code.key \notin ShiftKeys
    <3>1. held' \cap ShiftKeys = held \cap ShiftKeys
      BY <1>3, <2>3
    <3> QED
      BY <2>1, <2>3, <3>1, MetaOfShift
  <2> QED
    BY <2>2, <2>3
<1>4. CASE ~code.break
  <2>1. CASE code.key \in ShiftKeys
    <3>1. code.key \in held' \cap ShiftKeys
      BY <1>4, <2>1
    <3>2. "shift" \in After(s, code).status
      BY <1>1, <1>4, <2>1, MetaOfShift DEF StatusAfter
    <3> QED
      BY <3>1, <3>2
  <2>2. CASE code.key \notin ShiftKeys
    <3>1. held' \cap ShiftKeys = held \cap ShiftKeys
      BY <1>4, <2>2
    <3>2. "shift" \in After(s, code).status <=> "shift" \in s.status
      BY <1>1, <1>4, <2>2, MetaOfShift DEF StatusAfter, Toggled
    <3> QED
      BY <3>1, <3>2
  <2> QED
    BY <2>1, <2>2
<1> QED
  BY <1>2, <1>3, <1>4

LEMMA LineFollows ==
    ASSUME NEW s \in Editors, NEW code \in Codes, typed \in Seq(Glyphs),
           lockOn = s.status \cap LockKeys, Len(typed) = Len(s.line),
           typed' = IF code.break THEN typed ELSE Edited(typed, code.key)
    PROVE  /\ Len(typed') = Len(After(s, code).line)
           /\ ("shift" \in s.status <=> held \cap ShiftKeys # {}) /\ typed = s.line
                => typed' = After(s, code).line
<1>1. After(s, code).line = LineAfter(s, code) /\ s.line \in Seq(Glyphs)
  BY DEF After, Editors
<1>2. code.break \in BOOLEAN
  BY DEF Codes
<1>3. ("shift" \in s.status <=> held \cap ShiftKeys # {})
        => Meant(code.key) = Converted(s.status, code.key)
  BY DEF Meant, Converted, LockKeys
<1>4. CASE code.break
  BY <1>1, <1>4 DEF LineAfter
<1>5. CASE ~code.break /\ code.key = "backspace"
  <2>1. typed = <<>> <=> s.line = <<>>
    BY <1>1
  <2>3. CASE typed = <<>>
    BY <1>1, <1>5, <2>1, <2>3 DEF LineAfter, Edited
  <2>4. CASE typed # <<>>
    <3>1. typed' = Front(typed) /\ LineAfter(s, code) = Front(s.line)
      BY <1>5, <2>1, <2>4 DEF LineAfter, Edited
    <3> QED
      BY <1>1, <2>1, <2>4, <3>1, FrontOf
  <2> QED
    BY <2>3, <2>4
<1>6. CASE ~code.break /\ code.key = "enter"
  BY <1>1, <1>6 DEF LineAfter, Edited
<1>7. CASE ~code.break /\ code.key \in {"a", "s", "1"}
  <2>1. /\ typed' = Append(typed, Meant(code.key))
        /\ LineAfter(s, code) = Append(s.line, Converted(s.status, code.key))
    BY <1>7 DEF LineAfter, Edited
  <2>2. Len(typed') = Len(typed) + 1 /\ Len(LineAfter(s, code)) = Len(s.line) + 1
    BY <1>1, <2>1
  <2> QED
    BY <1>1, <1>3, <2>1, <2>2
<1>8. CASE ~code.break /\ code.key \notin {"backspace", "enter", "a", "s", "1"}
  BY <1>1, <1>8 DEF LineAfter, Edited
<1> QED
  BY <1>2, <1>4, <1>5, <1>6, <1>7, <1>8

(***************************************************************************)
(* The driver's side, for the keys that reach the command line.            *)
(***************************************************************************)
LEMMA HoldsBackspace ==
    ASSUME NEW line \in Seq(Glyphs), Holds(line), Len(line) <= CMD_BUF_SIZE,
           line # <<>>, AddBackspace
    PROVE  Holds(Front(line))'
<1> DEFINE len == Len(line)
<1>1. CMD_BUF_SIZE \in Nat /\ len \in Nat /\ len > 0
  BY KeyboardAssumption
<1>2. PICK short : short = Front(line)
  OBVIOUS
<1>3. Len(short) = len - 1 /\ \A m \in 1 .. (len - 1) : short[m] = line[m]
  BY <1>2, FrontOf
<1>4. /\ cmdBufPos' = len - 1
      /\ commandBuffer' = [m \in 0 .. (CMD_BUF_SIZE - 1) |->
                             IF m = len - 1 THEN NUL
                             ELSE IF m < len THEN line[m + 1] ELSE NUL]
  BY DEF Holds, AddBackspace, StoreCommand
<1>5. commandBuffer' = [m \in 0 .. (CMD_BUF_SIZE - 1) |->
                          IF m < Len(short) THEN short[m + 1] ELSE NUL]
  <2>1. ASSUME NEW m \in 0 .. (CMD_BUF_SIZE - 1)
        PROVE  (IF m = len - 1 THEN NUL ELSE IF m < len THEN line[m + 1] ELSE NUL)
                 = (IF m < Len(short) THEN short[m + 1] ELSE NUL)
    BY <1>1, <1>3
  <2> HIDE DEF len
  <2> QED
    BY <1>4, <2>1
<1>6. Holds(short)'
  BY <1>3, <1>4, <1>5 DEF Holds
<1> QED
  BY <1>2, <1>6

LEMMA HoldsCharacter ==
    ASSUME NEW line \in Seq(Glyphs), NEW c \in Glyphs, Holds(line),
           Len(line) < CMD_BUF_SIZE, AddCharacter(c)
    PROVE  Holds(Append(line, c))'
<1> DEFINE len == Len(line)
<1>1. CMD_BUF_SIZE \in Nat \ {0} /\ len \in Nat /\ len < CMD_BUF_SIZE
  BY KeyboardAssumption
<1>2. PICK long : long = Append(line, c)
  OBVIOUS
<1>3. Len(long) = len + 1 /\ long[len + 1] = c /\ \A m \in 1 .. len : long[m] = line[m]
  BY <1>1, <1>2
<1>4. cmdBufPos % CMD_BUF_SIZE = len
  <2> HIDE DEF len
  <2>1. len % CMD_BUF_SIZE = len
    BY <1>1
  <2>2. cmdBufPos = len
    BY DEF Holds, len
  <2> QED
    BY <2>1, <2>2
<1>5. /\ cmdBufPos' = len + 1
      /\ commandBuffer' = [m \in 0 .. (CMD_BUF_SIZE - 1) |->
                             IF m = len THEN c
                             ELSE IF m < len THEN line[m + 1] ELSE NUL]
  BY <1>4 DEF Holds, AddCharacter, StoreCommand
<1>6. commandBuffer' = [m \in 0 .. (CMD_BUF_SIZE - 1) |->
                          IF m < Len(long) THEN long[m + 1] ELSE NUL]
  <2>1. ASSUME NEW m \in 0 .. (CMD_BUF_SIZE - 1)
        PROVE  (IF m = len THEN c ELSE IF m < len THEN line[m + 1] ELSE NUL)
                 = (IF m < Len(long) THEN long[m + 1] ELSE NUL)
    BY <1>1, <1>3
  <2> HIDE DEF len
  <2> QED
    BY <1>5, <2>1
<1>7. Holds(long)'
  BY <1>3, <1>5, <1>6 DEF Holds
<1> QED
  BY <1>2, <1>7

LEMMA HoldsNothing ==
    ASSUME NEW line, Holds(line), AddEnter
    PROVE  Holds(<<>>)'
<1>0. <<>> \in Seq(Glyphs)
  OBVIOUS
<1>1. PICK none \in Seq(Glyphs) : none = <<>>
  BY <1>0
<1>2. Len(none) = 0 /\ \A m \in 0 .. (CMD_BUF_SIZE - 1) : ~(m < Len(none))
  BY <1>1, KeyboardAssumption
<1>3. commandBuffer' = [m \in 0 .. (CMD_BUF_SIZE - 1) |-> NUL] /\ cmdBufPos' = 0
  BY DEF Holds, AddEnter
<1>4. Holds(none)'
  BY <1>2, <1>3 DEF Holds
<1> QED
  BY <1>1, <1>4

(***************************************************************************)
(* What processCommand reads is the line the buffer holds.                 *)
(***************************************************************************)
LEMMA CommandIsLine ==
    ASSUME NEW line \in Seq(Glyphs), Holds(line), Len(line) <= CMD_BUF_SIZE
    PROVE  CommandString = line
<1> DEFINE len == Len(line)
           Ends0(n) == /\ \A m \in 0 .. (n - 1) : commandBuffer[m] # NUL
                       /\ n < CMD_BUF_SIZE => commandBuffer[n] = NUL
<1>1. CMD_BUF_SIZE \in Nat /\ len \in 0 .. CMD_BUF_SIZE
  BY KeyboardAssumption
<1>2. /\ \A m \in 0 .. (len - 1) : commandBuffer[m] = line[m + 1]
      /\ \A m \in len .. (CMD_BUF_SIZE - 1) : commandBuffer[m] = NUL
  BY <1>1 DEF Holds
<1>3. NUL \notin Glyphs /\ \A m \in 1 .. len : line[m] \in Glyphs
  BY DEF NUL, Glyphs
<1>4. Ends0(len)
  BY <1>1, <1>2, <1>3
<1>5. ASSUME NEW n \in 0 .. CMD_BUF_SIZE, Ends0(n) PROVE n = len
  <2>1. CASE n < len
    <3>1. n \in 0 .. (len - 1) /\ n + 1 \in 1 .. len /\ n < CMD_BUF_SIZE
      BY <1>1, <2>1
    <3> QED
      BY <1>2, <1>3, <1>5, <3>1
  <2>2. CASE n > len
    <3>1. len \in 0 .. (n - 1) /\ len \in len .. (CMD_BUF_SIZE - 1)
      BY <1>1, <2>2
    <3> QED
      BY <1>2, <1>5, <3>1
  <2> QED
    BY <1>1, <2>1, <2>2
<1>6. (CHOOSE n \in 0 .. CMD_BUF_SIZE : Ends0(n)) = len
  <2> HIDE DEF len, Ends0
  <2> QED
    BY <1>1, <1>4, <1>5
<1>7. CommandString = [m \in 1 .. len |-> commandBuffer[m - 1]]
  BY <1>6 DEF CommandString
<1>8. \A m \in 1 .. len : commandBuffer[m - 1] = line[m]
  <2> SUFFICES ASSUME NEW m \in 1 .. len PROVE commandBuffer[m - 1] = line[m]
    OBVIOUS
  <2>1. m - 1 \in 0 .. (len - 1) /\ (m - 1) + 1 = m
    BY <1>1
  <2> QED
    BY <1>2, <2>1
<1>9. line = [m \in 1 .. len |-> line[m]]
  OBVIOUS
<1> QED
  BY <1>7, <1>8, <1>9

(***************************************************************************)
(* Reading a code does to the driver's state what After says.              *)
(***************************************************************************)
LEMMA TextKeyFollows ==
    ASSUME NEW s \in Editors, NEW code \in Codes, Driver(s), TextKey(code),
           MaxLine <= CMD_BUF_SIZE,
           Len(s.line) <= MaxLine, Len(After(s, code).line) <= MaxLine
    PROVE  /\ Holds(After(s, code).line)'
           /\ tabbed' \/ echoed' = After(s, code).line
<1>1. /\ s.line \in Seq(Glyphs) /\ Len(s.line) \in Nat /\ Len(s.line) <= CMD_BUF_SIZE
      /\ Holds(s.line) /\ (tabbed \/ echoed = s.line) /\ s.status = kbd_status
      /\ cmdBufPos = Len(s.line)
  BY KeyboardAssumption DEF Editors, Driver, Holds
<1>2. /\ ~code.break /\ code.key \in TextKeys
      /\ code.key = "tab" => tabbed'
      /\ tabbed /\ code.key # "enter" => tabbed'
  BY Zenon DEF TextKey
<1>3. After(s, code).line = LineAfter(s, code)
  BY DEF After
<1>4. PICK c : c = convert(code.key)
  OBVIOUS
<1>5. /\ code.key \in {"backspace", "enter", "tab"} => c = code.key
      /\ code.key \in {"a", "s", "1"} =>
            c \in Glyphs /\ c = Converted(s.status, code.key)
  BY <1>1, <1>4, TextIsGlyph DEF convert, Converted, Shifted, Capital
<1>6. \/ c = "backspace" /\ AddBackspace
           /\ echoed' = IF echoed = <<>> THEN echoed ELSE Front(echoed)
      \/ c = "enter" /\ AddEnter /\ echoed' = <<>>
      \/ c = "tab" /\ AddTab /\ echoed' = Append(echoed, c)
      \/ c \in Glyphs /\ AddCharacter(c) /\ echoed' = Append(echoed, c)
  BY <1>4 DEF TextKey
<1>7. {"backspace", "enter", "tab"} \cap Glyphs = {}
  BY DEF Glyphs
<1>8. CASE code.key = "backspace"
  <2>1. /\ AddBackspace
        /\ echoed' = IF echoed = <<>> THEN echoed ELSE Front(echoed)
        /\ tabbed => tabbed'
    BY <1>2, <1>5, <1>6, <1>7, <1>8
  <2>2. s.line # <<>>
    BY <1>1, <2>1 DEF AddBackspace
  <2>3. LineAfter(s, code) = Front(s.line)
    BY <1>2, <1>8, <2>2 DEF LineAfter
  <2>4. Holds(Front(s.line))'
    BY <1>1, <2>1, <2>2, HoldsBackspace
  <2> QED
    BY <1>1, <1>3, <2>1, <2>2, <2>3, <2>4
<1>9. CASE code.key = "enter"
  <2>1. AddEnter /\ echoed' = <<>>
    BY <1>5, <1>6, <1>7, <1>9
  <2>2. LineAfter(s, code) = <<>>
    BY <1>2, <1>9 DEF LineAfter
  <2> QED
    BY <1>1, <1>3, <2>1, <2>2, HoldsNothing
<1>10. CASE code.key = "tab"
  <2>1. AddTab /\ tabbed'
    BY <1>2, <1>5, <1>6, <1>7, <1>10
  <2>2. LineAfter(s, code) = s.line
    BY <1>2, <1>10 DEF LineAfter
  <2> QED
    BY <1>1, <1>3, <2>1, <2>2 DEF Holds, AddTab
<1>11. CASE code.key \in {"a", "s", "1"}
  <2>1. /\ AddCharacter(c) /\ echoed' = Append(echoed, c)
        /\ tabbed => tabbed'
        /\ c \in Glyphs
    BY <1>2, <1>5, <1>6, <1>7, <1>11
  <2>2. LineAfter(s, code) = Append(s.line, c)
    BY <1>2, <1>5, <1>11 DEF LineAfter
  <2>3. Len(s.line) < CMD_BUF_SIZE
    <3>1. Len(Append(s.line, c)) = Len(s.line) + 1
      BY <1>1, <2>1
    <3>2. MaxLine \in Nat /\ CMD_BUF_SIZE \in Nat
      BY KeyboardAssumption
    <3> QED
      BY <1>1, <1>3, <2>2, <3>1, <3>2
  <2>4. Holds(Append(s.line, c))'
    BY <1>1, <2>1, <2>3, HoldsCharacter
  <2> QED
    BY <1>1, <1>3, <2>1, <2>2, <2>4
<1> QED
  BY <1>2, <1>8, <1>9, <1>10, <1>11 DEF TextKeys

(***************************************************************************)
(* A code that is no text key, or the backspace of an empty line.          *)
(***************************************************************************)
LEMMA OtherKeyFollows ==
    ASSUME NEW s \in Editors, NEW code \in Codes, Driver(s),
           \/ code.break
           \/ code.key \notin TextKeys
           \/ code.key = "backspace" /\ (MaxLine <= CMD_BUF_SIZE => cmdBufPos = 0),
           kbd_status' = StatusAfter(kbd_status, code),
           UNCHANGED <<commandBuffer, cmdBufPos, echoed, tabbed>>
    PROVE  Driver(After(s, code))'
<1>1. /\ After(s, code).status = StatusAfter(s.status, code)
      /\ After(s, code).line = LineAfter(s, code)
      /\ code.break \in BOOLEAN /\ s.line \in Seq(Glyphs)
  BY DEF After, Codes, Editors
<1>2. ASSUME MaxLine <= CMD_BUF_SIZE PROVE LineAfter(s, code) = s.line
  <2>1. code.key = "backspace" /\ cmdBufPos = 0 => s.line = <<>>
    BY <1>1, <1>2 DEF Driver, Holds
  <2> QED
    BY <1>1, <1>2, <2>1 DEF LineAfter, TextKeys
<1> QED
  BY <1>1, <1>2 DEF Driver, Holds

LEMMA KbdIrqFollows ==
    ASSUME Inv, NEW s \in Editors, NEW code \in Codes, Driver(s),
           Len(s.line) <= MaxLine, Len(After(s, code).line) <= MaxLine,
           \/ BreakCode(code) \/ MetaKey(code) \/ LockKey(code)
           \/ FunctionKey(code) \/ TextKey(code) \/ Ignored(code)
    PROVE  Driver(After(s, code))'
<1>1. code.break \in BOOLEAN
  BY DEF Codes
<1>2. CASE BreakCode(code)
  BY <1>2, OtherKeyFollows DEF BreakCode, StatusAfter
<1>3. CASE MetaKey(code)
  <2>1. code.key \notin LockKeys /\ code.key \notin TextKeys
    BY <1>3 DEF MetaKey, Meta, LockKeys, TextKeys, AltKeys, CtrlKeys, ShiftKeys
  <2> QED
    BY <1>3, <2>1, OtherKeyFollows DEF MetaKey, StatusAfter
<1>4. CASE LockKey(code)
  <2>1. code.key \notin TextKeys
    BY <1>4 DEF LockKey, LockKeys, TextKeys
  <2> QED
    BY <1>4, <2>1, OtherKeyFollows DEF LockKey, StatusAfter
<1>5. ASSUME ~code.break, code.key \in FunctionKeys \cup TextKeys \cup SpecialKeys,
             UNCHANGED kbd_status
      PROVE  kbd_status' = StatusAfter(kbd_status, code)
  <2>1. code.key \notin LockKeys /\ Meta(code.key) = {}
    BY <1>5 DEF FunctionKeys, TextKeys, SpecialKeys, Meta, LockKeys, AltKeys, CtrlKeys,
                ShiftKeys
  <2> QED
    BY <1>5, <2>1 DEF StatusAfter
<1>6. CASE FunctionKey(code)
  <2>1. code.key \notin TextKeys
    BY <1>6 DEF FunctionKey, FunctionKeys, TextKeys
  <2> QED
    BY <1>5, <1>6, <2>1, OtherKeyFollows DEF FunctionKey
<1>7. CASE Ignored(code)
  <2>1. /\ ~code.break
        /\ code.key \in TextKeys \cup SpecialKeys
        /\ code.key \notin TextKeys \/ (code.key = "backspace" /\ cmdBufPos = 0)
        /\ UNCHANGED <<kbd_status, commandBuffer, cmdBufPos, echoed, tabbed>>
    BY <1>7 DEF Ignored, SpecialKeys, TextKeys
  <2> QED
    BY <1>5, <2>1, OtherKeyFollows
<1>8. CASE TextKey(code)
  <2>1. kbd_status' = StatusAfter(kbd_status, code)
    BY <1>5, <1>8 DEF TextKey
  <2>2. After(s, code).status = StatusAfter(s.status, code)
    BY DEF After
  <2>3. MaxLine <= CMD_BUF_SIZE => /\ Holds(After(s, code).line)'
                                   /\ tabbed' \/ echoed' = After(s, code).line
    BY <1>8, TextKeyFollows
  <2> QED
    BY <2>1, <2>2, <2>3 DEF Driver
<1> QED
  BY <1>2, <1>3, <1>4, <1>6, <1>7, <1>8

LEMMA UserFollows ==
    ASSUME Inv, NEW code \in Codes, NEW s \in Editors, User(s),
           lockOn' = IF code.break \/ code.key \notin LockKeys THEN lockOn
                     ELSE IF code.key \in lockOn THEN lockOn \ {code.key}
                     ELSE lockOn \cup {code.key},
           held' = IF code.break THEN held \ {code.key} ELSE held \cup {code.key},
           typed' = IF code.break THEN typed ELSE Edited(typed, code.key)
    PROVE  User(After(s, code))'
<1>1. PICK t : t = After(s, code)
  OBVIOUS
<1>2. held \subseteq Keys /\ typed \in Seq(Glyphs)
  BY DEF Inv, TypeInv
<1>3. lockOn' = t.status \cap LockKeys
  BY <1>1, LocksFollow DEF User
<1>4. Len(typed') = Len(t.line)
  BY <1>1, <1>2, LineFollows DEF User
<1>5. ASSUME OneShift
      PROVE  ("shift" \in t.status <=> held' \cap ShiftKeys # {}) /\ typed' = t.line
  BY <1>1, <1>2, <1>5, ShiftFollows, LineFollows DEF User
<1>6. User(t)'
  BY <1>3, <1>4, <1>5 DEF User
<1> QED
  BY <1>1, <1>6

LEMMA SendKeepsTrace ==
    ASSUME LineInv, NEW k \in Keys, NEW up \in BOOLEAN,
           wire' = Append(wire, Code(k, up)),
           lockOn' = IF up \/ k \notin LockKeys THEN lockOn
                     ELSE IF k \in lockOn THEN lockOn \ {k} ELSE lockOn \cup {k},
           held' = IF up THEN held \ {k} ELSE held \cup {k},
           typed' = IF up THEN typed ELSE Edited(typed, k),
           ~up /\ k \in {"a", "s", "1"} => Len(typed) < MaxLine,
           UNCHANGED <<leds, kbd_status, commandBuffer, cmdBufPos, echoed, tabbed>>
    PROVE  LightInv' /\ TraceInv'
<1>1. PICK code : code = Code(k, up)
  OBVIOUS
<1>2. /\ code \in Codes /\ code.key = k /\ code.break = up
      /\ code.key = "enter" => code.line = typed
  BY <1>1 DEF Code, Codes, LineInv, Inv, TypeInv
<1>3. \A s \in Editors : User(s) => User(After(s, code))'
  BY <1>2, UserFollows DEF LineInv
<1>4. TraceInv'
  BY <1>1, <1>2, <1>3, SendTrace DEF LineInv
<1> QED
  BY <1>4 DEF LineInv, LightInv

LEMMA ReadKeepsTrace ==
    ASSUME LineInv, NEW code,
           \/ BreakCode(code) \/ MetaKey(code) \/ LockKey(code)
           \/ FunctionKey(code) \/ TextKey(code) \/ Ignored(code)
    PROVE  LightInv' /\ TraceInv'
<1>1. Reads(code)
  BY DEF BreakCode, MetaKey, LockKey, FunctionKey, TextKey, Ignored
<1>2. code \in Codes
  <2>1. wire \in Seq(Codes) /\ wire # <<>> /\ code = Head(wire)
    BY <1>1 DEF Reads, LineInv, Inv, TypeInv
  <2> QED
    BY <2>1
<1>3. LightInv'
  <2>1. CASE LockKey(code)
    BY <2>1 DEF LockKey, LightInv
  <2>2. CASE ~LockKey(code)
    BY <2>2, MetaOfShift DEF BreakCode, MetaKey, FunctionKey, TextKey, Ignored,
                             LineInv, LightInv
  <2> QED
    BY <2>1, <2>2
<1>4. PICK tr : Trace(tr) /\ Driver(tr[1]) /\ User(tr[Len(wire) + 1])
  BY DEF LineInv, TraceInv
<1>5. \A s \in Editors :
         Driver(s) /\ Len(s.line) <= MaxLine /\ Len(After(s, code).line) <= MaxLine
           => Driver(After(s, code))'
  BY <1>2, KbdIrqFollows DEF LineInv
<1> QED
  BY <1>1, <1>3, <1>5, ReadTrace DEF LineInv

LEMMA NextLineInv == LineInv /\ [Next]_vars => LineInv'
<1> SUFFICES ASSUME LineInv, [Next]_vars PROVE LineInv'
  OBVIOUS
<1>1. Inv'
  BY NextInv DEF LineInv
<1>2. ASSUME NEW k \in Keys, Press(k) PROVE LightInv' /\ TraceInv'
  <2>1. /\ wire' = Append(wire, Code(k, FALSE)) /\ held' = held \cup {k}
        /\ typed' = Edited(typed, k)
        /\ k \in {"a", "s", "1"} => Len(typed) < MaxLine
        /\ lockOn' = IF k \notin LockKeys THEN lockOn
                     ELSE IF k \in lockOn THEN lockOn \ {k} ELSE lockOn \cup {k}
        /\ UNCHANGED <<leds, kbd_status, commandBuffer, cmdBufPos, echoed, tabbed>>
    BY <1>2 DEF Press, Make
  <2> QED
    BY <2>1, SendKeepsTrace
<1>3. ASSUME NEW k \in Keys, Repeat(k) PROVE LightInv' /\ TraceInv'
  <2>1. /\ wire' = Append(wire, Code(k, FALSE)) /\ held' = held \cup {k}
        /\ typed' = Edited(typed, k)
        /\ k \in {"a", "s", "1"} => Len(typed) < MaxLine
        /\ lockOn' = IF k \notin LockKeys THEN lockOn
                     ELSE IF k \in lockOn THEN lockOn \ {k} ELSE lockOn \cup {k}
        /\ UNCHANGED <<leds, kbd_status, commandBuffer, cmdBufPos, echoed, tabbed>>
    BY <1>3 DEF Repeat, Make
  <2> QED
    BY <2>1, SendKeepsTrace
<1>4. ASSUME NEW k \in Keys, Release(k) PROVE LightInv' /\ TraceInv'
  <2>1. /\ wire' = Append(wire, Code(k, TRUE)) /\ held' = held \ {k}
        /\ UNCHANGED <<lockOn, typed, leds, kbd_status, commandBuffer, cmdBufPos, echoed,
                       tabbed>>
    BY <1>4 DEF Release
  <2> QED
    BY <2>1, SendKeepsTrace
<1>5. CASE KbdIrq
  <2>1. PICK code : \/ BreakCode(code) \/ MetaKey(code) \/ LockKey(code)
                    \/ FunctionKey(code) \/ TextKey(code) \/ Ignored(code)
    BY <1>5 DEF KbdIrq
  <2> QED
    BY <1>1, <2>1, ReadKeepsTrace DEF LineInv
<1>6. CASE UNCHANGED vars
  <2>1. PICK tr : Trace(tr) /\ Driver(tr[1]) /\ User(tr[Len(wire) + 1])
    BY DEF LineInv, TraceInv
  <2>2. UNCHANGED <<held, wire, lockOn, typed, leds, kbd_status, commandBuffer, cmdBufPos,
                    echoed, tabbed>>
    BY <1>6 DEF vars, user
  <2>3. Trace(tr)'
    BY <2>1, <2>2 DEF Trace, Follows
  <2>4. Driver(tr[1])' /\ User(tr[Len(wire) + 1])'
    BY <2>1, <2>2 DEF Driver, Holds, User
  <2>5. LightInv'
    BY <2>2 DEF LineInv, LightInv
  <2> QED
    BY <1>1, <2>3, <2>4, <2>5 DEF TraceInv, LineInv
<1> QED
  BY <1>1, <1>2, <1>3, <1>4, <1>5, <1>6 DEF Next, LineInv

LEMMA InitLineInv == Init => LineInv
<1> SUFFICES ASSUME Init PROVE LineInv
  OBVIOUS
<1>1. Inv /\ LightInv
  BY DEF Init, Inv, TypeInv, EndInv, LightInv
<1>2. PICK s : s = [status |-> {}, line |-> <<>>]
  OBVIOUS
<1>3. s \in Editors /\ s.line = <<>> /\ Len(s.line) = 0 /\ s.status = {}
  BY <1>2 DEF Editors
<1>4. PICK tr : tr = <<s>>
  OBVIOUS
<1>5. tr \in Seq(Editors) /\ Len(tr) = 1 /\ tr[1] = s /\ Len(wire) = 0
  BY <1>3, <1>4 DEF Init
<1>6. Trace(tr)
  BY <1>3, <1>5, KeyboardAssumption DEF Trace
<1>7. Driver(s)
  <2>1. \A m \in 0 .. (CMD_BUF_SIZE - 1) : ~(m < Len(s.line))
    BY <1>3
  <2> QED
    BY <1>3, <2>1 DEF Driver, Holds, Init
<1>8. User(s)
  BY <1>3 DEF User, Init
<1> QED
  BY <1>1, <1>5, <1>6, <1>7, <1>8 DEF LineInv, TraceInv

(***************************************************************************)
(* The lights show the locks process_kbd works with, and with every code   *)
(* read those are the locks the user has switched on, however many keys    *)
(* were pressed, repeated and released meanwhile (keyboard.c:176-200).     *)
(***************************************************************************)
THEOREM LightsAreLocksTheorem == Spec => []LightsAreLocks
<1>1. LineInv => LightsAreLocks
  <2> SUFFICES ASSUME LineInv PROVE LightsAreLocks
    OBVIOUS
  <2>1. leds = kbd_status \cap LockKeys
    BY DEF LineInv, LightInv
  <2>2. ASSUME AllRead PROVE kbd_status \cap LockKeys = lockOn
    <3>1. Len(wire) + 1 = 1
      BY <2>2 DEF AllRead
    <3>2. PICK tr : Driver(tr[1]) /\ User(tr[1])
      BY <3>1 DEF LineInv, TraceInv
    <3> QED
      BY <3>2 DEF Driver, User
  <2> QED
    BY <2>1, <2>2 DEF LightsAreLocks
<1> QED
  BY <1>1, InitLineInv, NextLineInv, PTL DEF Spec

(***************************************************************************)
(* What processCommand would read, and what the user typed when ENTER is   *)
(* the next code.                                                          *)
(***************************************************************************)
LEMMA LineIsRead ==
    ASSUME LineInv, MaxLine <= CMD_BUF_SIZE
    PROVE  /\ tabbed \/ echoed = CommandString
           /\ OneShift /\ wire # <<>> /\ Head(wire).key = "enter" /\ ~Head(wire).break
                => CommandString = Head(wire).line
<1>1. PICK tr : Trace(tr) /\ Driver(tr[1])
  BY DEF LineInv, TraceInv
<1>2. wire \in Seq(Codes) /\ Len(wire) \in Nat
  BY DEF LineInv, Inv, TypeInv
<1>3. tr \in Seq(Editors) /\ 1 \in 1 .. Len(tr)
  BY <1>1, <1>2 DEF Trace
<1>4. PICK s \in Editors : s = tr[1]
  BY <1>3
<1>5. s.line \in Seq(Glyphs) /\ Len(s.line) <= CMD_BUF_SIZE
  <2>1. Len(s.line) <= MaxLine /\ s.line \in Seq(Glyphs)
    BY <1>1, <1>3, <1>4 DEF Trace, Editors
  <2> QED
    BY <2>1, KeyboardAssumption
<1>6. Holds(s.line) /\ (tabbed \/ echoed = s.line)
  BY <1>1, <1>4 DEF Driver
<1>7. CommandString = s.line
  BY <1>5, <1>6, CommandIsLine
<1>8. ASSUME OneShift, wire # <<>>, Head(wire).key = "enter", ~Head(wire).break
      PROVE  s.line = Head(wire).line
  <2>1. 1 \in 1 .. Len(wire) /\ Head(wire) = wire[1]
    BY <1>2, <1>8
  <2>2. Follows(tr[1], wire[1], tr[1 + 1])
    BY <1>1, <2>1 DEF Trace
  <2> QED
    BY <1>4, <1>8, <2>1, <2>2 DEF Follows
<1> QED
  BY <1>6, <1>7, <1>8

(***************************************************************************)
(* The screen shows the command ENTER will execute, on every line without  *)
(* a tab and of no more characters than the buffer holds.                  *)
(***************************************************************************)
THEOREM EchoIsCommandTheorem ==
    ASSUME MaxLine <= CMD_BUF_SIZE
    PROVE  Spec => []EchoIsCommand
<1>1. LineInv => EchoIsCommand
  BY LineIsRead DEF EchoIsCommand
<1> QED
  BY <1>1, InitLineInv, NextLineInv, PTL DEF Spec

(***************************************************************************)
(* ENTER executes the line that was typed before it, shift and caps lock   *)
(* as they were when each character was typed, however far the interrupts  *)
(* lag behind, when one of the shift keys is used and a line is no longer  *)
(* than the buffer.                                                        *)
(***************************************************************************)
THEOREM EnterExecutesLineTheorem ==
    ASSUME MaxLine <= CMD_BUF_SIZE, OneShift
    PROVE  Spec => EnterExecutesLine
<1>1. LineInv => \A code \in {wire[n] : n \in 1 .. Len(wire)} :
                    Reads(code) /\ code.key = "enter" /\ ~code.break
                      => CommandString = code.line
  BY LineIsRead DEF Reads
<1>2. LineInv /\ [Next]_vars
        => [\A code \in {wire[n] : n \in 1 .. Len(wire)} :
              Reads(code) /\ code.key = "enter" /\ ~code.break
                => CommandString = code.line]_vars
  BY <1>1
<1> QED
  BY <1>2, InitLineInv, NextLineInv, PTL DEF Spec, EnterExecutesLine
=============================================================================
