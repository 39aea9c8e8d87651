--------------------------- MODULE ConsoleProofs ---------------------------
(***************************************************************************)
(* Proofs about Console, and about the paper it shows, for calls one at a  *)
(* time: any number and size of consoles, any tab stop that divides the    *)
(* width, any characters.                                                  *)
(***************************************************************************)
EXTENDS ConsolePaper, TLAPS

VCRec == [esc : 0 .. 4, arg : [1 .. 3 -> Nat], attrib : Int, csr_x : Nat, csr_y : Nat]
Calls == [at : Labels, con : VCs, chr : Nat, att : Int, eot : Int, temp : Int]

TypeInv ==
    /\ vc \in [VCs -> VCRec]
    /\ curr \in VCs
    /\ call \in [Context -> Calls]

OnScreen(r) == r.csr_x < WIDTH /\ r.csr_y < HEIGHT

(***************************************************************************)
(* Where the cursor of console r can be while c is at work on it.          *)
(***************************************************************************)
Fits(c, r) ==
    CASE c.at = "tab"     -> r.csr_y < HEIGHT /\ r.csr_x <= c.eot /\ c.eot <= WIDTH
      [] c.at = "wrap"    -> \/ r.csr_y < HEIGHT /\ r.csr_x <= WIDTH
                             \/ r.csr_y = HEIGHT /\ r.csr_x = 0
      [] c.at = "scroll"  -> r.csr_x < WIDTH /\ r.csr_y <= HEIGHT
      [] c.at = "copy"    -> r.csr_x < WIDTH /\ c.temp = 1
      [] c.at = "set_row" -> r.csr_x < WIDTH
      [] OTHER            -> OnScreen(r)

OneCall ==
    \A j, k \in Context : call[j].at # "idle" /\ call[k].at # "idle" => j = k

CallsFit ==
    \A k \in Context : call[k].at # "idle" => Fits(call[k], vc[call[k].con])

Inv == TypeInv /\ OneCall /\ CallsFit /\ CursorOnScreen

-----------------------------------------------------------------------------
(* Arithmetic. *)

LEMMA DivMod ==
    ASSUME NEW a \in Nat, NEW b \in Nat \ {0}
    PROVE  a \div b \in Nat /\ a % b \in 0 .. (b - 1) /\ a = b * (a \div b) + (a % b)
  BY SMT

LEMMA TimesMonotonic ==
    ASSUME NEW a \in Nat, NEW b \in Nat, NEW c \in Nat, a <= b
    PROVE  a * c <= b * c
  BY SMT

LEMMA TimesNat == ASSUME NEW a \in Nat, NEW b \in Nat PROVE a * b \in Nat
  BY SMT

(***************************************************************************)
(* A cursor on the screen is on one of its cells.                          *)
(***************************************************************************)
LEMMA CellOnScreen ==
    ASSUME NEW x \in 0 .. (WIDTH - 1), NEW y \in 0 .. (HEIGHT - 1)
    PROVE  y * WIDTH + x \in 0 .. (SCREEN - 1)
<1>1. WIDTH \in Nat /\ HEIGHT \in Nat
  BY ConsoleAssumption
<1>2. (y + 1) * WIDTH <= HEIGHT * WIDTH
  BY <1>1, TimesMonotonic
<1>3. /\ y * WIDTH \in Nat /\ (y + 1) * WIDTH = y * WIDTH + WIDTH
      /\ HEIGHT * WIDTH = WIDTH * HEIGHT /\ WIDTH * HEIGHT \in Nat
  BY <1>1, TimesNat
<1> QED
  BY <1>1, <1>2, <1>3 DEF SCREEN

(***************************************************************************)
(* The next tab stop is to the right of the cursor and not off the screen. *)
(***************************************************************************)
LEMMA TabStop ==
    ASSUME NEW x \in 0 .. (WIDTH - 1)
    PROVE  TABSTOP * (x \div TABSTOP + 1) \in (x + 1) .. WIDTH
<1> DEFINE q == x \div TABSTOP
           w == WIDTH \div TABSTOP
<1>1. TABSTOP \in Nat \ {0} /\ WIDTH \in Nat /\ WIDTH % TABSTOP = 0 /\ x \in Nat
  BY ConsoleAssumption
<1>2. /\ q \in Nat /\ w \in Nat /\ WIDTH = TABSTOP * w
      /\ x % TABSTOP \in 0 .. (TABSTOP - 1) /\ x = TABSTOP * q + (x % TABSTOP)
  BY <1>1, DivMod
<1> HIDE DEF q, w
<1>3. q + 1 <= w
  <2> SUFFICES ASSUME w <= q PROVE FALSE
    BY <1>2
  <2>1. w * TABSTOP <= q * TABSTOP
    BY <1>1, <1>2, TimesMonotonic
  <2>2. /\ w * TABSTOP = TABSTOP * w /\ q * TABSTOP = TABSTOP * q
        /\ TABSTOP * q \in Nat /\ TABSTOP * w \in Nat
    BY <1>1, <1>2, TimesNat
  <2> QED
    BY <1>1, <1>2, <2>1, <2>2
<1>4. (q + 1) * TABSTOP <= w * TABSTOP
  BY <1>1, <1>2, <1>3, TimesMonotonic
<1>5. /\ (q + 1) * TABSTOP = TABSTOP * (q + 1) /\ w * TABSTOP = TABSTOP * w
      /\ TABSTOP * (q + 1) = TABSTOP * q + TABSTOP /\ TABSTOP * q \in Nat
  BY <1>1, <1>2, TimesNat
<1>6. TABSTOP * (q + 1) \in (x + 1) .. WIDTH
  BY <1>1, <1>2, <1>4, <1>5
<1> QED
  BY <1>6 DEF q

LEMMA CursorIsInt == ASSUME TypeInv, NEW v \in VCs PROVE Cursor(v) \in Int
<1>1. /\ WIDTH \in Int /\ HEIGHT \in Int /\ v \in Int
      /\ vc[v].csr_x \in Int /\ vc[v].csr_y \in Int
  <2>1. PICK r \in VCRec : r = vc[v]
    BY DEF TypeInv
  <2>2. r.csr_x \in Int /\ r.csr_y \in Int
    BY DEF VCRec
  <2>3. WIDTH \in Int /\ HEIGHT \in Int /\ v \in Int
    BY ConsoleAssumption DEF VCs
  <2> QED
    BY <2>1, <2>2, <2>3
<1> QED
  BY <1>1 DEF Cursor, fb_adr, SCREEN

-----------------------------------------------------------------------------
(* Escape sequences leave a console whose cursor is where it may be. *)

LEMMA SetAttribIsInt ==
    ASSUME NEW a \in Int, NEW n \in Nat PROVE SetAttrib(a, n) \in Int
<1>1. \A i \in 1 .. 8 : ansi_to_vga[i] \in Int
  BY DEF ansi_to_vga
<1>2. CASE n \in 30 .. 37
  BY <1>1, <1>2 DEF SetAttrib
<1>3. CASE n \in 40 .. 47
  BY <1>1, <1>3 DEF SetAttrib
<1>4. CASE n \notin 30 .. 37 /\ n \notin 40 .. 47
  BY <1>4 DEF SetAttrib
<1> QED
  BY <1>2, <1>3, <1>4

LEMMA ParsedFits ==
    ASSUME NEW r \in VCRec, OnScreen(r), NEW c \in Nat, InEscape(r, c)
    PROVE  Parsed(r, c) \in VCRec /\ OnScreen(Parsed(r, c))
<1> DEFINE n == r.esc - 1
           done == [r EXCEPT !.esc = 0]
<1> USE DEF isdigit, SEMICOLON, CSI_H, CSI_J, CSI_M
<1>1. /\ r.esc \in 1 .. 4 /\ n \in 0 .. 3 /\ r.arg \in [1 .. 3 -> Nat]
      /\ WIDTH \in Nat \ {0} /\ HEIGHT \in Nat \ {0}
  BY ConsoleAssumption DEF VCRec, InEscape
<1>2. done \in VCRec /\ OnScreen(done)
  BY DEF VCRec, OnScreen
<1>3. CASE n = 0
  <2>1. Parsed(r, c) = [r EXCEPT !.esc = 2, !.arg[1] = 0]
    BY <1>1, <1>3 DEF Parsed
  <2>2. [r.arg EXCEPT ![1] = 0] \in [1 .. 3 -> Nat]
    BY <1>1
  <2>3. Parsed(r, c) \in VCRec
    <3>1. PICK e \in 0 .. 4 : e = 2
      OBVIOUS
    <3>2. PICK a \in [1 .. 3 -> Nat] : a = [r.arg EXCEPT ![1] = 0]
      BY <2>2
    <3>3. Parsed(r, c) = [r EXCEPT !.esc = e, !.arg = a]
      BY <2>1, <3>1, <3>2
    <3> QED
      BY <3>3 DEF VCRec
  <2>4. OnScreen(Parsed(r, c))
    BY <2>1 DEF VCRec, OnScreen
  <2> QED
    BY <2>3, <2>4
<1>4. CASE n > 0 /\ isdigit(c)
  <2>1. Parsed(r, c) = [r EXCEPT !.arg[n] = 10 * @ + c - 48]
    BY <1>1, <1>4 DEF Parsed
  <2>2. 10 * r.arg[n] + c - 48 \in Nat
    BY <1>1, <1>4
  <2> QED
    BY <1>1, <2>1, <2>2 DEF VCRec, OnScreen
<1>5. CASE n \in {1, 2} /\ c = SEMICOLON
  <2>1. Parsed(r, c) = [r EXCEPT !.esc = @ + 1, !.arg[n + 1] = 0]
    BY <1>1, <1>5 DEF Parsed
  <2>2. [r.arg EXCEPT ![n + 1] = 0] \in [1 .. 3 -> Nat] /\ r.esc + 1 \in 0 .. 4
    BY <1>1, <1>5
  <2> QED
    BY <1>1, <2>1, <2>2 DEF VCRec, OnScreen
<1>6. CASE n = 1 /\ c = CSI_J /\ r.arg[1] = 2
  <2>1. Parsed(r, c) = [done EXCEPT !.csr_x = 0, !.csr_y = 0]
    BY <1>1, <1>6 DEF Parsed
  <2> HIDE DEF done
  <2>2. Parsed(r, c) \in VCRec
    <3>1. PICK x \in Nat, y \in Nat : x = 0 /\ y = 0
      OBVIOUS
    <3>2. Parsed(r, c) = [done EXCEPT !.csr_x = x, !.csr_y = y]
      BY <2>1, <3>1
    <3> QED
      BY <1>2, <3>2 DEF VCRec
  <2>3. Parsed(r, c).csr_x = 0 /\ Parsed(r, c).csr_y = 0
    BY <1>2, <2>1 DEF VCRec
  <2> QED
    BY <1>1, <2>2, <2>3 DEF OnScreen
<1>7. CASE n = 2 /\ c = CSI_H
  <2>1. Parsed(r, c) = Moved(done)
    BY <1>1, <1>7 DEF Parsed
  <2>2. done.arg[1] \in Nat /\ done.arg[2] \in Nat
    BY <1>1
  <2> HIDE DEF done
  <2> QED
    BY <1>2, <2>1, <2>2 DEF Moved, VCRec, OnScreen
<1>8. CASE n > 0 /\ c = CSI_M
  <2> DEFINE one == SetAttrib(r.attrib, r.arg[1])
             two == SetAttrib(one, r.arg[2])
             a == CASE n = 1 -> one [] n = 2 -> two [] OTHER -> SetAttrib(two, r.arg[3])
  <2>1. Parsed(r, c) = [done EXCEPT !.attrib = a]
    BY <1>1, <1>8 DEF Parsed
  <2>2. /\ r.attrib \in Int /\ r.arg[1] \in Nat /\ r.arg[2] \in Nat /\ r.arg[3] \in Nat
    BY <1>1 DEF VCRec
  <2>3. one \in Int /\ two \in Int /\ SetAttrib(two, r.arg[3]) \in Int
    BY <2>2, SetAttribIsInt
  <2>4. a \in Int
    BY <2>3
  <2> HIDE DEF a, done
  <2> QED
    BY <1>2, <2>1, <2>4 DEF VCRec, OnScreen
<1>9. Parsed(r, c) = done \/ n = 0 \/ (n > 0 /\ isdigit(c))
        \/ (n \in {1, 2} /\ c = SEMICOLON) \/ (n = 1 /\ c = CSI_J /\ r.arg[1] = 2)
        \/ (n = 2 /\ c = CSI_H) \/ (n > 0 /\ c = CSI_M)
  BY DEF Parsed
<1> QED
  BY <1>2, <1>3, <1>4, <1>5, <1>6, <1>7, <1>8, <1>9

-----------------------------------------------------------------------------
(***************************************************************************)
(* A step of context k at console v, while every other context is idle.    *)
(***************************************************************************)
LEMMA StepKeeps ==
    ASSUME Inv, NEW k \in Context, NEW v \in VCs,
           \A j \in Context \ {k} : call[j].at = "idle" /\ call'[j] = call[j],
           call[k].at = "idle" \/ call[k].con = v,
           vc' \in [VCs -> VCRec],
           \A u \in VCs \ {v} : vc'[u] = vc[u],
           call' \in [Context -> Calls],
           curr' \in VCs,
           \/ call'[k].at = "idle" /\ OnScreen(vc'[v])
           \/ call'[k].con = v /\ Fits(call'[k], vc'[v])
    PROVE  Inv'
<1>1. TypeInv'
  BY DEF TypeInv
<1>2. OneCall'
  BY DEF OneCall
<1>3. CallsFit'
  <2> SUFFICES ASSUME NEW j \in Context, call'[j].at # "idle"
               PROVE  Fits(call'[j], vc'[call'[j].con])
    BY DEF CallsFit, Fits, OnScreen
  <2> QED
    OBVIOUS
<1>4. CursorOnScreen'
  <2> SUFFICES ASSUME NEW u \in VCs,
                      \A j \in Context : call'[j].at = "idle" \/ call'[j].con # u
               PROVE  OnScreen(vc'[u])
    BY DEF CursorOnScreen, OnScreen
  <2>1. CASE u = v
    <3>1. call'[k].at = "idle"
          \/ (call'[k].con = v /\ call'[k].at # "idle")
      OBVIOUS
    <3>2. CASE call'[k].at = "idle" /\ call'[k].con = v /\ Fits(call'[k], vc'[v])
      BY <2>1, <3>2 DEF Fits
    <3> QED
      BY <2>1, <3>1, <3>2
  <2>2. CASE u # v
    <3>1. \A j \in Context : call[j].at = "idle" \/ call[j].con # u
      BY <2>2
    <3> QED
      BY <2>2, <3>1 DEF Inv, CursorOnScreen, OnScreen
  <2> QED
    BY <2>1, <2>2
<1> QED
  BY <1>1, <1>2, <1>3, <1>4 DEF Inv

(***************************************************************************)
(* A step of putch_help, on the console it was called for.                 *)
(***************************************************************************)
LEMMA BusyStep ==
    ASSUME Inv, NEW k \in Context, NEW r \in VCRec, NEW c \in Calls,
           call[k].at # "idle",
           vc' = [vc EXCEPT ![call[k].con] = r],
           call' = [call EXCEPT ![k] = c],
           curr' = curr,
           \/ c.at = "idle" /\ OnScreen(r)
           \/ c.con = call[k].con /\ Fits(c, r)
    PROVE  Inv'
<1>1. call[k].con \in VCs /\ call \in [Context -> Calls] /\ vc \in [VCs -> VCRec]
      /\ curr \in VCs
  BY DEF Inv, TypeInv, Calls
<1>2. \A j \in Context \ {k} : call[j].at = "idle" /\ call'[j] = call[j]
  BY <1>1 DEF Inv, OneCall
<1>3. call'[k] = c /\ vc'[call[k].con] = r
  BY <1>1
<1>4. call' \in [Context -> Calls] /\ vc' \in [VCs -> VCRec]
      /\ \A u \in VCs \ {call[k].con} : vc'[u] = vc[u]
  BY <1>1
<1> HIDE DEF Inv
<1> QED
  BY <1>1, <1>2, <1>3, <1>4, StepKeeps

(***************************************************************************)
(* The same when the console is not touched.                               *)
(***************************************************************************)
LEMMA QuietStep ==
    ASSUME Inv, NEW k \in Context, NEW c \in Calls,
           call[k].at # "idle",
           vc' = vc, call' = [call EXCEPT ![k] = c], curr' = curr,
           \/ c.at = "idle" /\ OnScreen(vc[call[k].con])
           \/ c.con = call[k].con /\ Fits(c, vc[call[k].con])
    PROVE  Inv'
<1>1. call[k].con \in VCs /\ vc \in [VCs -> VCRec]
  BY DEF Inv, TypeInv, Calls
<1>2. vc' = [vc EXCEPT ![call[k].con] = vc[call[k].con]] /\ vc[call[k].con] \in VCRec
  BY <1>1
<1> QED
  BY <1>2, BusyStep

-----------------------------------------------------------------------------
(* The actions, one after another. *)

LEMMA Facts ==
    ASSUME Inv, NEW k \in Context, call[k].at # "idle"
    PROVE  /\ call[k] \in Calls /\ call[k].con \in VCs /\ Here(k) \in VCRec
           /\ Fits(call[k], Here(k))
           /\ Idle \in Calls
           /\ \A label \in Labels : [call[k] EXCEPT !.at = label] \in Calls
           /\ WIDTH \in Nat \ {0} /\ HEIGHT \in Nat \ {0}
<1>1. call[k] \in Calls /\ call[k].con \in VCs /\ Here(k) \in VCRec
  BY DEF Inv, TypeInv, Here, Calls
<1>2. Idle \in Calls
  BY ConsoleAssumption DEF Idle, Calls, Labels, VCs
<1>3. \A label \in Labels : [call[k] EXCEPT !.at = label] \in Calls
  BY <1>1 DEF Calls
<1> QED
  BY <1>1, <1>2, <1>3, ConsoleAssumption DEF Inv, CallsFit, Here

(***************************************************************************)
(* A console with another cursor.                                          *)
(***************************************************************************)
LEMMA Rebuilt ==
    ASSUME NEW r \in VCRec, NEW x \in Nat, NEW y \in Nat
    PROVE  /\ [r EXCEPT !.esc = 0, !.csr_x = x, !.csr_y = y] \in VCRec
           /\ [r EXCEPT !.esc = 0, !.csr_x = x] \in VCRec
           /\ [r EXCEPT !.csr_x = x, !.csr_y = y] \in VCRec
<1>1. PICK e \in 0 .. 4 : e = 0
  OBVIOUS
<1>2. /\ [r EXCEPT !.esc = e, !.csr_x = x, !.csr_y = y] \in VCRec
      /\ [r EXCEPT !.esc = e, !.csr_x = x] \in VCRec
      /\ [r EXCEPT !.csr_x = x, !.csr_y = y] \in VCRec
  BY DEF VCRec
<1> QED
  BY <1>1, <1>2

(***************************************************************************)
(* A call that goes on to label with its console as r, which fits there.   *)
(***************************************************************************)
LEMMA GoesOn ==
    ASSUME Inv, NEW k \in Context, NEW label \in Labels \ {"idle"}, NEW r \in VCRec,
           call[k].at # "idle",
           vc' = [vc EXCEPT ![call[k].con] = r],
           Goto(k, label), curr' = curr,
           Fits([call[k] EXCEPT !.at = label], r)
    PROVE  Inv'
<1>1. [call[k] EXCEPT !.at = label] \in Calls
      /\ [call[k] EXCEPT !.at = label].con = call[k].con
  BY Facts DEF Calls
<1>2. call' = [call EXCEPT ![k] = [call[k] EXCEPT !.at = label]]
  BY DEF Goto
<1> QED
  BY <1>1, <1>2, BusyStep

LEMMA Stays ==
    ASSUME Inv, NEW k \in Context, NEW label \in Labels \ {"idle"},
           call[k].at # "idle",
           vc' = vc, Goto(k, label), curr' = curr,
           Fits([call[k] EXCEPT !.at = label], Here(k))
    PROVE  Inv'
<1>1. vc' = [vc EXCEPT ![call[k].con] = Here(k)]
  BY DEF Inv, TypeInv, Here
<1>2. Here(k) \in VCRec
  BY Facts
<1> QED
  BY <1>1, <1>2, GoesOn

LEMMA Returns ==
    ASSUME Inv, NEW k \in Context, NEW r \in VCRec, call[k].at # "idle",
           vc' = [vc EXCEPT ![call[k].con] = r], Return(k), curr' = curr, OnScreen(r)
    PROVE  Inv'
  BY Facts, BusyStep DEF Return, Idle

LEMMA CharacterSteps ==
    ASSUME Inv, NEW k \in Context,
           \/ EscapeChar(k) \/ EscStart(k) \/ Backspace(k) \/ Tab(k) \/ LineFeed(k)
           \/ CarriageReturn(k) \/ OtherControl(k) \/ PutGlyph(k)
    PROVE  Inv'
<1> DEFINE r == Here(k)
           con == call[k].con
<1>1. call[k].at = "enter"
  BY DEF EscapeChar, EscStart, Backspace, Tab, LineFeed, CarriageReturn, OtherControl,
         PutGlyph, Plain, At
<1>2. /\ call[k] \in Calls /\ con \in VCs /\ r \in VCRec /\ OnScreen(r) /\ call[k].chr \in Nat
      /\ WIDTH \in Nat \ {0} /\ HEIGHT \in Nat \ {0} /\ vc \in [VCs -> VCRec]
  BY <1>1, Facts DEF Fits, Calls, Inv, TypeInv
<1>3. CASE EscapeChar(k)
  <2>1. vc' = [vc EXCEPT ![con] = Parsed(r, call[k].chr)]
        /\ Return(k) /\ curr' = curr /\ InEscape(r, call[k].chr)
    BY <1>3 DEF EscapeChar, Here
  <2>2. Parsed(r, call[k].chr) \in VCRec /\ OnScreen(Parsed(r, call[k].chr))
    BY <1>2, <2>1, ParsedFits
  <2> QED
    BY <1>1, <2>1, <2>2, Returns
<1>4. CASE EscStart(k)
  <2> DEFINE q == [r EXCEPT !.esc = 1]
  <2>1. vc' = [vc EXCEPT ![con] = q] /\ Return(k) /\ curr' = curr
    BY <1>4 DEF EscStart, Here
  <2>2. q \in VCRec /\ OnScreen(q)
    BY <1>2 DEF VCRec, OnScreen
  <2> HIDE DEF q
  <2> QED
    BY <1>1, <2>1, <2>2, Returns
<1>5. CASE Backspace(k)
  <2>1. CASE r.csr_x # 0
    <3> DEFINE q == [r EXCEPT !.esc = 0, !.csr_x = @ - 1]
    <3>1. vc' = [vc EXCEPT ![con] = q] /\ Goto(k, "wrap") /\ curr' = curr
      BY <1>5, <2>1 DEF Backspace, Here
    <3>2. r.csr_x - 1 \in Nat
      BY <1>2, <2>1 DEF VCRec
    <3>3. q \in VCRec /\ q.csr_x = r.csr_x - 1 /\ q.csr_y = r.csr_y
      <4>1. PICK x \in Nat : x = r.csr_x - 1
        BY <3>2
      <4>2. q = [r EXCEPT !.esc = 0, !.csr_x = x]
        BY <4>1
      <4>3. q \in VCRec
        BY <1>2, <4>2, Rebuilt
      <4> QED
        BY <1>2, <4>3 DEF VCRec
    <3>4. Fits([call[k] EXCEPT !.at = "wrap"], q)
      BY <1>2, <3>3 DEF Fits, OnScreen, VCRec, Calls
    <3> HIDE DEF q
    <3> QED
      BY <1>1, <3>1, <3>3, <3>4, GoesOn DEF Labels
  <2>2. CASE r.csr_x = 0
    <3> DEFINE q == [r EXCEPT !.esc = 0]
    <3>1. vc' = [vc EXCEPT ![con] = q] /\ Goto(k, "wrap") /\ curr' = curr
      BY <1>5, <2>2 DEF Backspace, Here
    <3>2. q \in VCRec /\ q.csr_x = r.csr_x /\ q.csr_y = r.csr_y
      BY <1>2 DEF VCRec
    <3>3. Fits([call[k] EXCEPT !.at = "wrap"], q)
      BY <1>2, <3>2 DEF Fits, OnScreen, VCRec, Calls
    <3> HIDE DEF q
    <3> QED
      BY <1>1, <3>1, <3>2, <3>3, GoesOn DEF Labels
  <2> QED
    BY <2>1, <2>2
<1>6. CASE Tab(k)
  <2> DEFINE q == [r EXCEPT !.esc = 0]
             stop == TABSTOP * (r.csr_x \div TABSTOP + 1)
             c == [call[k] EXCEPT !.at = "tab", !.eot = stop]
  <2>1. vc' = [vc EXCEPT ![con] = q] /\ call' = [call EXCEPT ![k] = c] /\ curr' = curr
    BY <1>6 DEF Tab, Here
  <2>2. r.csr_x \in 0 .. (WIDTH - 1) /\ stop \in (r.csr_x + 1) .. WIDTH
    <3>1. r.csr_x \in 0 .. (WIDTH - 1)
      BY <1>2 DEF OnScreen, VCRec
    <3> QED
      BY <3>1, TabStop
  <2>3. q \in VCRec /\ q.csr_x = r.csr_x /\ q.csr_y = r.csr_y
    BY <1>2 DEF VCRec
  <2>4. stop \in Int
    BY <2>2, <1>2
  <2> HIDE DEF q, stop
  <2>5. c \in Calls /\ c.con = con /\ c.at = "tab" /\ c.eot = stop
    BY <1>2, <2>4 DEF Calls, Labels
  <2> HIDE DEF c
  <2>6. Fits(c, q)
    BY <1>2, <2>2, <2>3, <2>5 DEF Fits, OnScreen
  <2> QED
    BY <1>1, <2>1, <2>3, <2>5, <2>6, BusyStep
<1>7. CASE LineFeed(k)
  <2> DEFINE q == [r EXCEPT !.esc = 0, !.csr_x = 0, !.csr_y = @ + 1]
  <2>1. vc' = [vc EXCEPT ![con] = q] /\ Goto(k, "wrap") /\ curr' = curr
    BY <1>7 DEF LineFeed, Here
  <2>2. q \in VCRec /\ q.csr_x = 0 /\ q.csr_y = r.csr_y + 1
    <3>1. r.csr_y \in Nat
      BY <1>2 DEF VCRec
    <3>2. PICK x \in Nat, y \in Nat : x = 0 /\ y = r.csr_y + 1
      BY <3>1
    <3>3. q = [r EXCEPT !.esc = 0, !.csr_x = x, !.csr_y = y]
      BY <3>2
    <3>4. q \in VCRec
      BY <1>2, <3>3, Rebuilt
    <3> QED
      BY <1>2, <3>4 DEF VCRec
  <2> HIDE DEF q
  <2>3. r.csr_y \in Nat
    BY <1>2 DEF VCRec
  <2>4. Fits([call[k] EXCEPT !.at = "wrap"], q)
    BY <1>2, <2>2, <2>3 DEF Fits, OnScreen, Calls
  <2> QED
    BY <1>1, <2>1, <2>2, <2>4, GoesOn DEF Labels
<1>8. CASE CarriageReturn(k)
  <2> DEFINE q == [r EXCEPT !.esc = 0, !.csr_x = 0]
  <2>1. vc' = [vc EXCEPT ![con] = q] /\ Goto(k, "wrap") /\ curr' = curr
    BY <1>8 DEF CarriageReturn, Here
  <2>2. q \in VCRec /\ q.csr_x = 0 /\ q.csr_y = r.csr_y
    <3>1. r.csr_y \in Nat
      BY <1>2 DEF VCRec
    <3>2. PICK x \in Nat : x = 0
      OBVIOUS
    <3>3. q = [r EXCEPT !.esc = 0, !.csr_x = x]
      BY <3>2
    <3>4. q \in VCRec
      BY <1>2, <3>1, <3>3, Rebuilt
    <3> QED
      BY <1>2, <3>4 DEF VCRec
  <2> HIDE DEF q
  <2>3. Fits([call[k] EXCEPT !.at = "wrap"], q)
    BY <1>2, <2>2 DEF Fits, OnScreen, Calls
  <2> QED
    BY <1>1, <2>1, <2>2, <2>3, GoesOn DEF Labels
<1>9. CASE OtherControl(k) \/ PutGlyph(k)
  <2> DEFINE q == [r EXCEPT !.esc = 0]
  <2>1. /\ vc' = [vc EXCEPT ![con] = q] /\ curr' = curr
        /\ Goto(k, "advance") \/ Goto(k, "wrap")
    BY <1>9 DEF OtherControl, PutGlyph, Here
  <2>2. q \in VCRec /\ q.csr_x = r.csr_x /\ q.csr_y = r.csr_y
    BY <1>2 DEF VCRec
  <2> HIDE DEF q
  <2>3. r.csr_x \in Nat
    BY <1>2 DEF VCRec
  <2>4. /\ Fits([call[k] EXCEPT !.at = "wrap"], q)
        /\ Fits([call[k] EXCEPT !.at = "advance"], q)
    BY <1>2, <2>2, <2>3 DEF Fits, OnScreen, Calls
  <2> QED
    BY <1>1, <2>1, <2>2, <2>4, GoesOn DEF Labels
<1> QED
  BY <1>3, <1>4, <1>5, <1>6, <1>7, <1>8, <1>9

LEMMA RowSteps ==
    ASSUME Inv, NEW k \in Context,
           TabStep(k) \/ Advance(k) \/ Wrap(k) \/ Scroll(k) \/ Copy(k) \/ SetRow(k)
    PROVE  Inv'
<1> DEFINE r == Here(k)
           con == call[k].con
<1>1. call[k].at # "idle"
  BY DEF TabStep, Advance, Wrap, Scroll, Copy, SetRow, At
<1>2. /\ call[k] \in Calls /\ con \in VCs /\ r \in VCRec /\ Fits(call[k], r)
      /\ WIDTH \in Nat \ {0} /\ HEIGHT \in Nat \ {0} /\ vc \in [VCs -> VCRec]
      /\ r.csr_x \in Nat /\ r.csr_y \in Nat /\ call[k].eot \in Int
  BY <1>1, Facts DEF Calls, Inv, TypeInv, VCRec
<1>3. \A x \in Nat : /\ [r EXCEPT !.csr_x = x] \in VCRec
                     /\ [r EXCEPT !.csr_y = x] \in VCRec
                     /\ \A y \in Nat : [r EXCEPT !.csr_x = x, !.csr_y = y] \in VCRec
  BY <1>2 DEF VCRec
<1>4. CASE TabStep(k)
  <2>0. call[k].at = "tab"
    BY <1>4 DEF TabStep, At
  <2>1. r.csr_y < HEIGHT /\ r.csr_x <= call[k].eot /\ call[k].eot <= WIDTH
    BY <2>0, <1>2 DEF Fits
  <2>2. CASE r.csr_x # call[k].eot
    <3> DEFINE q == [r EXCEPT !.csr_x = @ + 1]
    <3>1. vc' = [vc EXCEPT ![con] = q] /\ call' = call /\ curr' = curr
      BY <1>4, <2>2 DEF TabStep, Here
    <3>2. q \in VCRec /\ q.csr_x = r.csr_x + 1 /\ q.csr_y = r.csr_y
      <4>1. PICK x \in Nat : x = r.csr_x + 1
        BY <1>2
      <4>2. q = [r EXCEPT !.csr_x = x]
        BY <4>1
      <4>3. q \in VCRec
        BY <1>3, <4>2
      <4> QED
        BY <1>2, <4>3 DEF VCRec
    <3>3. Fits(call[k], q)
      BY <1>2, <2>0, <2>1, <2>2, <3>2 DEF Fits
    <3>4. call' = [call EXCEPT ![k] = call[k]]
      BY <3>1 DEF Inv, TypeInv
    <3> HIDE DEF q
    <3> QED
      BY <1>1, <1>2, <3>1, <3>2, <3>3, <3>4, BusyStep
  <2>3. CASE r.csr_x = call[k].eot
    <3>1. vc' = vc /\ Goto(k, "wrap") /\ curr' = curr
      BY <1>4, <2>3 DEF TabStep, Here
    <3>2. Fits([call[k] EXCEPT !.at = "wrap"], r)
      BY <1>2, <2>1 DEF Fits, Calls
    <3> QED
      BY <1>1, <1>2, <3>1, <3>2, Stays DEF Labels
  <2> QED
    BY <2>2, <2>3
<1>5. CASE Advance(k)
  <2> DEFINE q == [r EXCEPT !.csr_x = @ + 1]
  <2>1. vc' = [vc EXCEPT ![con] = q] /\ Goto(k, "wrap") /\ curr' = curr
    BY <1>5 DEF Advance, Here
  <2>2. q \in VCRec /\ q.csr_x = r.csr_x + 1 /\ q.csr_y = r.csr_y
    <3>1. PICK x \in Nat : x = r.csr_x + 1
      BY <1>2
    <3>2. q = [r EXCEPT !.csr_x = x]
      BY <3>1
    <3>3. q \in VCRec
      BY <1>3, <3>2
    <3> QED
      BY <1>2, <3>3 DEF VCRec
  <2>3. OnScreen(r)
    BY <1>2, <1>5 DEF Advance, At, Fits
  <2>4. Fits([call[k] EXCEPT !.at = "wrap"], q)
    BY <1>2, <2>2, <2>3 DEF Fits, OnScreen, Calls
  <2> HIDE DEF q
  <2> QED
    BY <1>1, <2>1, <2>2, <2>4, GoesOn DEF Labels
<1>6. CASE Wrap(k)
  <2>1. Goto(k, "scroll") /\ curr' = curr /\ call[k].at = "wrap"
    BY <1>6 DEF Wrap, At
  <2>2. \/ r.csr_y < HEIGHT /\ r.csr_x <= WIDTH
        \/ r.csr_y = HEIGHT /\ r.csr_x = 0
    BY <1>2, <2>1 DEF Fits
  <2>3. CASE r.csr_x >= WIDTH
    <3> DEFINE q == [r EXCEPT !.csr_x = 0, !.csr_y = @ + 1]
    <3>1. vc' = [vc EXCEPT ![con] = q]
      BY <1>6, <2>3 DEF Wrap, Here
    <3>2. q \in VCRec /\ q.csr_x = 0 /\ q.csr_y = r.csr_y + 1
      <4>1. PICK x \in Nat, y \in Nat : x = 0 /\ y = r.csr_y + 1
        BY <1>2
      <4>2. q = [r EXCEPT !.csr_x = x, !.csr_y = y]
        BY <4>1
      <4>3. q \in VCRec
        BY <1>3, <4>2
      <4> QED
        BY <1>2, <4>3 DEF VCRec
    <3> HIDE DEF q
    <3>3. Fits([call[k] EXCEPT !.at = "scroll"], q)
      BY <1>2, <2>2, <2>3, <3>2 DEF Fits, Calls
    <3> QED
      BY <1>1, <2>1, <3>1, <3>2, <3>3, GoesOn DEF Labels
  <2>4. CASE r.csr_x < WIDTH
    <3>1. vc' = vc
      BY <1>2, <1>6, <2>4 DEF Wrap, Here
    <3>2. Fits([call[k] EXCEPT !.at = "scroll"], r)
      BY <1>2, <2>2, <2>4 DEF Fits, Calls
    <3> QED
      BY <1>1, <2>1, <3>1, <3>2, Stays DEF Labels
  <2> QED
    BY <1>2, <2>3, <2>4
<1>7. CASE Scroll(k)
  <2>1. vc' = vc /\ curr' = curr /\ call[k].at = "scroll"
    BY <1>7 DEF Scroll, At
  <2>2. r.csr_x < WIDTH /\ r.csr_y <= HEIGHT
    BY <1>2, <2>1 DEF Fits
  <2>3. CASE r.csr_y >= HEIGHT
    <3> DEFINE c == [call[k] EXCEPT !.at = "copy", !.temp = r.csr_y - HEIGHT + 1]
    <3>1. call' = [call EXCEPT ![k] = c]
      BY <1>7, <2>3 DEF Scroll, Here
    <3>2. c \in Calls /\ c.at = "copy" /\ c.con = con /\ c.temp = 1
      <4>1. PICK t \in Int : t = 1
        OBVIOUS
      <4>2. c = [call[k] EXCEPT !.at = "copy", !.temp = t]
        <5>1. r.csr_y - HEIGHT + 1 = t
          BY <1>2, <2>2, <2>3, <4>1
        <5> QED
          BY <5>1, Zenon
      <4>3. [call[k] EXCEPT !.at = "copy", !.temp = t] \in Calls
        <5>1. PICK label \in Labels : label = "copy"
          BY DEF Labels
        <5>2. [call[k] EXCEPT !.at = label, !.temp = t] \in Calls
          BY <1>2 DEF Calls
        <5> QED
          BY <5>1, <5>2
      <4> HIDE DEF c
      <4> QED
        BY <1>2, <4>1, <4>2, <4>3 DEF Calls
    <3> HIDE DEF c
    <3>3. Fits(c, r)
      BY <2>2, <3>2 DEF Fits
    <3> QED
      BY <1>1, <2>1, <3>1, <3>2, <3>3, QuietStep DEF Here
  <2>4. CASE r.csr_y < HEIGHT
    <3>1. Goto(k, "move_csr")
      BY <1>2, <1>7, <2>4 DEF Scroll, Here
    <3>2. Fits([call[k] EXCEPT !.at = "move_csr"], r)
      BY <1>2, <2>2, <2>4 DEF Fits, OnScreen, Calls
    <3> QED
      BY <1>1, <2>1, <3>1, <3>2, Stays DEF Labels
  <2> QED
    BY <1>2, <2>3, <2>4
<1>8. CASE Copy(k)
  <2>1. vc' = vc /\ curr' = curr /\ call[k].at = "copy" /\ Goto(k, "set_row")
    BY <1>8 DEF Copy, At
  <2>2. Fits([call[k] EXCEPT !.at = "set_row"], r)
    BY <1>2, <2>1 DEF Fits, Calls
  <2> QED
    BY <1>1, <2>1, <2>2, Stays DEF Labels
<1>9. CASE SetRow(k)
  <2> DEFINE q == [r EXCEPT !.csr_y = HEIGHT - 1]
  <2>1. /\ vc' = [vc EXCEPT ![con] = q] /\ Goto(k, "move_csr") /\ curr' = curr
        /\ call[k].at = "set_row"
    BY <1>9 DEF SetRow, Here, At
  <2>2. q \in VCRec /\ q.csr_x = r.csr_x /\ q.csr_y = HEIGHT - 1
    <3>1. HEIGHT - 1 \in Nat
      BY <1>2
    <3> QED
      BY <1>2, <1>3, <3>1 DEF VCRec
  <2>3. r.csr_x < WIDTH
    BY <1>2, <2>1 DEF Fits
  <2> HIDE DEF q
  <2>4. Fits([call[k] EXCEPT !.at = "move_csr"], q)
    BY <1>2, <2>2, <2>3 DEF Fits, OnScreen, Calls
  <2> QED
    BY <1>1, <2>1, <2>2, <2>4, GoesOn DEF Labels
<1> QED
  BY <1>4, <1>5, <1>6, <1>7, <1>8, <1>9

LEMMA DisplaySteps ==
    ASSUME Inv, NEW k \in Context, MoveCsr(k) \/ OutPorts(k)
    PROVE  Inv'
<1> DEFINE r == Here(k)
           Ports == {"move_csr", "moved", "index_hi", "data_hi", "index_lo", "data_lo"}
<1>1. call[k].at \in Ports
  BY DEF MoveCsr, OutPorts, OutPort, OutIndex, OutData, At
<1>2. /\ call[k] \in Calls /\ r \in VCRec /\ OnScreen(r) /\ call[k].at # "idle"
      /\ Idle \in Calls
  BY <1>1, Facts DEF Fits
<1>3. \A label \in Ports : Fits([call[k] EXCEPT !.at = label], r)
  BY <1>2 DEF Fits, Calls
<1>4. vc' = vc /\ curr' = curr
  BY DEF MoveCsr, OutPorts
<1>5. CASE Return(k)
  BY <1>2, <1>4, <1>5, QuietStep DEF Return, Idle, Here
<1>6. CASE \E label \in Ports : Goto(k, label)
  <2>1. PICK label \in Ports : Goto(k, label)
    BY <1>6
  <2>2. label \in Labels \ {"idle"}
    BY DEF Labels
  <2> QED
    BY <1>2, <1>3, <1>4, <2>1, <2>2, Stays
<1>7. CASE MoveCsr(k) /\ ~Return(k)
  <2> DEFINE c == [call[k] EXCEPT !.at = "index_hi", !.temp = Cursor(curr)]
  <2>1. call' = [call EXCEPT ![k] = c]
    BY <1>7 DEF MoveCsr
  <2>2. Cursor(curr) \in Int
    BY CursorIsInt DEF Inv, TypeInv
  <2>3. c \in Calls /\ c.con = call[k].con /\ c.at = "index_hi"
    BY <1>2, <2>2 DEF Calls, Labels
  <2> HIDE DEF c
  <2>4. Fits(c, r)
    BY <1>2, <2>3 DEF Fits
  <2> QED
    BY <1>2, <1>4, <2>1, <2>3, <2>4, QuietStep DEF Here
<1>8. OutPorts(k) => Return(k) \/ \E label \in Ports : Goto(k, label)
  BY DEF OutPorts, OutPort, OutIndex, OutData
<1> QED
  BY <1>5, <1>6, <1>7, <1>8

(***************************************************************************)
(* With calls one at a time, a call starts when no other is in progress.   *)
(***************************************************************************)
LEMMA StartSteps ==
    ASSUME Inv, Preempt = FALSE, NEW k \in Context,
           \/ \E c \in Chars : Putch(k, c)
           \/ \E y \in 0 .. (HEIGHT - 1) : MoveCursor(k, y)
           \/ k = "irq" /\ \E v \in VCs : SelectVc(v)
    PROVE  Inv'
<1>1. \A j \in Context : call[j].at = "idle"
  BY DEF Putch, MoveCursor, SelectVc, MayStart
<1>2. /\ curr \in VCs /\ vc \in [VCs -> VCRec] /\ call \in [Context -> Calls]
      /\ \A v \in VCs : OnScreen(vc[v])
      /\ WIDTH \in Nat \ {0} /\ HEIGHT \in Nat \ {0}
  BY <1>1, ConsoleAssumption DEF Inv, TypeInv, CursorOnScreen, OnScreen
<1>3. \A c \in Chars : c \in Nat
  BY ConsoleAssumption
<1>4. ASSUME NEW c \in Chars, Putch(k, c) PROVE Inv'
  <2> DEFINE d == [call[k] EXCEPT !.at = "enter", !.con = curr, !.chr = c,
                                  !.att = vc[curr].attrib]
  <2>1. call' = [call EXCEPT ![k] = d] /\ vc' = vc /\ curr' = curr
    BY <1>4, <1>2 DEF Putch
  <2>2. d \in Calls /\ d.at = "enter" /\ d.con = curr
    <3>1. call[k] \in Calls /\ c \in Nat /\ vc[curr].attrib \in Int
      BY <1>2, <1>3 DEF VCRec
    <3> QED
      BY <1>2, <3>1 DEF Calls, Labels
  <2> HIDE DEF d
  <2>3. Fits(d, vc[curr])
    BY <1>2, <2>2 DEF Fits
  <2>4. /\ call' \in [Context -> Calls] /\ call'[k] = d
        /\ \A j \in Context \ {k} : call'[j] = call[j]
    BY <1>2, <2>1, <2>2
  <2> HIDE DEF Inv
  <2> QED
    BY <1>1, <1>2, <2>1, <2>2, <2>3, <2>4, StepKeeps
<1>5. ASSUME NEW y \in 0 .. (HEIGHT - 1), MoveCursor(k, y) PROVE Inv'
  <2> DEFINE d == [call[k] EXCEPT !.at = "moved", !.con = curr]
             q == [vc[curr] EXCEPT !.csr_x = 0, !.csr_y = y]
  <2>1. /\ call' = [call EXCEPT ![k] = d] /\ vc' = [vc EXCEPT ![curr] = q]
        /\ curr' = curr
    BY <1>5 DEF MoveCursor
  <2>2. d \in Calls /\ d.at = "moved" /\ d.con = curr
    BY <1>2 DEF Calls, Labels
  <2>3. q \in VCRec /\ OnScreen(q)
    <3>1. PICK x \in Nat : x = 0
      OBVIOUS
    <3>2. q = [vc[curr] EXCEPT !.csr_x = x, !.csr_y = y] /\ y \in Nat /\ y < HEIGHT
      BY <1>2, <3>1
    <3>3. q \in VCRec
      BY <1>2, <3>2, Rebuilt
    <3>4. q.csr_x = 0 /\ q.csr_y = y
      BY <1>2 DEF VCRec
    <3> QED
      BY <1>2, <3>2, <3>3, <3>4 DEF OnScreen
  <2> HIDE DEF d, q
  <2>4. Fits(d, q)
    BY <2>2, <2>3 DEF Fits
  <2>5. /\ call' \in [Context -> Calls] /\ call'[k] = d
        /\ \A j \in Context \ {k} : call'[j] = call[j]
        /\ vc' \in [VCs -> VCRec] /\ vc'[curr] = q
        /\ \A u \in VCs \ {curr} : vc'[u] = vc[u]
    BY <1>2, <2>1, <2>2, <2>3
  <2> HIDE DEF Inv
  <2> QED
    BY <1>1, <1>2, <2>1, <2>2, <2>4, <2>5, StepKeeps
<1>6. ASSUME NEW v \in VCs, SelectVc(v), k = "irq" PROVE Inv'
  <2> DEFINE d == [call[k] EXCEPT !.at = "moved", !.con = v]
  <2>1. call' = [call EXCEPT ![k] = d] /\ vc' = vc /\ curr' = v
    <3>1. /\ call' = [call EXCEPT !["irq"].at = "moved", !["irq"].con = v]
          /\ vc' = vc /\ curr' = v
      BY <1>6 DEF SelectVc
    <3> QED
      BY <1>6, <3>1
  <2>2. d \in Calls /\ d.at = "moved" /\ d.con = v
    BY <1>2 DEF Calls, Labels
  <2> HIDE DEF d
  <2>3. Fits(d, vc[v])
    BY <1>2, <2>2 DEF Fits
  <2>4. /\ call' \in [Context -> Calls] /\ call'[k] = d
        /\ \A j \in Context \ {k} : call'[j] = call[j]
    BY <1>2, <2>1, <2>2
  <2> HIDE DEF Inv
  <2> QED
    BY <1>1, <1>2, <2>1, <2>2, <2>3, <2>4, StepKeeps
<1> QED
  BY <1>4, <1>5, <1>6

-----------------------------------------------------------------------------
LEMMA InitInv == Init => Inv
<1> SUFFICES ASSUME Init PROVE Inv
  OBVIOUS
<1>1. WIDTH \in Nat \ {0} /\ HEIGHT \in Nat \ {0} /\ 0 \in VCs
  BY ConsoleAssumption DEF VCs
<1>2. Idle \in Calls
  BY <1>1 DEF Idle, Calls, Labels
<1>3. call = [k \in Context |-> Idle] /\ curr = 0
  BY DEF Init
<1>4. \A v \in VCs : vc[v] \in VCRec /\ OnScreen(vc[v])
  <2> TAKE v \in VCs
  <2>1. vc[v] = [esc |-> 0, arg |-> <<0, 0, 0>>, attrib |-> v + 1, csr_x |-> 0, csr_y |-> 0]
    BY DEF Init
  <2>2. <<0, 0, 0>> \in [1 .. 3 -> Nat]
    OBVIOUS
  <2>3. PICK a \in [1 .. 3 -> Nat] : a = <<0, 0, 0>>
    BY <2>2
  <2>4. v + 1 \in Int
    BY DEF VCs
  <2>5. [esc |-> 0, arg |-> a, attrib |-> v + 1, csr_x |-> 0, csr_y |-> 0] \in VCRec
    BY <2>4 DEF VCRec
  <2> QED
    BY <1>1, <2>1, <2>3, <2>5 DEF OnScreen
<1>5. vc \in [VCs -> VCRec]
  <2>1. vc = [v \in VCs |-> vc[v]]
    BY DEF Init
  <2> QED
    BY <1>4, <2>1
<1>6. TypeInv
  BY <1>1, <1>2, <1>3, <1>5 DEF TypeInv
<1>7. \A k \in Context : call[k].at = "idle"
  BY <1>3 DEF Idle
<1>8. CursorOnScreen
  BY <1>4 DEF CursorOnScreen, OnScreen
<1> QED
  BY <1>6, <1>7, <1>8 DEF Inv, OneCall, CallsFit

LEMMA NextInv == ASSUME Preempt = FALSE, Inv, [Next]_vars PROVE Inv'
<1>1. CASE Next
  <2>1. "irq" \in Context /\ Threads \subseteq Context
    BY DEF Context
  <2>2. ASSUME NEW k \in Context, Step(k) PROVE Inv'
    BY <2>2, CharacterSteps, RowSteps, DisplaySteps DEF Step
  <2>3. ASSUME NEW k \in Context, \E c \in Chars : Putch(k, c) PROVE Inv'
    BY <2>3, StartSteps
  <2>4. ASSUME NEW k \in Threads, \E y \in 0 .. (HEIGHT - 1) : MoveCursor(k, y) PROVE Inv'
    BY <2>1, <2>4, StartSteps
  <2>5. ASSUME \E v \in VCs : SelectVc(v) PROVE Inv'
    BY <2>1, <2>5, StartSteps
  <2> QED
    BY <1>1, <2>2, <2>3, <2>4, <2>5 DEF Next
<1>2. CASE UNCHANGED vars
  BY <1>2 DEF vars, Inv, TypeInv, OneCall, CallsFit, CursorOnScreen
<1> QED
  BY <1>1, <1>2

(***************************************************************************)
(* What is about to be written is a cell of the console printed to.        *)
(***************************************************************************)
LEMMA WritesFollow == Inv => WritesOnOwnScreen
<1> SUFFICES ASSUME Inv, NEW k \in Context
             PROVE  /\ Plain(k) /\ call[k].chr >= SPACE
                         => Cursor(call[k].con) \in OwnCells(call[k].con)
                    /\ Plain(k) /\ call[k].chr = BS /\ Here(k).csr_x # 0
                         => Cursor(call[k].con) - 1 \in OwnCells(call[k].con)
                    /\ At(k, "tab") /\ Here(k).csr_x # call[k].eot
                         => Cursor(call[k].con) \in OwnCells(call[k].con)
                    /\ call[k].at = "copy" => call[k].temp \in 1 .. HEIGHT
  BY DEF WritesOnOwnScreen
<1> DEFINE r == Here(k)
           con == call[k].con
<1>1. CASE call[k].at = "idle"
  BY <1>1 DEF Plain, At
<1>2. CASE call[k].at # "idle"
  <2>1. /\ call[k] \in Calls /\ con \in VCs /\ r \in VCRec /\ Fits(call[k], r)
        /\ WIDTH \in Nat \ {0} /\ HEIGHT \in Nat \ {0}
    BY <1>2, Facts
  <2>2. /\ r.csr_x \in Nat /\ r.csr_y \in Nat /\ con \in Nat /\ SCREEN \in Nat
        /\ call[k].eot \in Int
    BY <2>1, TimesNat DEF VCRec, Calls, VCs, SCREEN
  <2>3. fb_adr(con) \in Nat
    BY <2>2, TimesNat DEF fb_adr
  <2>4. \A x \in 0 .. (WIDTH - 1), y \in 0 .. (HEIGHT - 1) :
           fb_adr(con) + y * WIDTH + x \in OwnCells(con)
    <3> TAKE x \in 0 .. (WIDTH - 1), y \in 0 .. (HEIGHT - 1)
    <3>1. y * WIDTH + x \in 0 .. (SCREEN - 1)
      BY CellOnScreen, Zenon
    <3>2. y * WIDTH \in Nat
      BY <2>1, TimesNat
    <3> QED
      BY <2>2, <2>3, <3>1, <3>2 DEF OwnCells
  <2>5. Cursor(con) = fb_adr(con) + r.csr_y * WIDTH + r.csr_x
    BY DEF Cursor, Here
  <2>6. CASE call[k].at = "enter"
    <3>1. r.csr_x \in 0 .. (WIDTH - 1) /\ r.csr_y \in 0 .. (HEIGHT - 1)
      BY <2>1, <2>2, <2>6 DEF Fits, OnScreen
    <3>2. Cursor(con) \in OwnCells(con)
      BY <2>4, <2>5, <3>1
    <3>3. r.csr_x # 0 => Cursor(con) - 1 \in OwnCells(con)
      <4> SUFFICES ASSUME r.csr_x # 0 PROVE Cursor(con) - 1 \in OwnCells(con)
        OBVIOUS
      <4>1. r.csr_x - 1 \in 0 .. (WIDTH - 1) /\ r.csr_y * WIDTH \in Nat
        BY <2>1, <2>2, <3>1, TimesNat
      <4>2. fb_adr(con) + r.csr_y * WIDTH + (r.csr_x - 1) \in OwnCells(con)
        BY <2>4, <3>1, <4>1
      <4> QED
        BY <2>2, <2>3, <2>5, <4>1, <4>2
    <3> QED
      BY <2>6, <3>2, <3>3 DEF At
  <2>7. CASE call[k].at = "tab"
    <3> SUFFICES ASSUME r.csr_x # call[k].eot PROVE Cursor(con) \in OwnCells(con)
      BY <2>7 DEF Plain, At
    <3>1. r.csr_x \in 0 .. (WIDTH - 1) /\ r.csr_y \in 0 .. (HEIGHT - 1)
      BY <2>1, <2>2, <2>7 DEF Fits
    <3> QED
      BY <2>4, <2>5, <3>1
  <2>8. CASE call[k].at = "copy"
    <3>1. call[k].temp = 1
      BY <2>1, <2>8 DEF Fits
    <3> QED
      BY <2>1, <2>8, <3>1 DEF Plain, At
  <2>9. CASE call[k].at \notin {"enter", "tab", "copy"}
    BY <2>9 DEF Plain, At
  <2> QED
    BY <2>6, <2>7, <2>8, <2>9
<1> QED
  BY <1>1, <1>2

(***************************************************************************)
(* With calls one at a time putch_help writes on its own console only      *)
(* (video.c:274, 303, and scroll's memsetw): whatever was printed before,  *)
(* on consoles of any size.                                                *)
(***************************************************************************)
THEOREM WritesOnOwnScreenTheorem ==
    ASSUME Preempt = FALSE PROVE Spec => []WritesOnOwnScreen
<1>1. Inv /\ [Next]_vars => Inv'
  BY NextInv
<1> QED
  BY <1>1, InitInv, WritesFollow, PTL DEF Spec

(***************************************************************************)
(* Between two characters the cursor is on the screen (video.c:230-320).   *)
(***************************************************************************)
THEOREM CursorOnScreenTheorem ==
    ASSUME Preempt = FALSE PROVE Spec => []CursorOnScreen
<1>1. Inv /\ [Next]_vars => Inv'
  BY NextInv
<1>2. Inv => CursorOnScreen
  BY DEF Inv
<1> QED
  BY <1>1, <1>2, InitInv, PTL DEF Spec

-----------------------------------------------------------------------------
(* The ports of the display. *)

Ports == {"index_hi", "data_hi", "index_lo", "data_lo"}

(***************************************************************************)
(* What move_csr has written when it comes to each of its four ports.      *)
(***************************************************************************)
PortInv ==
    /\ crtc \in [index : Nat, start : Int, hi : Int, lo : Int]
    /\ crtc.start = fb_adr(curr)
    /\ \A k \in Context : call[k].at \in Ports =>
         /\ call[k].temp = Cursor(curr)
         /\ call[k].at = "data_hi" => crtc.index = 14
         /\ call[k].at = "index_lo" => crtc.hi = call[k].temp
         /\ call[k].at = "data_lo" => crtc.index = 15 /\ crtc.hi = call[k].temp

Shows ==
    /\ crtc'.hi = Cursor(curr)' /\ crtc'.lo = Cursor(curr)'
    /\ crtc'.start = fb_adr(curr)'

(***************************************************************************)
(* A step of the one call that is in progress.                             *)
(***************************************************************************)
LEMMA OthersIdle ==
    ASSUME Inv, NEW k \in Context, NEW c, call[k].at # "idle", call' = [call EXCEPT ![k] = c]
    PROVE  call'[k] = c /\ \A j \in Context \ {k} : call'[j].at = "idle"
  BY DEF Inv, TypeInv, OneCall

LEMMA PortSteps ==
    ASSUME Inv, PortInv, NEW k \in Context, OutPorts(k)
    PROVE  /\ PortInv'
           /\ call[k].at = "data_lo" => Shows
<1>1. /\ call[k].at \in Ports /\ call[k].at # "idle" /\ call[k] \in Calls
      /\ call[k].temp = Cursor(curr) /\ call[k].temp \in Int
  <2>1. call[k].at \in Ports /\ call[k].at # "idle"
    BY DEF OutPorts, OutPort, OutIndex, OutData, At, Ports
  <2> QED
    BY <2>1, Facts DEF PortInv, Calls
<1>2. UNCHANGED <<vc, curr>> /\ fb_adr(curr)' = fb_adr(curr) /\ Cursor(curr)' = Cursor(curr)
  BY DEF OutPorts, fb_adr, Cursor
<1>3. /\ crtc \in [index : Nat, start : Int, hi : Int, lo : Int]
      /\ crtc.start = fb_adr(curr)
  BY DEF PortInv
<1>4. CASE OutIndex(k, "index_hi", 14, "data_hi")
  <2>1. /\ crtc' = [crtc EXCEPT !.index = 14]
        /\ call' = [call EXCEPT ![k] = [call[k] EXCEPT !.at = "data_hi"]]
        /\ call[k].at = "index_hi"
    BY <1>4 DEF OutIndex, Goto, At
  <2>2. /\ call'[k] = [call[k] EXCEPT !.at = "data_hi"]
        /\ \A j \in Context \ {k} : call'[j].at = "idle"
    BY <1>1, <2>1, OthersIdle
  <2>3. call'[k].at = "data_hi" /\ call'[k].temp = call[k].temp
    BY <1>1, <2>2 DEF Calls
  <2> QED
    BY <1>1, <1>2, <1>3, <2>1, <2>2, <2>3 DEF PortInv, Ports
<1>5. CASE OutData(k, "data_hi", "index_lo")
  <2>1. /\ crtc.index = 14 /\ call[k].at = "data_hi"
        /\ call' = [call EXCEPT ![k] = [call[k] EXCEPT !.at = "index_lo"]]
    BY <1>5 DEF OutData, Goto, At, PortInv, Ports
  <2>2. crtc' = [crtc EXCEPT !.hi = call[k].temp]
    BY <1>5, <2>1 DEF OutData
  <2>3. /\ call'[k] = [call[k] EXCEPT !.at = "index_lo"]
        /\ \A j \in Context \ {k} : call'[j].at = "idle"
    BY <1>1, <2>1, OthersIdle
  <2>4. call'[k].at = "index_lo" /\ call'[k].temp = call[k].temp
    BY <1>1, <2>3 DEF Calls
  <2> QED
    BY <1>1, <1>2, <1>3, <2>1, <2>2, <2>3, <2>4 DEF PortInv, Ports
<1>6. CASE OutIndex(k, "index_lo", 15, "data_lo")
  <2>1. /\ crtc' = [crtc EXCEPT !.index = 15]
        /\ call' = [call EXCEPT ![k] = [call[k] EXCEPT !.at = "data_lo"]]
        /\ call[k].at = "index_lo" /\ crtc.hi = call[k].temp
    BY <1>6 DEF OutIndex, Goto, At, PortInv, Ports
  <2>2. /\ call'[k] = [call[k] EXCEPT !.at = "data_lo"]
        /\ \A j \in Context \ {k} : call'[j].at = "idle"
    BY <1>1, <2>1, OthersIdle
  <2>3. call'[k].at = "data_lo" /\ call'[k].temp = call[k].temp
    BY <1>1, <2>2 DEF Calls
  <2> QED
    BY <1>1, <1>2, <1>3, <2>1, <2>2, <2>3 DEF PortInv, Ports
<1>7. CASE OutData(k, "data_lo", "idle")
  <2>1. /\ crtc.index = 15 /\ crtc.hi = call[k].temp /\ call[k].at = "data_lo"
        /\ call' = [call EXCEPT ![k] = Idle]
    BY <1>7 DEF OutData, Return, At, PortInv, Ports
  <2>2. crtc' = [crtc EXCEPT !.lo = call[k].temp]
    BY <1>7, <2>1 DEF OutData
  <2>3. call'[k] = Idle /\ \A j \in Context \ {k} : call'[j].at = "idle"
    BY <1>1, <2>1, OthersIdle
  <2>4. Idle.at = "idle"
    BY DEF Idle
  <2> QED
    BY <1>1, <1>2, <1>3, <2>1, <2>2, <2>3, <2>4 DEF PortInv, Ports, Shows
<1> QED
  BY <1>4, <1>5, <1>6, <1>7 DEF OutPorts, OutPort

(***************************************************************************)
(* The other steps come to no port but the first.                          *)
(***************************************************************************)
LEMMA NoPort ==
    ASSUME PortInv, UNCHANGED <<curr, crtc>>,
           \A j \in Context : call'[j].at \notin Ports
    PROVE  PortInv'
  BY DEF PortInv, fb_adr

LEMMA NoPortSteps ==
    ASSUME Inv, PortInv, NEW k \in Context, Step(k), ~OutPorts(k)
    PROVE  /\ PortInv'
           /\ call[k].at # "data_lo"
<1>1. call[k].at # "idle" /\ call[k].at # "data_lo"
  BY DEF Step, EscapeChar, Plain, EscStart, Backspace, Tab, TabStep, LineFeed,
         CarriageReturn, OtherControl, PutGlyph, Advance, Wrap, Scroll, Copy, SetRow,
         MoveCsr, At
<1>2. call[k] \in Calls
  BY <1>1, Facts
<1>3. CASE MoveCsr(k) /\ ~Return(k)
  <2>1. /\ call' = [call EXCEPT ![k] = [call[k] EXCEPT !.at = "index_hi", !.temp = Cursor(curr)]]
        /\ UNCHANGED <<vc, curr, crtc>>
    BY <1>3 DEF MoveCsr
  <2>2. /\ call'[k] = [call[k] EXCEPT !.at = "index_hi", !.temp = Cursor(curr)]
        /\ \A j \in Context \ {k} : call'[j].at = "idle"
    BY <1>1, <2>1, OthersIdle
  <2>3. call'[k].at = "index_hi" /\ call'[k].temp = Cursor(curr)
    BY <1>2, <2>2 DEF Calls
  <2>4. Cursor(curr)' = Cursor(curr) /\ fb_adr(curr)' = fb_adr(curr)
    BY <2>1 DEF Cursor, fb_adr
  <2> QED
    BY <1>1, <2>1, <2>2, <2>3, <2>4 DEF PortInv, Ports
<1>4. CASE ~(MoveCsr(k) /\ ~Return(k))
  <2>1. UNCHANGED <<curr, crtc>>
    BY <1>4 DEF Step, EscapeChar, EscStart, Backspace, Tab, TabStep, LineFeed,
                CarriageReturn, OtherControl, PutGlyph, Advance, Wrap, Scroll, Copy, SetRow,
                MoveCsr
  <2>2. \/ Return(k) \/ call' = call
        \/ \E label \in Labels \ Ports : Goto(k, label)
        \/ \E label \in Labels \ Ports, e \in Int :
              \/ call' = [call EXCEPT ![k].at = label, ![k].eot = e]
              \/ call' = [call EXCEPT ![k].at = label, ![k].temp = e]
    <3>1. {"wrap", "advance", "scroll", "set_row", "move_csr", "tab", "copy"}
             \subseteq Labels \ Ports
      BY DEF Labels, Ports
    <3>2. CASE \/ EscapeChar(k) \/ EscStart(k) \/ Backspace(k) \/ LineFeed(k)
               \/ CarriageReturn(k) \/ OtherControl(k) \/ PutGlyph(k) \/ Advance(k)
               \/ Wrap(k) \/ Copy(k) \/ SetRow(k) \/ TabStep(k) \/ MoveCsr(k)
      BY <1>4, <3>1, <3>2 DEF EscapeChar, EscStart, Backspace, TabStep, LineFeed, CarriageReturn,
                  OtherControl, PutGlyph, Advance, Wrap, Copy, SetRow
    <3>3. Here(k).csr_x \in Nat /\ Here(k).csr_y \in Nat
          /\ WIDTH \in Nat /\ HEIGHT \in Nat /\ TABSTOP \in Nat \ {0}
      BY <1>1, Facts, ConsoleAssumption DEF VCRec
    <3>4. CASE Tab(k)
      <4>1. Here(k).csr_x \div TABSTOP \in Nat
        BY <3>3, DivMod
      <4>2. TABSTOP * (Here(k).csr_x \div TABSTOP + 1) \in Int
        BY <3>3, <4>1, TimesNat
      <4> QED
        BY <3>1, <3>4, <4>2 DEF Tab
    <3>5. CASE Scroll(k)
      BY <3>1, <3>3, <3>5 DEF Scroll
    <3> QED
      BY <3>2, <3>4, <3>5 DEF Step
  <2>3. call'[k].at \notin Ports /\ \A j \in Context \ {k} : call'[j].at = "idle"
    <3>1. call \in [Context -> Calls] /\ \A j \in Context \ {k} : call[j].at = "idle"
      BY <1>1 DEF Inv, TypeInv, OneCall
    <3>2. call' = call => call[k].at \notin Ports
      BY DEF Step, EscapeChar, Plain, EscStart, Backspace, Tab, TabStep, LineFeed,
         CarriageReturn, OtherControl, PutGlyph, Advance, Wrap, Scroll, Copy, SetRow,
         MoveCsr, At, Ports
    <3>3. CASE Return(k)
      <4>1. Idle.at = "idle" /\ "idle" \notin Ports
        BY DEF Idle, Ports
      <4> QED
        BY <3>1, <3>3, <4>1 DEF Return
    <3>4. CASE \E label \in Labels \ Ports : Goto(k, label)
      <4>1. PICK label \in Labels \ Ports : Goto(k, label)
        BY <3>4
      <4>2. call'[k] = [call[k] EXCEPT !.at = label] /\ \A j \in Context \ {k} : call'[j] = call[j]
        BY <3>1, <4>1 DEF Goto
      <4>3. call'[k].at = label
        BY <1>2, <4>2 DEF Calls
      <4> QED
        BY <3>1, <4>2, <4>3
    <3>5. CASE \E label \in Labels \ Ports, e \in Int :
                 \/ call' = [call EXCEPT ![k].at = label, ![k].eot = e]
                 \/ call' = [call EXCEPT ![k].at = label, ![k].temp = e]
      <4>1. PICK label \in Labels \ Ports, e \in Int :
                 \/ call' = [call EXCEPT ![k].at = label, ![k].eot = e]
                 \/ call' = [call EXCEPT ![k].at = label, ![k].temp = e]
        BY <3>5
      <4>2. /\ \/ call'[k] = [call[k] EXCEPT !.at = label, !.eot = e]
               \/ call'[k] = [call[k] EXCEPT !.at = label, !.temp = e]
            /\ \A j \in Context \ {k} : call'[j] = call[j]
        BY <3>1, <4>1
      <4>3. call'[k].at = label
        BY <1>2, <4>2 DEF Calls
      <4> QED
        BY <3>1, <4>2, <4>3
    <3> QED
      BY <2>2, <3>1, <3>2, <3>3, <3>4, <3>5
  <2>4. \A j \in Context : call'[j].at \notin Ports
    BY <2>3 DEF Ports
  <2> QED
    BY <1>1, <2>1, <2>4, NoPort
<1> QED
  BY <1>3, <1>4

(***************************************************************************)
(* A call that starts comes to no port, and no call is at one when the     *)
(* console or its cursor changes.                                          *)
(***************************************************************************)
LEMMA PortStarts ==
    ASSUME Inv, PortInv, Preempt = FALSE, NEW k \in Context,
           \/ \E c \in Chars : Putch(k, c)
           \/ \E y \in 0 .. (HEIGHT - 1) : MoveCursor(k, y)
           \/ k = "irq" /\ \E v \in VCs : SelectVc(v)
    PROVE  /\ PortInv'
           /\ \A j \in Context : call[j].at = "idle"
<1>1. \A j \in Context : call[j].at = "idle"
  BY DEF Putch, MoveCursor, SelectVc, MayStart
<1>2. call \in [Context -> Calls]
  BY DEF Inv, TypeInv
<1>3. PICK c : call' = [call EXCEPT ![k] = c] /\ c.at \in {"enter", "moved"}
  <2>1. CASE \E d \in Chars : Putch(k, d)
    <3>1. PICK d : call' = [call EXCEPT ![k].at = "enter", ![k].con = curr, ![k].chr = d,
                                        ![k].att = vc[curr].attrib]
      BY <2>1 DEF Putch
    <3>2. PICK c : c = [call[k] EXCEPT !.at = "enter", !.con = curr, !.chr = d,
                                       !.att = vc[curr].attrib]
      OBVIOUS
    <3>3. c.at = "enter"
      BY <1>2, <3>2 DEF Calls
    <3> QED
      BY <1>2, <3>1, <3>2, <3>3
  <2>2. CASE \/ \E y \in 0 .. (HEIGHT - 1) : MoveCursor(k, y)
             \/ k = "irq" /\ \E v \in VCs : SelectVc(v)
    <3>1. PICK v : call' = [call EXCEPT ![k].at = "moved", ![k].con = v]
      BY <2>2 DEF MoveCursor, SelectVc
    <3>2. PICK c : c = [call[k] EXCEPT !.at = "moved", !.con = v]
      OBVIOUS
    <3>3. c.at = "moved"
      BY <1>2, <3>2 DEF Calls
    <3> QED
      BY <1>2, <3>1, <3>2, <3>3
  <2> QED
    BY <2>1, <2>2
<1>4. \A j \in Context : call'[j].at \notin Ports
  BY <1>1, <1>2, <1>3 DEF Ports
<1>5. CASE UNCHANGED <<curr, crtc>>
  BY <1>1, <1>4, <1>5, NoPort
<1>6. CASE \E v \in VCs : SelectVc(v)
  <2>1. PICK v \in VCs : SelectVc(v)
    BY <1>6
  <2>2. crtc' = [crtc EXCEPT !.start = fb_adr(v), !.index = 13] /\ curr' = v
    BY <2>1 DEF SelectVc
  <2>3. fb_adr(v) \in Int
    BY ConsoleAssumption, TimesNat DEF fb_adr, SCREEN, VCs
  <2>4. /\ crtc' \in [index : Nat, start : Int, hi : Int, lo : Int]
        /\ crtc'.start = fb_adr(v)
    BY <2>2, <2>3 DEF PortInv
  <2>5. crtc'.start = fb_adr(curr)'
    BY <2>2, <2>4 DEF fb_adr
  <2> QED
    BY <1>1, <1>4, <2>4, <2>5 DEF PortInv
<1> QED
  BY <1>5, <1>6 DEF Putch, MoveCursor

LEMMA PortNext ==
    ASSUME Preempt = FALSE, Inv, PortInv, [Next]_vars
    PROVE  /\ PortInv'
           /\ [\A k \in Context : call[k].at = "data_lo" /\ call'[k].at = "idle" => Shows]_vars
<1> DEFINE Good == \A k \in Context : call[k].at = "data_lo" /\ call'[k].at = "idle" => Shows
<1>1. CASE Next
  <2>1. "irq" \in Context /\ Threads \subseteq Context
    BY DEF Context
  <2>2. ASSUME NEW k \in Context, Step(k) PROVE PortInv' /\ Good
    <3>1. call[k].at # "idle"
      BY <2>2 DEF Step, EscapeChar, Plain, EscStart, Backspace, Tab, TabStep, LineFeed,
           CarriageReturn, OtherControl, PutGlyph, Advance, Wrap, Scroll, Copy, SetRow,
           MoveCsr, OutPorts, OutPort, OutIndex, OutData, At
    <3>2. PortInv' /\ (call[k].at = "data_lo" => Shows)
      BY <2>2, PortSteps, NoPortSteps
    <3>3. \A j \in Context : call[j].at = "data_lo" => j = k
      BY <3>1 DEF Inv, OneCall
    <3> QED
      BY <3>2, <3>3
  <2>3. ASSUME NEW k \in Context, \E c \in Chars : Putch(k, c) PROVE PortInv' /\ Good
    BY <2>3, PortStarts
  <2>4. ASSUME NEW k \in Threads, \E y \in 0 .. (HEIGHT - 1) : MoveCursor(k, y)
        PROVE  PortInv' /\ Good
    BY <2>1, <2>4, PortStarts
  <2>5. ASSUME \E v \in VCs : SelectVc(v) PROVE PortInv' /\ Good
    BY <2>1, <2>5, PortStarts
  <2> QED
    BY <1>1, <2>2, <2>3, <2>4, <2>5 DEF Next
<1>2. CASE UNCHANGED vars
  BY <1>2 DEF vars, PortInv, fb_adr, Cursor
<1> QED
  BY <1>1, <1>2

LEMMA PortInit == Init => PortInv
<1> SUFFICES ASSUME Init PROVE PortInv
  OBVIOUS
<1>1. \A k \in Context : call[k].at \notin Ports
  <2>1. Idle.at = "idle" /\ "idle" \notin Ports
    BY DEF Idle, Ports
  <2> QED
    BY <2>1 DEF Init
<1>2. fb_adr(curr) = 0
  <2>1. SCREEN \in Nat
    BY ConsoleAssumption, TimesNat DEF SCREEN
  <2> QED
    BY <2>1 DEF Init, fb_adr
<1> QED
  BY <1>1, <1>2 DEF Init, PortInv

(***************************************************************************)
(* With calls one at a time, when move_csr has written its four ports the  *)
(* display shows the cursor of the selected console, on the part of memory *)
(* that is shown, whichever consoles were printed to and selected before   *)
(* (video.c:110-149).                                                      *)
(***************************************************************************)
THEOREM CursorShownTheorem ==
    ASSUME Preempt = FALSE PROVE Spec => CursorShown
<1>1. Inv /\ PortInv /\ [Next]_vars => Inv' /\ PortInv'
  BY NextInv, PortNext
<1>2. Inv /\ PortInv /\ [Next]_vars
        => [\A k \in Context :
              call[k].at = "data_lo" /\ call'[k].at = "idle"
                => /\ crtc'.hi = Cursor(curr)' /\ crtc'.lo = Cursor(curr)'
                   /\ crtc'.start = fb_adr(curr)']_vars
  BY PortNext DEF Shows
<1> QED
  BY <1>1, <1>2, InitInv, PortInit, PTL DEF Spec, CursorShown

-----------------------------------------------------------------------------
(* The screen and the paper. *)

CellRec == [ink : BOOLEAN, att : Int]
Rows == [1 .. HEIGHT -> [0 .. (WIDTH - 1) -> CellRec]]
Sheets == [rows : Rows, line : Int, col : Int]

Memory == [Cells -> CellRec]
Spot(v, y, x) == fb_adr(v) + y * WIDTH + x

\* What the memory f of console v shows, with a cursor r, as a sheet of paper.
Shown(f, r, v) ==
    [rows |-> [y \in 1 .. HEIGHT |->
                 [x \in 0 .. (WIDTH - 1) |-> f[Spot(v, y - 1, x)]]],
     line |-> r.csr_y + 1, col |-> r.csr_x]

Window(v) == Shown(fb, vc[v], v)

Scrolled(w, a) == [w EXCEPT !.line = HEIGHT, !.rows = Append(Tail(@), BlankRow(a))]
Settled(w, a) == IF w.line > HEIGHT THEN Scrolled(w, a) ELSE w
Wrapped(w) == IF w.col >= WIDTH THEN [w EXCEPT !.col = 0, !.line = @ + 1] ELSE w
Tabbed(w, c) ==
    [Written(w, w.col, c.eot - 1, Cell(SPACE, c.att)) EXCEPT !.col = c.eot]

(***************************************************************************)
(* What the rest of the call c makes of what its console shows.            *)
(***************************************************************************)
Finish(c, w) ==
    CASE c.at = "tab"     -> Settled(Wrapped(Tabbed(w, c)), c.att)
      [] c.at = "advance" -> Settled(Wrapped([w EXCEPT !.col = @ + 1]), c.att)
      [] c.at = "wrap"    -> Settled(Wrapped(w), c.att)
      [] c.at = "scroll"  -> Settled(w, c.att)
      [] c.at = "copy"    -> Scrolled(w, c.att)
      [] c.at = "set_row" -> [w EXCEPT !.line = HEIGHT]
      [] OTHER            -> w

Writing == {"enter", "tab", "advance", "wrap", "scroll", "copy"}

Busy(k, v) == call[k].at # "idle" /\ call[k].con = v

(***************************************************************************)
(* The paper is ahead of the screen by what a call has still to do, and a  *)
(* call does it in the attribute it began with.                            *)
(***************************************************************************)
PaperInv ==
    /\ fb \in Memory
    /\ \A k \in Context : call[k].at \in Writing => call[k].att = vc[call[k].con].attrib
    /\ \A v \in VCs :
         /\ (\A k \in Context : ~Busy(k, v)) => paper[v] = Window(v)
         /\ \A k \in Context : Busy(k, v) => paper[v] = Finish(call[k], Window(v))

LEMMA SameRows ==
    ASSUME NEW r \in Rows, NEW s \in Rows,
           \A y \in 1 .. HEIGHT, x \in 0 .. (WIDTH - 1) : r[y][x] = s[y][x]
    PROVE  r = s
<1>1. PICK X, Y : X = 0 .. (WIDTH - 1) /\ Y = 1 .. HEIGHT
  OBVIOUS
<1>2. PICK S : S = [X -> CellRec]
  OBVIOUS
<1>3. r \in [Y -> S] /\ s \in [Y -> S]
  BY <1>1, <1>2 DEF Rows
<1>4. \A y \in Y : r[y] = s[y]
  <2> TAKE y \in Y
  <2>1. r[y] \in [X -> CellRec] /\ s[y] \in [X -> CellRec]
    BY <1>2, <1>3
  <2>2. \A x \in X : r[y][x] = s[y][x]
    BY <1>1
  <2> QED
    BY <2>1, <2>2
<1> QED
  BY <1>3, <1>4

LEMMA SameSheet ==
    ASSUME NEW p \in Sheets, NEW q \in Sheets, p.line = q.line, p.col = q.col,
           \A y \in 1 .. HEIGHT, x \in 0 .. (WIDTH - 1) : p.rows[y][x] = q.rows[y][x]
    PROVE  p = q
<1>1. p.rows \in Rows /\ q.rows \in Rows
  BY DEF Sheets
<1>2. p.rows = q.rows
  BY <1>1, SameRows
<1> QED
  BY <1>2 DEF Sheets

LEMMA CellIsCell ==
    ASSUME NEW c \in Int, NEW a \in Int PROVE Cell(c, a) \in CellRec
  BY DEF Cell, CellRec

LEMMA WrittenSheet ==
    ASSUME NEW p \in Sheets, p.line \in 1 .. HEIGHT, NEW from \in Int, NEW to \in Int,
           NEW cell \in CellRec
    PROVE  LET q == Written(p, from, to, cell) IN
             /\ q \in Sheets /\ q.line = p.line /\ q.col = p.col
             /\ \A y \in 1 .. HEIGHT, x \in 0 .. (WIDTH - 1) :
                  q.rows[y][x] = IF y = p.line /\ x \in from .. to THEN cell
                                 ELSE p.rows[y][x]
<1> DEFINE row == [x \in 0 .. (WIDTH - 1) |->
                     IF x \in from .. to THEN cell ELSE p.rows[p.line][x]]
           rows == [p.rows EXCEPT ![p.line] = row]
           q == Written(p, from, to, cell)
<1>1. p.rows \in Rows /\ p.rows[p.line] \in [0 .. (WIDTH - 1) -> CellRec]
  BY DEF Sheets, Rows
<1>2. row \in [0 .. (WIDTH - 1) -> CellRec]
  BY <1>1
<1>3. q = [p EXCEPT !.rows = rows]
  BY DEF Written
<1> HIDE DEF row
<1>4. rows \in Rows
  BY <1>1, <1>2 DEF Rows
<1>5. \A y \in 1 .. HEIGHT : rows[y] = IF y = p.line THEN row ELSE p.rows[y]
  BY <1>1 DEF Rows
<1> HIDE DEF rows, q
<1>6. q \in Sheets /\ q.line = p.line /\ q.col = p.col /\ q.rows = rows
  BY <1>3, <1>4 DEF Sheets
<1>7. \A x \in 0 .. (WIDTH - 1) :
         row[x] = IF x \in from .. to THEN cell ELSE p.rows[p.line][x]
  BY DEF row
<1>8. \A y \in 1 .. HEIGHT, x \in 0 .. (WIDTH - 1) :
         q.rows[y][x] = IF y = p.line /\ x \in from .. to THEN cell ELSE p.rows[y][x]
  BY <1>5, <1>6, <1>7
<1> QED
  BY <1>6, <1>8 DEF q

LEMMA RolledRows ==
    ASSUME NEW rows \in Rows, NEW a \in Int
    PROVE  LET new == Append(Tail(rows), BlankRow(a)) IN
             /\ new \in Rows
             /\ \A y \in 1 .. HEIGHT : new[y] = IF y < HEIGHT THEN rows[y + 1]
                                               ELSE BlankRow(a)
<1> DEFINE S == [0 .. (WIDTH - 1) -> CellRec]
           new == Append(Tail(rows), BlankRow(a))
<1>1. HEIGHT \in Nat \ {0}
  BY ConsoleAssumption
<1>2. BlankRow(a) \in S
  BY CellIsCell DEF BlankRow, SPACE
<1>3. rows \in Seq(S) /\ Len(rows) = HEIGHT
  BY <1>1 DEF Rows
<1> HIDE DEF S
<1>4. /\ Tail(rows) \in Seq(S) /\ Len(Tail(rows)) = HEIGHT - 1
      /\ \A y \in 1 .. (HEIGHT - 1) : Tail(rows)[y] = rows[y + 1]
  BY <1>1, <1>3
<1>5. /\ new \in Seq(S) /\ Len(new) = HEIGHT
      /\ \A y \in 1 .. HEIGHT : new[y] = IF y < HEIGHT THEN rows[y + 1] ELSE BlankRow(a)
  <2>1. PICK t \in Seq(S) : t = Tail(rows)
    BY <1>4
  <2>2. PICK b \in S : b = BlankRow(a)
    BY <1>2
  <2>3. PICK n : n = Append(t, b)
    OBVIOUS
  <2>4. /\ n \in Seq(S) /\ Len(n) = Len(t) + 1
        /\ \A y \in 1 .. (Len(t) + 1) : n[y] = IF y <= Len(t) THEN t[y] ELSE b
    BY <2>3
  <2>5. \A y \in 1 .. HEIGHT : n[y] = IF y < HEIGHT THEN rows[y + 1] ELSE b
    <3>1. Len(t) = HEIGHT - 1 /\ \A y \in 1 .. (HEIGHT - 1) : t[y] = rows[y + 1]
      BY <1>4, <2>1
    <3> TAKE y \in 1 .. HEIGHT
    <3>2. n[y] = IF y <= Len(t) THEN t[y] ELSE b
      <4>1. Len(t) + 1 = HEIGHT
        BY <1>1, <3>1
      <4> QED
        BY <2>4, <4>1
    <3>3. y < HEIGHT => t[y] = rows[y + 1]
      BY <1>1, <3>1
    <3> QED
      BY <1>1, <3>1, <3>2, <3>3
  <2> QED
    BY <1>1, <1>4, <2>1, <2>2, <2>3, <2>4, <2>5
<1> HIDE DEF new
<1>6. new \in Rows
  <2>1. PICK n \in Seq(S) : n = new
    BY <1>5
  <2>2. n \in [1 .. Len(n) -> S] /\ Len(n) = HEIGHT
    BY <1>5, <2>1
  <2> QED
    BY <2>1, <2>2 DEF Rows, S
<1> QED
  BY <1>5, <1>6 DEF new

LEMMA ScrolledSheet ==
    ASSUME NEW p \in Sheets, NEW a \in Int
    PROVE  LET q == Scrolled(p, a) IN
             /\ q \in Sheets /\ q.line = HEIGHT /\ q.col = p.col
             /\ q.rows = Append(Tail(p.rows), BlankRow(a))
<1> DEFINE rows == Append(Tail(p.rows), BlankRow(a))
<1>1. rows \in Rows /\ HEIGHT \in Int
  BY RolledRows, ConsoleAssumption DEF Sheets
<1>2. Scrolled(p, a) = [p EXCEPT !.line = HEIGHT, !.rows = rows]
  BY DEF Scrolled
<1> HIDE DEF rows
<1>3. /\ Scrolled(p, a) \in Sheets
      /\ Scrolled(p, a).line = HEIGHT /\ Scrolled(p, a).col = p.col
      /\ Scrolled(p, a).rows = rows
  BY <1>1, <1>2 DEF Sheets
<1> QED
  BY <1>3 DEF rows

(***************************************************************************)
(* The next row of the paper is where a wrapped cursor settles.            *)
(***************************************************************************)
LEMMA NextRowSettles ==
    ASSUME NEW p \in Sheets, p.line <= HEIGHT, NEW a \in Int
    PROVE  NextRow(p, a) = Settled([p EXCEPT !.col = 0, !.line = @ + 1], a)
<1> DEFINE q == [p EXCEPT !.col = 0, !.line = @ + 1]
<1>1. p.line \in Int /\ HEIGHT \in Int /\ p.line + 1 \in Int /\ p.rows \in Rows
  BY ConsoleAssumption DEF Sheets
<1>4. q \in Sheets /\ q.line = p.line + 1 /\ q.col = 0 /\ q.rows = p.rows
  <2>1. PICK n \in Int, z \in Int : n = p.line + 1 /\ z = 0
    BY <1>1
  <2>2. q = [p EXCEPT !.col = z, !.line = n]
    BY <2>1
  <2> QED
    BY <2>1, <2>2 DEF Sheets
<1>2. CASE p.line < HEIGHT
  <2>1. NextRow(p, a) = q
    BY <1>2 DEF NextRow
  <2>2. ~(q.line > HEIGHT)
    BY <1>1, <1>2, <1>4
  <2>3. Settled(q, a) = q
    BY <2>2 DEF Settled
  <2> QED
    BY <2>1, <2>3
<1>3. CASE p.line = HEIGHT
  <2> DEFINE rows == Append(Tail(p.rows), BlankRow(a))
  <2>1. NextRow(p, a) = [p EXCEPT !.col = 0, !.rows = rows]
    BY <1>1, <1>3 DEF NextRow
  <2>2. Settled(q, a) = [q EXCEPT !.line = HEIGHT, !.rows = rows]
    BY <1>1, <1>3, <1>4 DEF Settled, Scrolled
  <2> HIDE DEF rows
  <2>3. [q EXCEPT !.line = HEIGHT, !.rows = rows] = [p EXCEPT !.col = 0, !.rows = rows]
    BY <1>3 DEF Sheets
  <2> QED
    BY <2>1, <2>2, <2>3
<1> QED
  BY <1>1, <1>2, <1>3

LEMMA AdvancedSettles ==
    ASSUME NEW p \in Sheets, p.line <= HEIGHT, NEW a \in Int
    PROVE  Advanced(p, a) = Settled(Wrapped(p), a)
<1>1. CASE p.col >= WIDTH
  BY <1>1, NextRowSettles DEF Advanced, Wrapped
<1>2. CASE ~(p.col >= WIDTH)
  <2>1. p.line \in Int /\ HEIGHT \in Int /\ ~(p.line > HEIGHT)
    BY ConsoleAssumption DEF Sheets
  <2> QED
    BY <1>2, <2>1 DEF Advanced, Wrapped, Settled
<1> QED
  BY <1>1, <1>2

LEMMA NothingToSettle ==
    ASSUME NEW p \in Sheets, p.line <= HEIGHT, p.col < WIDTH, NEW a \in Int
    PROVE  Settled(Wrapped(p), a) = p
<1>1. p.line \in Int /\ p.col \in Int /\ HEIGHT \in Int /\ WIDTH \in Int
  BY ConsoleAssumption DEF Sheets
<1> QED
  BY <1>1 DEF Settled, Wrapped

(***************************************************************************)
(* A tab writes its cells from left to right.                              *)
(***************************************************************************)
LEMMA TabbedOn ==
    ASSUME NEW p \in Sheets, p.line \in 1 .. HEIGHT, NEW q \in Sheets, NEW c \in Calls,
           p.col < c.eot,
           q.line = p.line, q.col = p.col + 1,
           q.rows = Written(p, p.col, p.col, Cell(SPACE, c.att)).rows
    PROVE  Tabbed(p, c) = Tabbed(q, c)
<1> DEFINE b == Cell(SPACE, c.att)
           r == Written(p, p.col, p.col, b)
           s == Written(p, p.col, c.eot - 1, b)
           t == Written(q, q.col, c.eot - 1, b)
<1>1. /\ c.att \in Int /\ c.eot \in Int /\ p.col \in Int /\ q.col \in Int
      /\ c.eot - 1 \in Int /\ b \in CellRec
  BY CellIsCell DEF Calls, Sheets, SPACE
<1> HIDE DEF b
<1>2. \A y \in 1 .. HEIGHT, x \in 0 .. (WIDTH - 1) :
         r.rows[y][x] = IF y = p.line /\ x \in p.col .. p.col THEN b ELSE p.rows[y][x]
  <2>1. PICK i \in Int, j \in Int : i = p.col /\ j = p.col
    BY <1>1
  <2> DEFINE w == Written(p, i, j, b)
  <2>2. /\ w \in Sheets /\ w.line = p.line /\ w.col = p.col
        /\ \A y \in 1 .. HEIGHT, x \in 0 .. (WIDTH - 1) :
             w.rows[y][x] = IF y = p.line /\ x \in i .. j THEN b ELSE p.rows[y][x]
    BY <1>1, WrittenSheet
  <2> QED
    BY <2>1, <2>2, Zenon
<1>3. /\ s \in Sheets /\ s.line = p.line /\ s.col = p.col
      /\ \A y \in 1 .. HEIGHT, x \in 0 .. (WIDTH - 1) :
           s.rows[y][x] = IF y = p.line /\ x \in p.col .. (c.eot - 1) THEN b ELSE p.rows[y][x]
  BY <1>1, WrittenSheet
<1>4. /\ t \in Sheets /\ t.line = q.line /\ t.col = q.col
      /\ \A y \in 1 .. HEIGHT, x \in 0 .. (WIDTH - 1) :
           t.rows[y][x] = IF y = q.line /\ x \in q.col .. (c.eot - 1) THEN b ELSE q.rows[y][x]
  BY <1>1, WrittenSheet
<1>5. q.rows = r.rows
  BY DEF b
<1>6. \A x \in 0 .. (WIDTH - 1) :
         x \in p.col .. (c.eot - 1) <=> (x \in q.col .. (c.eot - 1) \/ x \in p.col .. p.col)
  BY <1>1, ConsoleAssumption
<1> HIDE DEF r, s, t
<1>7. \A y \in 1 .. HEIGHT, x \in 0 .. (WIDTH - 1) : s.rows[y][x] = t.rows[y][x]
  BY <1>2, <1>3, <1>4, <1>5, <1>6
<1>8. s.rows = t.rows
  BY <1>3, <1>4, <1>7, SameRows DEF Sheets
<1>9. [s EXCEPT !.col = c.eot] = [t EXCEPT !.col = c.eot]
  BY <1>3, <1>4, <1>8 DEF Sheets
<1> QED
  BY <1>9 DEF Tabbed, s, t, b

LEMMA TabbedEnd ==
    ASSUME NEW p \in Sheets, p.line \in 1 .. HEIGHT, NEW c \in Calls, p.col = c.eot
    PROVE  Tabbed(p, c) = p
<1> DEFINE b == Cell(SPACE, c.att)
           s == Written(p, p.col, c.eot - 1, b)
<1>1. c.att \in Int /\ c.eot \in Int /\ p.col \in Int /\ c.eot - 1 \in Int /\ b \in CellRec
  BY CellIsCell DEF Calls, Sheets, SPACE
<1> HIDE DEF b
<1>2. /\ s \in Sheets /\ s.line = p.line /\ s.col = p.col
      /\ \A y \in 1 .. HEIGHT, x \in 0 .. (WIDTH - 1) :
           s.rows[y][x] = IF y = p.line /\ x \in p.col .. (c.eot - 1) THEN b ELSE p.rows[y][x]
  BY <1>1, WrittenSheet
<1>3. \A x \in 0 .. (WIDTH - 1) : x \notin p.col .. (c.eot - 1)
  BY <1>1
<1> HIDE DEF s
<1>4. s = p
  BY <1>2, <1>3, SameSheet
<1>5. [s EXCEPT !.col = c.eot] = s
  BY <1>2 DEF Sheets
<1> QED
  BY <1>4, <1>5 DEF Tabbed, s, b

-----------------------------------------------------------------------------
(* Cells and their places. *)

LEMMA UniqueQuotient ==
    ASSUME NEW n \in Nat \ {0}, NEW a \in Nat, NEW b \in Nat,
           NEW r \in 0 .. (n - 1), NEW s \in 0 .. (n - 1), a * n + r = b * n + s
    PROVE  a = b /\ r = s
<1>1. a * n \in Nat /\ b * n \in Nat
  BY TimesNat
<1>2. ASSUME a < b PROVE FALSE
  <2>1. (a + 1) * n <= b * n
    BY <1>2, TimesMonotonic
  <2>2. (a + 1) * n = a * n + n
    OBVIOUS
  <2> QED
    BY <1>1, <2>1, <2>2
<1>3. ASSUME b < a PROVE FALSE
  <2>1. (b + 1) * n <= a * n
    BY <1>3, TimesMonotonic
  <2>2. (b + 1) * n = b * n + n
    OBVIOUS
  <2> QED
    BY <1>1, <2>1, <2>2
<1> QED
  BY <1>1, <1>2, <1>3

LEMMA SizesNat ==
    /\ WIDTH \in Nat \ {0} /\ HEIGHT \in Nat \ {0} /\ SCREEN \in Nat \ {0}
    /\ \A v \in VCs : v \in Nat /\ fb_adr(v) \in Nat
<1>1. WIDTH \in Nat \ {0} /\ HEIGHT \in Nat \ {0}
  BY ConsoleAssumption
<1>2. WIDTH * HEIGHT \in Nat /\ 1 * HEIGHT <= WIDTH * HEIGHT
  <2>1. 1 \in Nat /\ 1 <= WIDTH
    BY <1>1
  <2> QED
    BY <1>1, <2>1, TimesNat, TimesMonotonic
<1>3. SCREEN \in Nat \ {0}
  BY <1>1, <1>2 DEF SCREEN
<1>4. \A v \in VCs : v \in Nat
  BY ConsoleAssumption DEF VCs
<1> QED
  BY <1>1, <1>3, <1>4, TimesNat DEF fb_adr

LEMMA OwnCell ==
    ASSUME NEW v \in VCs, NEW i \in 0 .. (SCREEN - 1)
    PROVE  /\ fb_adr(v) + i \in Cells /\ fb_adr(v) + i \in OwnCells(v)
           /\ \A u \in VCs : fb_adr(v) + i \in OwnCells(u) => u = v
<1>1. SCREEN \in Nat \ {0} /\ v \in Nat /\ fb_adr(v) \in Nat
  BY SizesNat
<1>2. fb_adr(v) + i \in OwnCells(v)
  BY <1>1 DEF OwnCells
<1>3. fb_adr(v) + i \in Cells
  <2>1. NUM_VCS \in Nat /\ v + 1 <= NUM_VCS
    BY <1>1, ConsoleAssumption DEF VCs
  <2>2. (v + 1) * SCREEN <= NUM_VCS * SCREEN
    BY <1>1, <2>1, TimesMonotonic
  <2>3. (v + 1) * SCREEN = v * SCREEN + SCREEN /\ NUM_VCS * SCREEN \in Nat
        /\ v * SCREEN \in Nat
    BY <1>1, <2>1, TimesNat
  <2> QED
    BY <1>1, <2>2, <2>3 DEF Cells, fb_adr
<1>4. ASSUME NEW u \in VCs, fb_adr(v) + i \in OwnCells(u) PROVE u = v
  <2> DEFINE j == fb_adr(v) + i - fb_adr(u)
  <2>1. u \in Nat /\ fb_adr(u) \in Nat
    BY SizesNat
  <2>2. j \in 0 .. (SCREEN - 1) /\ fb_adr(v) + i = fb_adr(u) + j
    BY <1>1, <1>4, <2>1 DEF OwnCells
  <2> HIDE DEF j
  <2> QED
    BY <1>1, <2>1, <2>2, UniqueQuotient DEF fb_adr
<1> QED
  BY <1>2, <1>3, <1>4

LEMMA OwnIsCell ==
    ASSUME NEW u \in VCs, NEW a \in OwnCells(u)
    PROVE  a \in Cells /\ \A v \in VCs : a \in OwnCells(v) => v = u
<1>1. PICK i \in 0 .. (SCREEN - 1) : a = fb_adr(u) + i
  <2>1. a - fb_adr(u) \in 0 .. (SCREEN - 1) /\ a = fb_adr(u) + (a - fb_adr(u))
    BY SizesNat DEF OwnCells
  <2> QED
    BY <2>1
<1> QED
  BY <1>1, OwnCell

(***************************************************************************)
(* Every place of every console is a cell of its own.                      *)
(***************************************************************************)
LEMMA SpotIsCell ==
    ASSUME NEW v \in VCs, NEW y \in 0 .. (HEIGHT - 1), NEW x \in 0 .. (WIDTH - 1)
    PROVE  /\ Spot(v, y, x) \in Cells /\ Spot(v, y, x) \in OwnCells(v)
           /\ \A u \in VCs : Spot(v, y, x) \in OwnCells(u) => u = v
<1>1. y * WIDTH + x \in 0 .. (SCREEN - 1)
  BY CellOnScreen
<1>2. fb_adr(v) + (y * WIDTH + x) = Spot(v, y, x)
  BY SizesNat, TimesNat DEF Spot
<1> QED
  BY <1>1, <1>2, OwnCell

LEMMA SpotIsUnique ==
    ASSUME NEW v \in VCs, NEW y \in 0 .. (HEIGHT - 1), NEW x \in 0 .. (WIDTH - 1),
           NEW u \in VCs, NEW t \in 0 .. (HEIGHT - 1), NEW z \in 0 .. (WIDTH - 1),
           Spot(u, t, z) = Spot(v, y, x)
    PROVE  u = v /\ t = y /\ z = x
<1>1. u = v
  BY SpotIsCell
<1>2. fb_adr(v) \in Nat /\ WIDTH \in Nat \ {0} /\ t * WIDTH \in Nat /\ y * WIDTH \in Nat
  BY SizesNat, TimesNat
<1>3. t * WIDTH + z = y * WIDTH + x
  BY <1>1, <1>2 DEF Spot
<1> QED
  BY <1>1, <1>2, <1>3, UniqueQuotient

LEMMA ShownSheet ==
    ASSUME NEW f \in Memory, NEW r \in VCRec, NEW v \in VCs
    PROVE  /\ Shown(f, r, v) \in Sheets
           /\ Shown(f, r, v).line = r.csr_y + 1
           /\ Shown(f, r, v).col = r.csr_x
           /\ \A y \in 1 .. HEIGHT, x \in 0 .. (WIDTH - 1) :
                Shown(f, r, v).rows[y][x] = f[Spot(v, y - 1, x)]
<1> DEFINE rows == [y \in 1 .. HEIGHT |->
                      [x \in 0 .. (WIDTH - 1) |-> f[Spot(v, y - 1, x)]]]
<1>1. \A y \in 1 .. HEIGHT, x \in 0 .. (WIDTH - 1) : f[Spot(v, y - 1, x)] \in CellRec
  <2> TAKE y \in 1 .. HEIGHT, x \in 0 .. (WIDTH - 1)
  <2>1. y - 1 \in 0 .. (HEIGHT - 1)
    BY SizesNat
  <2> QED
    BY <2>1, SpotIsCell DEF Memory
<1>2. \A y \in 1 .. HEIGHT : [x \in 0 .. (WIDTH - 1) |-> f[Spot(v, y - 1, x)]]
                               \in [0 .. (WIDTH - 1) -> CellRec]
  BY <1>1
<1>3. rows \in Rows
  BY <1>2 DEF Rows
<1>4. \A y \in 1 .. HEIGHT, x \in 0 .. (WIDTH - 1) : rows[y][x] = f[Spot(v, y - 1, x)]
  OBVIOUS
<1>5. Shown(f, r, v) = [rows |-> rows, line |-> r.csr_y + 1, col |-> r.csr_x]
  BY DEF Shown
<1>6. r.csr_y + 1 \in Int /\ r.csr_x \in Int
  BY DEF VCRec
<1> HIDE DEF rows
<1> QED
  BY <1>3, <1>4, <1>5, <1>6 DEF Sheets

(***************************************************************************)
(* Cells of other consoles are not shown.                                  *)
(***************************************************************************)
LEMMA ShownElsewhere ==
    ASSUME NEW f \in Memory, NEW g \in Memory, NEW r \in VCRec, NEW v \in VCs,
           \A a \in OwnCells(v) : f[a] = g[a]
    PROVE  Shown(f, r, v) = Shown(g, r, v)
<1>1. \A y \in 1 .. HEIGHT, x \in 0 .. (WIDTH - 1) :
         f[Spot(v, y - 1, x)] = g[Spot(v, y - 1, x)]
  <2> TAKE y \in 1 .. HEIGHT, x \in 0 .. (WIDTH - 1)
  <2>1. y - 1 \in 0 .. (HEIGHT - 1)
    BY SizesNat
  <2> QED
    BY <2>1, SpotIsCell
<1> QED
  BY <1>1, ShownSheet, SameSheet

LEMMA ShownStored ==
    ASSUME NEW f \in Memory, NEW r \in VCRec, NEW v \in VCs, NEW cell \in CellRec,
           NEW x \in 0 .. (WIDTH - 1), r.csr_y < HEIGHT,
           NEW g \in Memory,
           \A b \in Cells : g[b] = IF b = Spot(v, r.csr_y, x) THEN cell ELSE f[b]
    PROVE  /\ \A u \in VCs \ {v}, s \in VCRec : Shown(g, s, u) = Shown(f, s, u)
           /\ Shown(g, r, v) = Written(Shown(f, r, v), x, x, cell)
<1>2. r.csr_y \in 0 .. (HEIGHT - 1) /\ r.csr_y + 1 \in 1 .. HEIGHT /\ x \in Int
  BY SizesNat DEF VCRec
<1>3. Spot(v, r.csr_y, x) \in Cells
      /\ \A u \in VCs : Spot(v, r.csr_y, x) \in OwnCells(u) => u = v
  BY <1>2, SpotIsCell
<1>4. ASSUME NEW u \in VCs \ {v}, NEW s \in VCRec PROVE Shown(g, s, u) = Shown(f, s, u)
  <2>1. \A a \in OwnCells(u) : g[a] = f[a]
    <3> TAKE a \in OwnCells(u)
    <3>1. a # Spot(v, r.csr_y, x)
      BY <1>3
    <3>3. a \in Cells
      BY OwnIsCell
    <3> QED
      BY <3>1, <3>3
  <2> QED
    BY <2>1, ShownElsewhere
<1>5. Shown(g, r, v) = Written(Shown(f, r, v), x, x, cell)
  <2> DEFINE p == Shown(f, r, v)
             q == Shown(g, r, v)
             w == Written(p, x, x, cell)
  <2>1. /\ p \in Sheets /\ p.line = r.csr_y + 1 /\ p.col = r.csr_x
        /\ \A t \in 1 .. HEIGHT, z \in 0 .. (WIDTH - 1) : p.rows[t][z] = f[Spot(v, t - 1, z)]
    BY ShownSheet
  <2>2. /\ q \in Sheets /\ q.line = r.csr_y + 1 /\ q.col = r.csr_x
        /\ \A t \in 1 .. HEIGHT, z \in 0 .. (WIDTH - 1) : q.rows[t][z] = g[Spot(v, t - 1, z)]
    BY ShownSheet
  <2> HIDE DEF p, q
  <2>3. /\ w \in Sheets /\ w.line = p.line /\ w.col = p.col
        /\ \A t \in 1 .. HEIGHT, z \in 0 .. (WIDTH - 1) :
             w.rows[t][z] = IF t = p.line /\ z \in x .. x THEN cell ELSE p.rows[t][z]
    BY <1>2, <2>1, WrittenSheet
  <2> HIDE DEF w
  <2>4. \A t \in 1 .. HEIGHT, z \in 0 .. (WIDTH - 1) :
           g[Spot(v, t - 1, z)] = IF t = r.csr_y + 1 /\ z = x THEN cell
                                  ELSE f[Spot(v, t - 1, z)]
    <3> TAKE t \in 1 .. HEIGHT, z \in 0 .. (WIDTH - 1)
    <3>1. t - 1 \in 0 .. (HEIGHT - 1)
      BY SizesNat
    <3>2. Spot(v, t - 1, z) \in Cells
      BY <3>1, SpotIsCell
    <3>3. Spot(v, t - 1, z) = Spot(v, r.csr_y, x) => t - 1 = r.csr_y /\ z = x
      BY <1>2, <3>1, SpotIsUnique
    <3>4. t = r.csr_y + 1 /\ z = x => Spot(v, t - 1, z) = Spot(v, r.csr_y, x)
      <4>1. t = r.csr_y + 1 => t - 1 = r.csr_y
        BY <1>2
      <4> QED
        BY <4>1
    <3>5. t - 1 = r.csr_y => t = r.csr_y + 1
      BY <1>2
    <3> QED
      BY <3>2, <3>3, <3>4, <3>5
  <2>5. \A z \in 0 .. (WIDTH - 1) : z \in x .. x <=> z = x
    BY <1>2, SizesNat
  <2>6. \A t \in 1 .. HEIGHT, z \in 0 .. (WIDTH - 1) : q.rows[t][z] = w.rows[t][z]
    BY <2>1, <2>2, <2>3, <2>4, <2>5
  <2>7. q = w
    BY <2>1, <2>2, <2>3, <2>6, SameSheet
  <2> QED
    BY <2>7 DEF p, q, w
<1> QED
  BY <1>4, <1>5

(***************************************************************************)
(* memcpy and memsetw of scroll move the rows up by one, and blank the     *)
(* last one.                                                               *)
(***************************************************************************)
LEMMA CopiedRow ==
    ASSUME NEW v \in VCs, NEW y \in 0 .. (HEIGHT - 1), NEW x \in 0 .. (WIDTH - 1)
    PROVE  Copied(v, 1, Spot(v, y, x)) =
             IF y < HEIGHT - 1 THEN fb[Spot(v, y + 1, x)] ELSE Cell(SPACE, vc[v].attrib)
<1> DEFINE kept == fb_adr(v) + (HEIGHT - 1) * WIDTH
           last == (HEIGHT - 1) * WIDTH
           yw == y * WIDTH
<1>1. /\ WIDTH \in Nat \ {0} /\ HEIGHT \in Nat \ {0} /\ fb_adr(v) \in Nat
      /\ HEIGHT - 1 \in Nat /\ y \in Nat /\ x \in Nat
  BY SizesNat
<1>2. last \in Nat /\ yw \in Nat /\ (y + 1) * WIDTH = yw + WIDTH
  BY <1>1, TimesNat
<1>3. Copied(v, 1, Spot(v, y, x)) =
        CASE Spot(v, y, x) \in fb_adr(v) .. (kept - 1) -> fb[Spot(v, y, x) + 1 * WIDTH]
          [] Spot(v, y, x) \in kept .. (kept + WIDTH - 1) -> Cell(SPACE, vc[v].attrib)
          [] OTHER -> fb[Spot(v, y, x)]
  BY DEF Copied
<1>4. CASE y < HEIGHT - 1
  <2>1. (y + 1) * WIDTH <= last
    BY <1>1, <1>4, TimesMonotonic
  <2>2. Spot(v, y, x) + 1 * WIDTH = Spot(v, y + 1, x)
    BY <1>1, <1>2 DEF Spot
  <2>3. Spot(v, y, x) \in fb_adr(v) .. (kept - 1)
        /\ Spot(v, y, x) \notin kept .. (kept + WIDTH - 1)
    <3> HIDE DEF last, yw
    <3>1. Spot(v, y, x) = fb_adr(v) + yw + x /\ kept = fb_adr(v) + last
      BY DEF Spot, last, yw
    <3> HIDE DEF kept
    <3> QED
      BY <1>1, <1>2, <2>1, <3>1
  <2> HIDE DEF kept
  <2> QED
    BY <1>3, <1>4, <2>2, <2>3
<1>5. CASE y = HEIGHT - 1
  <2>1. Spot(v, y, x) \notin fb_adr(v) .. (kept - 1)
        /\ Spot(v, y, x) \in kept .. (kept + WIDTH - 1)
    <3> HIDE DEF last
    <3>1. Spot(v, y, x) = fb_adr(v) + last + x /\ kept = fb_adr(v) + last
      BY <1>5 DEF Spot, last
    <3> HIDE DEF kept
    <3> QED
      BY <1>1, <1>2, <3>1
  <2> HIDE DEF kept
  <2>2. ~(y < HEIGHT - 1)
    BY <1>1, <1>5
  <2> QED
    BY <1>3, <2>1, <2>2
<1> QED
  BY <1>1, <1>4, <1>5

LEMMA CopiedElse ==
    ASSUME NEW v \in VCs, NEW u \in VCs, NEW a \in OwnCells(u), u # v
    PROVE  Copied(v, 1, a) = fb[a]
<1> DEFINE kept == fb_adr(v) + (HEIGHT - 1) * WIDTH
           last == (HEIGHT - 1) * WIDTH
<1>1. /\ WIDTH \in Nat \ {0} /\ HEIGHT \in Nat \ {0} /\ SCREEN \in Nat \ {0}
      /\ fb_adr(v) \in Nat /\ fb_adr(u) \in Nat /\ HEIGHT - 1 \in Nat
  BY SizesNat
<1>2. last \in Nat /\ last + WIDTH = SCREEN
  <2>1. (HEIGHT - 1) * WIDTH + WIDTH = HEIGHT * WIDTH /\ HEIGHT * WIDTH = WIDTH * HEIGHT
    BY <1>1
  <2> QED
    BY <1>1, <2>1, TimesNat DEF SCREEN
<1>3. a \notin OwnCells(v)
  BY OwnIsCell
<1> HIDE DEF last
<1>4. kept = fb_adr(v) + last
  BY DEF last
<1> HIDE DEF kept
<1>5. a \notin fb_adr(v) .. (kept - 1) /\ a \notin kept .. (kept + WIDTH - 1)
  BY <1>1, <1>2, <1>3, <1>4 DEF OwnCells
<1> QED
  BY <1>5 DEF Copied, kept

LEMMA CopiedCell ==
    ASSUME fb \in Memory, TypeInv, NEW v \in VCs, NEW a \in Cells
    PROVE  Copied(v, 1, a) \in CellRec
<1> DEFINE kept == fb_adr(v) + (HEIGHT - 1) * WIDTH
           last == (HEIGHT - 1) * WIDTH
<1>1. /\ WIDTH \in Nat \ {0} /\ HEIGHT \in Nat \ {0} /\ SCREEN \in Nat \ {0}
      /\ fb_adr(v) \in Nat /\ HEIGHT - 1 \in Nat
  BY SizesNat
<1>2. last \in Nat /\ last + WIDTH = SCREEN
  <2>1. (HEIGHT - 1) * WIDTH + WIDTH = HEIGHT * WIDTH /\ HEIGHT * WIDTH = WIDTH * HEIGHT
    BY <1>1
  <2> QED
    BY <1>1, <2>1, TimesNat DEF SCREEN
<1>3. Cell(SPACE, vc[v].attrib) \in CellRec
  BY CellIsCell DEF TypeInv, VCRec, SPACE
<1>4. a \in fb_adr(v) .. (kept - 1) => fb[a + 1 * WIDTH] \in CellRec
  <2> SUFFICES ASSUME a \in fb_adr(v) .. (kept - 1) PROVE a + 1 * WIDTH \in Cells
    BY DEF Memory
  <2> DEFINE i == a + WIDTH - fb_adr(v)
  <2>1. kept = fb_adr(v) + last
    OBVIOUS
  <2> HIDE DEF last, kept
  <2>2. i \in 0 .. (SCREEN - 1) /\ a + 1 * WIDTH = fb_adr(v) + i
    BY <1>1, <1>2, <2>1
  <2> HIDE DEF i
  <2> QED
    BY <2>2, OwnCell
<1>5. fb[a] \in CellRec
  BY DEF Memory
<1> QED
  BY <1>3, <1>4, <1>5 DEF Copied

LEMMA ShownScrolled ==
    ASSUME fb \in Memory, TypeInv, NEW v \in VCs, NEW r \in VCRec,
           NEW g \in Memory, \A a \in Cells : g[a] = Copied(v, 1, a)
    PROVE  /\ \A u \in VCs \ {v}, s \in VCRec : Shown(g, s, u) = Shown(fb, s, u)
           /\ Shown(g, r, v).rows =
                Append(Tail(Shown(fb, r, v).rows), BlankRow(vc[v].attrib))
<1> DEFINE p == Shown(fb, r, v)
           q == Shown(g, r, v)
           rows == Append(Tail(p.rows), BlankRow(vc[v].attrib))
<1>2. ASSUME NEW u \in VCs \ {v}, NEW s \in VCRec PROVE Shown(g, s, u) = Shown(fb, s, u)
  <2>1. \A a \in OwnCells(u) : g[a] = fb[a]
    <3> TAKE a \in OwnCells(u)
    <3>1. a \in Cells
      BY OwnIsCell
    <3> QED
      BY <3>1, CopiedElse
  <2> QED
    BY <2>1, ShownElsewhere
<1>3. /\ p \in Sheets /\ p.line = r.csr_y + 1 /\ p.col = r.csr_x
      /\ \A t \in 1 .. HEIGHT, z \in 0 .. (WIDTH - 1) : p.rows[t][z] = fb[Spot(v, t - 1, z)]
  BY ShownSheet
<1>4. /\ q \in Sheets /\ q.line = r.csr_y + 1 /\ q.col = r.csr_x
      /\ \A t \in 1 .. HEIGHT, z \in 0 .. (WIDTH - 1) : q.rows[t][z] = g[Spot(v, t - 1, z)]
  BY ShownSheet
<1> HIDE DEF p, q
<1>6. vc[v].attrib \in Int
  BY DEF TypeInv, VCRec
<1>7. /\ rows \in Rows
      /\ \A t \in 1 .. HEIGHT : rows[t] = IF t < HEIGHT THEN p.rows[t + 1]
                                          ELSE BlankRow(vc[v].attrib)
  BY <1>3, <1>6, RolledRows DEF Sheets
<1> HIDE DEF rows
<1>9. ASSUME NEW t \in 1 .. HEIGHT, NEW z \in 0 .. (WIDTH - 1)
      PROVE  q.rows[t][z] = rows[t][z]
  <2>1. /\ t - 1 \in 0 .. (HEIGHT - 1) /\ HEIGHT \in Nat
        /\ t - 1 < HEIGHT - 1 <=> t < HEIGHT
        /\ t < HEIGHT => t + 1 \in 1 .. HEIGHT
        /\ (t - 1) + 1 = t /\ (t + 1) - 1 = t
    BY SizesNat
  <2>2. Spot(v, t - 1, z) \in Cells
    BY <2>1, SpotIsCell
  <2>3. q.rows[t][z] = Copied(v, 1, Spot(v, t - 1, z))
    BY <1>4, <2>2
  <2>4. Copied(v, 1, Spot(v, t - 1, z)) =
          IF t < HEIGHT THEN fb[Spot(v, t, z)] ELSE Cell(SPACE, vc[v].attrib)
    BY <2>1, CopiedRow
  <2>5. t < HEIGHT => p.rows[t + 1][z] = fb[Spot(v, t, z)]
    BY <1>3, <2>1
  <2>6. BlankRow(vc[v].attrib)[z] = Cell(SPACE, vc[v].attrib)
    BY DEF BlankRow
  <2> QED
    BY <1>7, <2>3, <2>4, <2>5, <2>6
<1>10. q.rows = rows
  BY <1>4, <1>7, <1>9, SameRows DEF Sheets
<1> QED
  BY <1>2, <1>10 DEF p, q, rows

LEMMA ShownCleared ==
    ASSUME fb \in Memory, NEW v \in VCs, NEW r \in VCRec, NEW b \in Int,
           NEW g \in Memory,
           \A a \in Cells : g[a] = IF a \in OwnCells(v) THEN Cell(SPACE, b) ELSE fb[a]
    PROVE  /\ \A u \in VCs \ {v}, s \in VCRec : Shown(g, s, u) = Shown(fb, s, u)
           /\ Shown(g, r, v).rows = BlankRows(b)
<1>3. ASSUME NEW u \in VCs \ {v}, NEW s \in VCRec PROVE Shown(g, s, u) = Shown(fb, s, u)
  <2>1. \A a \in OwnCells(u) : g[a] = fb[a]
    <3> TAKE a \in OwnCells(u)
    <3>1. a \in Cells /\ a \notin OwnCells(v)
      BY OwnIsCell
    <3> QED
      BY <3>1
  <2> QED
    BY <2>1, ShownElsewhere
<1>4. \A y \in 1 .. HEIGHT, x \in 0 .. (WIDTH - 1) : g[Spot(v, y - 1, x)] = Cell(SPACE, b)
  <2> TAKE y \in 1 .. HEIGHT, x \in 0 .. (WIDTH - 1)
  <2>1. y - 1 \in 0 .. (HEIGHT - 1)
    BY SizesNat
  <2> QED
    BY <2>1, SpotIsCell
<1>5. \A y \in 1 .. HEIGHT : [x \in 0 .. (WIDTH - 1) |-> g[Spot(v, y - 1, x)]] = BlankRow(b)
  BY <1>4 DEF BlankRow
<1>6. Shown(g, r, v).rows = BlankRows(b)
  BY <1>5 DEF Shown, BlankRows
<1> QED
  BY <1>3, <1>6

-----------------------------------------------------------------------------
(* The paper and the screen move together. *)

(***************************************************************************)
(* A step of context k at console v, while every other context is idle.    *)
(***************************************************************************)
LEMMA PaperStep ==
    ASSUME Inv, PaperInv, NEW k \in Context, NEW v \in VCs,
           \A j \in Context \ {k} : call[j].at = "idle" /\ call'[j].at = "idle",
           call[k].at = "idle" \/ call[k].con = v,
           fb' \in Memory,
           \A u \in VCs \ {v} : Window(u)' = Window(u) /\ paper'[u] = paper[u],
           call'[k].at = "idle" \/ call'[k].con = v,
           call'[k].at \in Writing => call'[k].att = vc'[v].attrib,
           paper'[v] = Finish(call'[k], Window(v)')
    PROVE  PaperInv'
<1>1. ASSUME NEW j \in Context, call'[j].at \in Writing
      PROVE  call'[j].att = vc'[call'[j].con].attrib
  <2>1. call'[j].at # "idle"
    BY <1>1 DEF Writing
  <2> QED
    BY <1>1, <2>1
<1>2. ASSUME NEW u \in VCs, \A j \in Context : ~Busy(j, u)'
      PROVE  paper'[u] = Window(u)'
  <2>1. CASE u = v
    <3>1. call'[k].at = "idle"
      BY <1>2, <2>1 DEF Busy
    <3>2. Finish(call'[k], Window(v)') = Window(v)'
      BY <3>1 DEF Finish
    <3> QED
      BY <2>1, <3>2
  <2>2. CASE u # v
    <3>1. \A j \in Context : ~Busy(j, u)
      BY <2>2 DEF Busy
    <3>2. paper[u] = Window(u)
      BY <3>1 DEF PaperInv
    <3> QED
      BY <2>2, <3>2
  <2> QED
    BY <2>1, <2>2
<1>3. ASSUME NEW u \in VCs, NEW j \in Context, Busy(j, u)'
      PROVE  paper'[u] = Finish(call'[j], Window(u)')
  <2>1. j = k
    BY <1>3 DEF Busy
  <2>2. u = v
    BY <1>3, <2>1 DEF Busy
  <2> QED
    BY <2>1, <2>2
<1> QED
  BY <1>1, <1>2, <1>3 DEF PaperInv

(***************************************************************************)
(* What a step of the call k does to the paper.                            *)
(***************************************************************************)
PaperTurn(k) ==
    \A u \in VCs :
      paper'[u] = IF u = call[k].con /\ call[k].at = "enter"
                    THEN Typed(paper[u], vc[u], call[k].chr)
                  ELSE paper[u]

LEMMA PaperTurns ==
    ASSUME Inv, PaperNext, NEW k \in Context, NEW c,
           call[k].at # "idle", Runs(k), call' = [call EXCEPT ![k] = c], c.at # "enter"
    PROVE  PaperTurn(k)
<1>1. call'[k] = c /\ \A j \in Context \ {k} : call[j].at = "idle" /\ call'[j].at = "idle"
  BY DEF Inv, TypeInv, OneCall
<1>2. \A j \in Threads : ~Moving(j)
  BY <1>1 DEF Moving, Context
<1>3. \A u \in VCs, j \in Context :
         Taking(j, u) <=> j = k /\ u = call[k].con /\ call[k].at = "enter"
  BY <1>1 DEF Taking, At
<1>4. ASSUME NEW u \in VCs
      PROVE  paper'[u] = IF u = call[k].con /\ call[k].at = "enter"
                           THEN Typed(paper[u], vc[u], call[k].chr)
                         ELSE paper[u]
  <2>1. paper'[u] =
          IF \E j \in Context : Taking(j, u) /\ call'[j].at # "enter"
            THEN LET j == CHOOSE j \in Context : Taking(j, u)
                 IN Typed(paper[u], vc[u], call[j].chr)
          ELSE paper[u]
    <3>1. ~ \E j \in Threads : Moving(j) /\ curr = u
      BY <1>2
    <3> DEFINE Turned(w) ==
                 IF \E j \in Context : Taking(j, w) /\ call'[j].at # "enter"
                   THEN LET j == CHOOSE j \in Context : Taking(j, w)
                        IN Typed(paper[w], vc[w], call[j].chr)
                 ELSE IF \E j \in Threads : Moving(j) /\ curr = w
                   THEN [paper[w] EXCEPT !.col = 0, !.line = 1 + vc'[w].csr_y]
                 ELSE paper[w]
    <3>2. paper' = [w \in VCs |-> Turned(w)]
      BY DEF PaperNext
    <3> HIDE DEF Turned
    <3>3. paper'[u] = Turned(u)
      BY <3>2
    <3> QED
      BY <3>1, <3>3, Zenon DEF Turned
  <2>2. CASE u = call[k].con /\ call[k].at = "enter"
    <3>1. \E j \in Context : Taking(j, u) /\ call'[j].at # "enter"
      BY <1>1, <1>3, <2>2
    <3>2. (CHOOSE j \in Context : Taking(j, u)) = k
      BY <1>3, <2>2
    <3> QED
      BY <2>1, <2>2, <3>1, <3>2
  <2>3. CASE ~(u = call[k].con /\ call[k].at = "enter")
    BY <1>3, <2>1, <2>3
  <2> QED
    BY <2>2, <2>3
<1> QED
  BY <1>4 DEF PaperTurn

(***************************************************************************)
(* A step of putch_help at its console, which shows the sheet p before it. *)
(***************************************************************************)
LEMMA PaperBusy ==
    ASSUME Inv, PaperInv, NEW k \in Context, NEW r \in VCRec, NEW c \in Calls,
           call[k].at # "idle",
           vc' = [vc EXCEPT ![call[k].con] = r],
           call' = [call EXCEPT ![k] = c],
           PaperTurn(k),
           fb' \in Memory,
           \A u \in VCs \ {call[k].con}, s \in VCRec : Shown(fb', s, u) = Shown(fb, s, u),
           c.at = "idle" \/ c.con = call[k].con,
           c.at \in Writing => c.att = r.attrib,
           Finish(c, Shown(fb', r, call[k].con)) =
             IF call[k].at = "enter"
               THEN Typed(Window(call[k].con), Here(k), call[k].chr)
             ELSE Finish(call[k], Window(call[k].con))
    PROVE  PaperInv'
<1>0. PICK v \in VCs : v = call[k].con
  BY DEF Inv, TypeInv, Calls
<1>1. call \in [Context -> Calls] /\ vc \in [VCs -> VCRec]
  BY DEF Inv, TypeInv, Calls
<1>2. call'[k] = c /\ \A j \in Context \ {k} : call[j].at = "idle" /\ call'[j].at = "idle"
  BY <1>1 DEF Inv, OneCall
<1>3. vc'[v] = r /\ \A u \in VCs \ {v} : vc'[u] = vc[u]
  BY <1>0, <1>1
<1>4. Window(v)' = Shown(fb', r, v)
  BY <1>3 DEF Window, Shown, Spot, fb_adr
<1>5. ASSUME NEW u \in VCs \ {v} PROVE Window(u)' = Window(u) /\ paper'[u] = paper[u]
  <2>1. Window(u)' = Shown(fb', vc[u], u)
    BY <1>3 DEF Window, Shown, Spot, fb_adr
  <2> QED
    BY <1>0, <1>1, <2>1 DEF PaperTurn, Window
<1>6. paper[v] = Finish(call[k], Window(v))
  BY <1>0 DEF PaperInv, Busy
<1>7. call[k].at = "enter" => Finish(call[k], Window(v)) = Window(v)
  BY DEF Finish
<1>8. paper'[v] = Finish(c, Shown(fb', r, v))
  BY <1>0, <1>6, <1>7 DEF PaperTurn, Here
<1> QED
  BY <1>0, <1>1, <1>2, <1>3, <1>4, <1>5, <1>8, PaperStep

(***************************************************************************)
(* The same for a call that goes on to label, or that returns.             *)
(***************************************************************************)
LEMMA PaperGoesOn ==
    ASSUME Inv, PaperInv, PaperNext, NEW k \in Context, NEW r \in VCRec,
           NEW label \in Labels \ {"idle", "enter"},
           call[k].at # "idle", Runs(k),
           vc' = [vc EXCEPT ![call[k].con] = r],
           Goto(k, label),
           fb' \in Memory,
           \A u \in VCs \ {call[k].con}, s \in VCRec : Shown(fb', s, u) = Shown(fb, s, u),
           label \in Writing => call[k].att = r.attrib,
           Finish([call[k] EXCEPT !.at = label], Shown(fb', r, call[k].con)) =
             IF call[k].at = "enter"
               THEN Typed(Window(call[k].con), Here(k), call[k].chr)
             ELSE Finish(call[k], Window(call[k].con))
    PROVE  PaperInv'
<1> DEFINE c == [call[k] EXCEPT !.at = label]
<1>1. call[k] \in Calls /\ c \in Calls
  BY Facts
<1>2. c.at = label /\ c.con = call[k].con /\ c.att = call[k].att
  BY <1>1 DEF Calls
<1>3. call' = [call EXCEPT ![k] = c]
  BY DEF Goto
<1> HIDE DEF c
<1>4. PaperTurn(k)
  BY <1>2, <1>3, PaperTurns
<1> QED
  BY <1>1, <1>2, <1>3, <1>4, PaperBusy DEF c

LEMMA PaperReturns ==
    ASSUME Inv, PaperInv, PaperNext, NEW k \in Context, NEW r \in VCRec,
           call[k].at # "idle", Runs(k),
           vc' = [vc EXCEPT ![call[k].con] = r],
           Return(k),
           fb' \in Memory,
           \A u \in VCs \ {call[k].con}, s \in VCRec : Shown(fb', s, u) = Shown(fb, s, u),
           Shown(fb', r, call[k].con) =
             IF call[k].at = "enter"
               THEN Typed(Window(call[k].con), Here(k), call[k].chr)
             ELSE Finish(call[k], Window(call[k].con))
    PROVE  PaperInv'
<1>1. Idle \in Calls /\ Idle.at = "idle" /\ Idle.at \notin Writing
  BY Facts DEF Idle, Writing
<1>2. PaperTurn(k)
  BY <1>1, PaperTurns DEF Return
<1>3. \A w : Finish(Idle, w) = w
  BY <1>1 DEF Finish
<1> QED
  BY <1>1, <1>2, <1>3, PaperBusy DEF Return

LEMMA ShownCursor ==
    ASSUME NEW f, NEW r, NEW s, NEW v PROVE Shown(f, s, v).rows = Shown(f, r, v).rows
  BY DEF Shown

LEMMA SameCursor ==
    ASSUME NEW f, NEW r, NEW s, NEW v, r.csr_x = s.csr_x, r.csr_y = s.csr_y
    PROVE  Shown(f, s, v) = Shown(f, r, v)
  BY DEF Shown

LEMMA TypedControl ==
    ASSUME NEW p \in Sheets, NEW r \in VCRec, NEW c \in Nat, ~InEscape(r, c)
    PROVE  /\ c = LF => Typed(p, r, c) = NextRow(p, r.attrib)
           /\ c = CR => Typed(p, r, c) = [p EXCEPT !.col = 0]
           /\ c < SPACE /\ c \notin {BS, TAB, LF, CR} => Typed(p, r, c) = p
           /\ c = BS /\ ~(p.col > 0) => Typed(p, r, c) = p
<1> USE DEF SPACE, BS, TAB, LF, CR
<1>1. /\ c = LF => Typed(p, r, c) = NextRow(p, r.attrib)
      /\ c = CR => Typed(p, r, c) = [p EXCEPT !.col = 0]
  BY DEF Typed
<1>2. /\ c < SPACE /\ c \notin {BS, TAB, LF, CR} => Typed(p, r, c) = p
      /\ c = BS /\ ~(p.col > 0) => Typed(p, r, c) = p
  BY DEF Typed
<1> QED
  BY <1>1, <1>2

LEMMA TypedGlyph ==
    ASSUME NEW p \in Sheets, NEW r \in VCRec, NEW c \in Nat, ~InEscape(r, c), c >= SPACE
    PROVE  Typed(p, r, c) = Advanced([Written(p, p.col, p.col, Cell(c, r.attrib))
                                        EXCEPT !.col = @ + 1], r.attrib)
  BY DEF Typed, SPACE, BS, TAB, LF, CR

LEMMA TypedBack ==
    ASSUME NEW p \in Sheets, NEW r \in VCRec, NEW c \in Nat, ~InEscape(r, c),
           c = BS, p.col > 0
    PROVE  Typed(p, r, c) = [Written(p, p.col - 1, p.col - 1, Cell(SPACE, r.attrib))
                               EXCEPT !.col = @ - 1]
  BY DEF Typed, SPACE, BS, TAB, LF, CR

LEMMA TypedTab ==
    ASSUME NEW p \in Sheets, NEW r \in VCRec, NEW c \in Nat, ~InEscape(r, c), c = TAB,
           NEW stop, stop = TABSTOP * (p.col \div TABSTOP + 1)
    PROVE  Typed(p, r, c) = Advanced([Written(p, p.col, stop - 1, Cell(SPACE, r.attrib))
                                        EXCEPT !.col = stop], r.attrib)
  BY DEF Typed, SPACE, BS, TAB, LF, CR

LEMMA ParsedCursor ==
    ASSUME NEW r \in VCRec, NEW c \in Nat, InEscape(r, c)
    PROVE  /\ Clears(r, c) => Parsed(r, c).csr_x = 0 /\ Parsed(r, c).csr_y = 0
           /\ ~Clears(r, c) /\ ~(r.esc = 3 /\ c = CSI_H)
                => Parsed(r, c).csr_x = r.csr_x /\ Parsed(r, c).csr_y = r.csr_y
<1> DEFINE n == r.esc - 1
           done == [r EXCEPT !.esc = 0]
<1> USE DEF isdigit, SEMICOLON, CSI_H, CSI_J, CSI_M
<1>1. r.esc \in 1 .. 4 /\ n \in 0 .. 3
  BY DEF VCRec, InEscape
<1>2. CASE Clears(r, c)
  <2>1. n = 1 /\ c = CSI_J /\ r.arg[1] = 2
    BY <1>2 DEF Clears
  <2>2. Parsed(r, c) = [done EXCEPT !.csr_x = 0, !.csr_y = 0]
    BY <2>1 DEF Parsed
  <2> QED
    BY <1>2, <2>2 DEF VCRec
<1>3. CASE ~Clears(r, c) /\ ~(r.esc = 3 /\ c = CSI_H)
  <2>1. ~(n = 1 /\ c = CSI_J /\ r.arg[1] = 2) /\ ~(n = 2 /\ c = CSI_H)
    BY <1>1, <1>3 DEF Clears
  <2>2. CASE n = 0
    <3>1. Parsed(r, c) = [r EXCEPT !.esc = 2, !.arg[1] = 0]
      BY <2>2 DEF Parsed
    <3> QED
      BY <1>3, <3>1 DEF VCRec
  <2>3. CASE n > 0 /\ isdigit(c)
    <3>1. Parsed(r, c) = [r EXCEPT !.arg[n] = 10 * @ + c - 48]
      BY <1>1, <2>3 DEF Parsed
    <3> QED
      BY <1>3, <3>1 DEF VCRec
  <2>4. CASE n \in {1, 2} /\ c = SEMICOLON
    <3>1. Parsed(r, c) = [r EXCEPT !.esc = @ + 1, !.arg[n + 1] = 0]
      BY <1>1, <2>4 DEF Parsed
    <3> QED
      BY <1>3, <3>1 DEF VCRec
  <2>5. CASE n > 0 /\ c = CSI_M
    <3> DEFINE one == SetAttrib(r.attrib, r.arg[1])
               two == SetAttrib(one, r.arg[2])
               a == CASE n = 1 -> one [] n = 2 -> two [] OTHER -> SetAttrib(two, r.arg[3])
    <3>1. Parsed(r, c) = [done EXCEPT !.attrib = a]
      BY <1>1, <2>5 DEF Parsed
    <3> HIDE DEF a
    <3> QED
      BY <1>3, <3>1 DEF VCRec
  <2>6. CASE /\ n # 0 /\ ~(n > 0 /\ isdigit(c)) /\ ~(n \in {1, 2} /\ c = SEMICOLON)
             /\ ~(n > 0 /\ c = CSI_M)
    <3>1. Parsed(r, c) = done
      BY <2>1, <2>6 DEF Parsed
    <3> QED
      BY <1>3, <3>1 DEF VCRec
  <2> QED
    BY <2>2, <2>3, <2>4, <2>5, <2>6
<1> QED
  BY <1>2, <1>3

(***************************************************************************)
(* The console v that the call k prints to, as the record r, and the sheet *)
(* that it shows.                                                          *)
(***************************************************************************)
LEMMA PaperHere ==
    ASSUME Inv, PaperInv, NEW k \in Context, call[k].at # "idle"
    PROVE  \E v \in VCs, r \in VCRec, p \in Sheets :
             /\ v = call[k].con /\ r = Here(k) /\ p = Window(v) /\ p = Shown(fb, r, v)
             /\ p.line = r.csr_y + 1 /\ p.col = r.csr_x
             /\ call[k].at \in Writing => call[k].att = r.attrib
<1>1. PICK v \in VCs, r \in VCRec : v = call[k].con /\ r = Here(k)
  BY Facts
<1>2. fb \in Memory /\ (call[k].at \in Writing => call[k].att = r.attrib)
  BY <1>1 DEF PaperInv, Here
<1>3. Window(v) = Shown(fb, r, v)
  BY <1>1 DEF Window, Here
<1>4. /\ Window(v) \in Sheets
      /\ Window(v).line = r.csr_y + 1 /\ Window(v).col = r.csr_x
  BY <1>2, <1>3, ShownSheet
<1> QED
  BY <1>1, <1>2, <1>3, <1>4

LEMMA PaperEscape ==
    ASSUME Inv, PaperInv, PaperNext, NEW k \in Context, EscapeChar(k)
    PROVE  PaperInv'
<1>1. /\ call[k].at = "enter" /\ call[k].at # "idle" /\ Runs(k) /\ Return(k)
      /\ InEscape(Here(k), call[k].chr)
  BY DEF EscapeChar, At
<1>2. PICK v \in VCs, r \in VCRec, p \in Sheets :
             /\ v = call[k].con /\ r = Here(k) /\ p = Window(v) /\ p = Shown(fb, r, v)
             /\ p.line = r.csr_y + 1 /\ p.col = r.csr_x
             /\ call[k].at \in Writing => call[k].att = r.attrib
  BY <1>1, PaperHere
<1>3. PICK c \in Nat : c = call[k].chr
  BY <1>1, Facts DEF Calls
<1>4. InEscape(r, c) /\ OnScreen(r) /\ fb \in Memory
  BY <1>1, <1>2, <1>3, Facts DEF Fits, PaperInv
<1>5. PICK s \in VCRec : s = Parsed(r, c)
  BY <1>4, ParsedFits
<1>6. vc' = [vc EXCEPT ![call[k].con] = s]
  BY <1>2, <1>3, <1>5 DEF EscapeChar, Here
<1>7. Typed(p, r, c) = TypedEscape(p, r, c)
  BY <1>4 DEF Typed
<1>8. CASE Clears(r, c)
  <2>1. PICK b \in Int : b = r.attrib
    BY DEF VCRec
  <2>2. call[k].att = b
    BY <1>1, <1>2, <2>1 DEF Writing
  <2>3. fb' = [a \in Cells |-> IF a \in OwnCells(v) THEN Cell(SPACE, b) ELSE fb[a]]
    BY <1>2, <1>3, <1>8, <2>2 DEF EscapeChar
  <2>4. fb' \in Memory
    BY <1>4, <2>3, CellIsCell DEF Memory, SPACE
  <2>5. /\ \A u \in VCs \ {v}, q \in VCRec : Shown(fb', q, u) = Shown(fb, q, u)
        /\ Shown(fb', s, v).rows = BlankRows(b)
    <3>1. \A a \in Cells : fb'[a] = IF a \in OwnCells(v) THEN Cell(SPACE, b) ELSE fb[a]
      BY <2>3
    <3> QED
      BY <1>4, <2>4, <3>1, ShownCleared
  <2>6. s.csr_x = 0 /\ s.csr_y = 0
    BY <1>4, <1>5, <1>8, ParsedCursor
  <2>7. Shown(fb', s, v) = Typed(p, r, c)
    <3>1. Typed(p, r, c) = [p EXCEPT !.line = 1, !.col = 0, !.rows = BlankRows(b)]
      <4>1. Typed(p, r, c) = [p EXCEPT !.line = 1, !.col = 0, !.rows = BlankRows(r.attrib)]
        <5>1. ~(r.esc = 3 /\ c = CSI_H)
          BY <1>8 DEF Clears
        <5> QED
          BY <1>7, <1>8, <5>1, Zenon DEF TypedEscape
      <4> QED
        BY <2>1, <4>1, Zenon
    <3>2. PICK q \in Sheets : q = Shown(fb', s, v)
      BY <2>4, ShownSheet
    <3>3. q.line = 1 /\ q.col = 0 /\ q.rows = BlankRows(b)
      BY <2>4, <2>5, <2>6, <3>2, ShownSheet
    <3> QED
      BY <3>1, <3>2, <3>3 DEF Sheets
  <2> QED
    BY <1>1, <1>2, <1>3, <1>6, <2>4, <2>5, <2>7, PaperReturns
<1>9. CASE ~Clears(r, c)
  <2>1. fb' = fb
    BY <1>2, <1>3, <1>9 DEF EscapeChar
  <2>2. Shown(fb, s, v) = Typed(p, r, c)
    <3>1. CASE r.esc = 3 /\ c = CSI_H
      <4>1. Typed(p, r, c) = [p EXCEPT !.col = s.csr_x, !.line = 1 + s.csr_y]
        BY <1>5, <1>7, <1>9, <3>1, Zenon DEF TypedEscape
      <4>2. PICK q \in Sheets : q = Shown(fb, s, v)
        BY <1>4, ShownSheet
      <4>3. q.line = 1 + s.csr_y /\ q.col = s.csr_x /\ q.rows = p.rows
        BY <1>2, <1>4, <4>2, ShownSheet, ShownCursor DEF VCRec
      <4> QED
        BY <4>1, <4>2, <4>3 DEF Sheets
    <3>2. CASE ~(r.esc = 3 /\ c = CSI_H)
      <4>1. s.csr_x = r.csr_x /\ s.csr_y = r.csr_y
        BY <1>4, <1>5, <1>9, <3>2, ParsedCursor
      <4>2. Typed(p, r, c) = p
        BY <1>7, <1>9, <3>2 DEF TypedEscape
      <4> QED
        BY <1>2, <4>1, <4>2, SameCursor
    <3> QED
      BY <3>1, <3>2
  <2> QED
    BY <1>1, <1>2, <1>3, <1>4, <1>6, <2>1, <2>2, PaperReturns
<1> QED
  BY <1>8, <1>9

LEMMA Finishes ==
    ASSUME NEW c \in Calls, NEW w
    PROVE  /\ Finish([c EXCEPT !.at = "tab"], w) = Settled(Wrapped(Tabbed(w, c)), c.att)
           /\ Finish([c EXCEPT !.at = "advance"], w)
                = Settled(Wrapped([w EXCEPT !.col = @ + 1]), c.att)
           /\ Finish([c EXCEPT !.at = "wrap"], w) = Settled(Wrapped(w), c.att)
           /\ Finish([c EXCEPT !.at = "scroll"], w) = Settled(w, c.att)
           /\ Finish([c EXCEPT !.at = "copy"], w) = Scrolled(w, c.att)
           /\ Finish([c EXCEPT !.at = "set_row"], w) = [w EXCEPT !.line = HEIGHT]
<1>1. ASSUME NEW d, d.att = c.att
      PROVE  /\ d.at = "tab" => Finish(d, w) = Settled(Wrapped(Tabbed(w, d)), c.att)
             /\ d.at = "advance" => Finish(d, w) = Settled(Wrapped([w EXCEPT !.col = @ + 1]), c.att)
             /\ d.at = "wrap" => Finish(d, w) = Settled(Wrapped(w), c.att)
             /\ d.at = "scroll" => Finish(d, w) = Settled(w, c.att)
             /\ d.at = "copy" => Finish(d, w) = Scrolled(w, c.att)
             /\ d.at = "set_row" => Finish(d, w) = [w EXCEPT !.line = HEIGHT]
  <2>1. /\ d.at = "tab" => Finish(d, w) = Settled(Wrapped(Tabbed(w, d)), d.att)
        /\ d.at = "advance" => Finish(d, w) = Settled(Wrapped([w EXCEPT !.col = @ + 1]), d.att)
        /\ d.at = "wrap" => Finish(d, w) = Settled(Wrapped(w), d.att)
        /\ d.at = "scroll" => Finish(d, w) = Settled(w, d.att)
        /\ d.at = "copy" => Finish(d, w) = Scrolled(w, d.att)
        /\ d.at = "set_row" => Finish(d, w) = [w EXCEPT !.line = HEIGHT]
    BY DEF Finish
  <2> QED
    BY <1>1, <2>1
<1>2. ASSUME NEW label \in Labels
      PROVE  /\ [c EXCEPT !.at = label].at = label
             /\ [c EXCEPT !.at = label].att = c.att
             /\ [c EXCEPT !.at = label].eot = c.eot
  BY DEF Calls
<1>3. {"tab", "advance", "wrap", "scroll", "copy", "set_row"} \subseteq Labels
  BY DEF Labels
<1>4. Tabbed(w, [c EXCEPT !.at = "tab"]) = Tabbed(w, c)
  BY <1>2, <1>3 DEF Tabbed
<1>5. Finish([c EXCEPT !.at = "tab"], w) = Settled(Wrapped(Tabbed(w, c)), c.att)
  <2>1. PICK d : d = [c EXCEPT !.at = "tab"]
    OBVIOUS
  <2>2. d.at = "tab" /\ d.att = c.att
    BY <1>2, <1>3, <2>1
  <2> QED
    BY <1>1, <1>4, <2>1, <2>2, Zenon
<1>6. Finish([c EXCEPT !.at = "advance"], w)
        = Settled(Wrapped([w EXCEPT !.col = @ + 1]), c.att)
  <2>1. PICK d : d = [c EXCEPT !.at = "advance"]
    OBVIOUS
  <2>2. d.at = "advance" /\ d.att = c.att
    BY <1>2, <1>3, <2>1
  <2> QED
    BY <1>1, <2>1, <2>2, Zenon
<1>7. Finish([c EXCEPT !.at = "wrap"], w) = Settled(Wrapped(w), c.att)
  <2>1. PICK d : d = [c EXCEPT !.at = "wrap"]
    OBVIOUS
  <2>2. d.at = "wrap" /\ d.att = c.att
    BY <1>2, <1>3, <2>1
  <2> QED
    BY <1>1, <2>1, <2>2, Zenon
<1>8. Finish([c EXCEPT !.at = "scroll"], w) = Settled(w, c.att)
  <2>1. PICK d : d = [c EXCEPT !.at = "scroll"]
    OBVIOUS
  <2>2. d.at = "scroll" /\ d.att = c.att
    BY <1>2, <1>3, <2>1
  <2> QED
    BY <1>1, <2>1, <2>2, Zenon
<1>9. Finish([c EXCEPT !.at = "copy"], w) = Scrolled(w, c.att)
  BY <1>1, <1>2, <1>3, Zenon
<1>10. Finish([c EXCEPT !.at = "set_row"], w) = [w EXCEPT !.line = HEIGHT]
  BY <1>1, <1>2, <1>3, Zenon
<1> QED
  BY <1>5, <1>6, <1>7, <1>8, <1>9, <1>10

LEMMA StoredOn ==
    ASSUME fb \in Memory, NEW v \in VCs, NEW r \in VCRec, r.csr_y < HEIGHT,
           NEW x \in 0 .. (WIDTH - 1), NEW cell \in CellRec,
           Store(Spot(v, r.csr_y, x), cell)
    PROVE  /\ fb' \in Memory
           /\ \A u \in VCs \ {v}, s \in VCRec : Shown(fb', s, u) = Shown(fb, s, u)
           /\ \A q \in VCRec :
                Shown(fb', q, v).rows = Written(Shown(fb, r, v), x, x, cell).rows
<1>1. fb' \in Memory
  BY DEF Store, Memory
<1>2. \A b \in Cells : fb'[b] = IF b = Spot(v, r.csr_y, x) THEN cell ELSE fb[b]
  BY DEF Store
<1>3. /\ \A u \in VCs \ {v}, s \in VCRec : Shown(fb', s, u) = Shown(fb, s, u)
      /\ Shown(fb', r, v) = Written(Shown(fb, r, v), x, x, cell)
  BY <1>1, <1>2, ShownStored
<1> QED
  BY <1>1, <1>3, ShownCursor

(***************************************************************************)
(* A character that is not part of an escape sequence, and the sheet that  *)
(* its console shows.                                                      *)
(***************************************************************************)
LEMMA PaperPlain ==
    ASSUME Inv, PaperInv, NEW k \in Context, Plain(k)
    PROVE  \E v \in VCs, r \in VCRec, p \in Sheets, c \in Nat :
             /\ v = call[k].con /\ r = Here(k) /\ p = Window(v) /\ p = Shown(fb, r, v)
             /\ c = call[k].chr /\ ~InEscape(r, c)
             /\ p.line = r.csr_y + 1 /\ p.col = r.csr_x
             /\ p.line \in 1 .. HEIGHT /\ p.col \in 0 .. (WIDTH - 1)
             /\ call[k].att = r.attrib
<1>1. call[k].at = "enter" /\ call[k].at # "idle" /\ ~InEscape(Here(k), call[k].chr)
  BY DEF Plain, At
<1>2. PICK v \in VCs, r \in VCRec, p \in Sheets :
             /\ v = call[k].con /\ r = Here(k) /\ p = Window(v) /\ p = Shown(fb, r, v)
             /\ p.line = r.csr_y + 1 /\ p.col = r.csr_x
             /\ call[k].at \in Writing => call[k].att = r.attrib
  BY <1>1, PaperHere
<1>3. call[k].chr \in Nat /\ OnScreen(r)
  BY <1>1, <1>2, Facts DEF Calls, Fits
<1>4. p.line \in 1 .. HEIGHT /\ p.col \in 0 .. (WIDTH - 1)
  BY <1>2, <1>3, SizesNat DEF OnScreen, VCRec
<1>5. call[k].att = r.attrib
  BY <1>1, <1>2 DEF Writing
<1> QED
  BY <1>1, <1>2, <1>3, <1>4, <1>5

LEMMA PaperWraps ==
    ASSUME Inv, PaperInv, PaperNext, NEW k \in Context, Plain(k),
           NEW q \in VCRec, q.attrib = Here(k).attrib, call[k].att = q.attrib,
           vc' = [vc EXCEPT ![call[k].con] = q], Goto(k, "wrap"), fb' \in Memory,
           \A u \in VCs \ {call[k].con}, s \in VCRec : Shown(fb', s, u) = Shown(fb, s, u),
           Settled(Wrapped(Shown(fb', q, call[k].con)), q.attrib)
             = Typed(Window(call[k].con), Here(k), call[k].chr)
    PROVE  PaperInv'
<1>1. call[k].at = "enter" /\ call[k].at # "idle" /\ Runs(k)
  BY DEF Plain, At
<1>2. call[k] \in Calls
  BY <1>1, Facts
<1>3. Finish([call[k] EXCEPT !.at = "wrap"], Shown(fb', q, call[k].con))
        = Settled(Wrapped(Shown(fb', q, call[k].con)), q.attrib)
  <2>1. PICK w : w = Shown(fb', q, call[k].con)
    OBVIOUS
  <2>2. Finish([call[k] EXCEPT !.at = "wrap"], w) = Settled(Wrapped(w), call[k].att)
    BY <1>2, Finishes, Zenon
  <2> QED
    BY <2>1, <2>2
<1>4. PICK label \in Labels \ {"idle", "enter"} : label = "wrap"
  BY DEF Labels
<1> QED
  BY <1>1, <1>3, <1>4, PaperGoesOn

LEMMA PaperControls ==
    ASSUME Inv, PaperInv, PaperNext, NEW k \in Context,
           EscStart(k) \/ LineFeed(k) \/ CarriageReturn(k) \/ OtherControl(k)
    PROVE  PaperInv'
<1>1. Plain(k) /\ call[k].at = "enter" /\ call[k].at # "idle" /\ Runs(k)
  BY DEF EscStart, LineFeed, CarriageReturn, OtherControl, Plain, At
<1>2. PICK v \in VCs, r \in VCRec, p \in Sheets, c \in Nat :
             /\ v = call[k].con /\ r = Here(k) /\ p = Window(v) /\ p = Shown(fb, r, v)
             /\ c = call[k].chr /\ ~InEscape(r, c)
             /\ p.line = r.csr_y + 1 /\ p.col = r.csr_x
             /\ p.line \in 1 .. HEIGHT /\ p.col \in 0 .. (WIDTH - 1)
             /\ call[k].att = r.attrib
  BY <1>1, PaperPlain
<1>3. /\ r.attrib \in Int /\ fb \in Memory /\ call[k] \in Calls
      /\ p.line <= HEIGHT /\ p.col < WIDTH
      /\ r.csr_y \in Nat /\ r.csr_x \in Nat
      /\ WIDTH \in Nat \ {0} /\ HEIGHT \in Nat \ {0}
  BY <1>1, <1>2, SizesNat, Facts DEF VCRec, PaperInv
<1>4. ASSUME NEW q \in VCRec
      PROVE  \E w \in Sheets : /\ w = Shown(fb, q, v) /\ w.rows = p.rows
                               /\ w.line = q.csr_y + 1 /\ w.col = q.csr_x
  BY <1>2, <1>3, ShownSheet, ShownCursor
<1>6. CASE EscStart(k)
  <2>1. PICK e \in 0 .. 4 : e = 1
    OBVIOUS
  <2>2. PICK q \in VCRec : q = [r EXCEPT !.esc = e]
    BY DEF VCRec
  <2>3. vc' = [vc EXCEPT ![call[k].con] = q] /\ fb' = fb /\ Return(k)
    BY <1>2, <1>6, <2>1, <2>2 DEF EscStart, Here
  <2>4. q.csr_x = r.csr_x /\ q.csr_y = r.csr_y
    BY <2>2 DEF VCRec
  <2>5. Shown(fb, q, v) = p
    BY <1>2, <2>4, SameCursor
  <2>6. c = ESC
    BY <1>2, <1>6 DEF EscStart
  <2>7. Typed(p, r, c) = p
    BY <1>2, <2>6, TypedControl DEF ESC, SPACE, BS, TAB, LF, CR
  <2> QED
    BY <1>1, <1>2, <1>3, <2>3, <2>5, <2>7, PaperReturns
<1>7. CASE LineFeed(k)
  <2>1. PICK x \in Nat, y \in Nat : x = 0 /\ y = r.csr_y + 1
    BY <1>3
  <2>2. PICK q \in VCRec : q = [r EXCEPT !.esc = 0, !.csr_x = x, !.csr_y = y]
    BY Rebuilt
  <2>3. vc' = [vc EXCEPT ![call[k].con] = q] /\ fb' = fb /\ Goto(k, "wrap")
    BY <1>2, <1>7, <2>1, <2>2 DEF LineFeed, Here
  <2>4. q.csr_x = 0 /\ q.csr_y = r.csr_y + 1 /\ q.attrib = r.attrib
    BY <2>1, <2>2 DEF VCRec
  <2>5. c = LF
    BY <1>2, <1>7 DEF LineFeed
  <2>6. Typed(p, r, c) = Settled([p EXCEPT !.col = 0, !.line = @ + 1], r.attrib)
    <3>1. Typed(p, r, c) = NextRow(p, r.attrib)
      BY <1>2, <2>5, TypedControl
    <3>2. PICK a \in Int : a = r.attrib
      BY <1>3
    <3>3. NextRow(p, a) = Settled([p EXCEPT !.col = 0, !.line = @ + 1], a)
      BY <1>3, NextRowSettles
    <3> QED
      BY <3>1, <3>2, <3>3, Zenon
  <2>7. PICK w \in Sheets : /\ w = Shown(fb, q, v) /\ w.rows = p.rows
                            /\ w.line = q.csr_y + 1 /\ w.col = q.csr_x
    BY <1>4
  <2>8. Settled(Wrapped(w), r.attrib) = Typed(p, r, c)
    <3>1. w = [p EXCEPT !.col = 0, !.line = @ + 1]
      BY <1>2, <2>4, <2>7 DEF Sheets
    <3>2. Wrapped(w) = w
      BY <1>3, <2>4, <2>7 DEF Wrapped
    <3> QED
      BY <2>6, <3>1, <3>2
  <2>9. Settled(Wrapped(Shown(fb', q, call[k].con)), q.attrib)
          = Typed(Window(call[k].con), Here(k), call[k].chr)
    BY <1>2, <2>3, <2>4, <2>7, <2>8
  <2> QED
    BY <1>1, <1>2, <1>3, <2>3, <2>4, <2>9, PaperWraps
<1>8. CASE CarriageReturn(k)
  <2>1. PICK x \in Nat : x = 0
    OBVIOUS
  <2>2. PICK q \in VCRec : q = [r EXCEPT !.esc = 0, !.csr_x = x]
    BY Rebuilt, <1>3
  <2>3. vc' = [vc EXCEPT ![call[k].con] = q] /\ fb' = fb /\ Goto(k, "wrap")
    BY <1>2, <1>8, <2>1, <2>2 DEF CarriageReturn, Here
  <2>4. q.csr_x = 0 /\ q.csr_y = r.csr_y /\ q.attrib = r.attrib
    BY <2>1, <2>2 DEF VCRec
  <2>5. c = CR
    BY <1>2, <1>8 DEF CarriageReturn
  <2>6. Typed(p, r, c) = [p EXCEPT !.col = 0]
    BY <1>2, <2>5, TypedControl
  <2>7. PICK w \in Sheets : /\ w = Shown(fb, q, v) /\ w.rows = p.rows
                            /\ w.line = q.csr_y + 1 /\ w.col = q.csr_x
    BY <1>4
  <2>8. Settled(Wrapped(w), r.attrib) = Typed(p, r, c)
    <3>1. w = [p EXCEPT !.col = 0]
      BY <1>2, <2>4, <2>7 DEF Sheets
    <3>2. w.col < WIDTH /\ w.line <= HEIGHT
      BY <1>2, <1>3, <2>4, <2>7
    <3>3. Settled(Wrapped(w), r.attrib) = w
      BY <1>3, <3>2, NothingToSettle
    <3> QED
      BY <2>6, <3>1, <3>3
  <2>9. Settled(Wrapped(Shown(fb', q, call[k].con)), q.attrib)
          = Typed(Window(call[k].con), Here(k), call[k].chr)
    BY <1>2, <2>3, <2>4, <2>7, <2>8
  <2> QED
    BY <1>1, <1>2, <1>3, <2>3, <2>4, <2>9, PaperWraps
<1>9. CASE OtherControl(k)
  <2>1. PICK e \in 0 .. 4 : e = 0
    OBVIOUS
  <2>2. PICK q \in VCRec : q = [r EXCEPT !.esc = e]
    BY DEF VCRec
  <2>3. vc' = [vc EXCEPT ![call[k].con] = q] /\ fb' = fb /\ Goto(k, "wrap")
    BY <1>2, <1>9, <2>1, <2>2 DEF OtherControl, Here
  <2>4. q.csr_x = r.csr_x /\ q.csr_y = r.csr_y /\ q.attrib = r.attrib
    BY <2>2 DEF VCRec
  <2>5. c < SPACE /\ c \notin {BS, TAB, LF, CR}
    BY <1>2, <1>9 DEF OtherControl, SPACE
  <2>6. Typed(p, r, c) = p
    BY <1>2, <2>5, TypedControl
  <2>7. PICK w \in Sheets : /\ w = Shown(fb, q, v) /\ w.rows = p.rows
                            /\ w.line = q.csr_y + 1 /\ w.col = q.csr_x
    BY <1>4
  <2>8. Settled(Wrapped(w), r.attrib) = Typed(p, r, c)
    <3>1. w = p
      BY <1>2, <2>4, <2>7 DEF Sheets
    <3>3. Settled(Wrapped(w), r.attrib) = w
      BY <1>3, <3>1, NothingToSettle
    <3> QED
      BY <2>6, <3>1, <3>3
  <2>9. Settled(Wrapped(Shown(fb', q, call[k].con)), q.attrib)
          = Typed(Window(call[k].con), Here(k), call[k].chr)
    BY <1>2, <2>3, <2>4, <2>7, <2>8
  <2> QED
    BY <1>1, <1>2, <1>3, <2>3, <2>4, <2>9, PaperWraps
<1> QED
  BY <1>6, <1>7, <1>8, <1>9

LEMMA PaperBackspace ==
    ASSUME Inv, PaperInv, PaperNext, NEW k \in Context, Backspace(k)
    PROVE  PaperInv'
<1>1. /\ Plain(k) /\ call[k].at = "enter" /\ call[k].at # "idle" /\ Runs(k)
      /\ Goto(k, "wrap") /\ call[k].chr = BS
  BY DEF Backspace, Plain, At
<1>2. PICK v \in VCs, r \in VCRec, p \in Sheets, c \in Nat :
             /\ v = call[k].con /\ r = Here(k) /\ p = Window(v) /\ p = Shown(fb, r, v)
             /\ c = call[k].chr /\ ~InEscape(r, c)
             /\ p.line = r.csr_y + 1 /\ p.col = r.csr_x
             /\ p.line \in 1 .. HEIGHT /\ p.col \in 0 .. (WIDTH - 1)
             /\ call[k].att = r.attrib
  BY <1>1, PaperPlain
<1>3. /\ r.attrib \in Int /\ fb \in Memory /\ call[k] \in Calls
      /\ p.line <= HEIGHT /\ p.col < WIDTH /\ r.csr_y < HEIGHT
      /\ r.csr_y \in Nat /\ r.csr_x \in Nat
      /\ WIDTH \in Nat \ {0} /\ HEIGHT \in Nat \ {0}
  BY <1>1, <1>2, SizesNat, Facts DEF VCRec, PaperInv
<1>4. CASE r.csr_x = 0
  <2>1. PICK e \in 0 .. 4 : e = 0
    OBVIOUS
  <2>2. PICK q \in VCRec : q = [r EXCEPT !.esc = e]
    BY DEF VCRec
  <2>3. vc' = [vc EXCEPT ![call[k].con] = q] /\ fb' = fb
    BY <1>2, <1>4, <2>1, <2>2 DEF Backspace, Here
  <2>4. q.csr_x = r.csr_x /\ q.csr_y = r.csr_y /\ q.attrib = r.attrib
    BY <2>2 DEF VCRec
  <2>5. Typed(p, r, c) = p
    BY <1>1, <1>2, <1>4, TypedControl
  <2>6. Shown(fb, q, v) = p
    BY <1>2, <2>4, SameCursor
  <2>7. Settled(Wrapped(p), r.attrib) = p
    BY <1>3, NothingToSettle
  <2>8. Settled(Wrapped(Shown(fb', q, call[k].con)), q.attrib)
          = Typed(Window(call[k].con), Here(k), call[k].chr)
    BY <1>2, <2>3, <2>4, <2>5, <2>6, <2>7
  <2> QED
    BY <1>1, <1>2, <1>3, <2>3, <2>4, <2>8, PaperWraps
<1>5. CASE r.csr_x # 0
  <2>1. PICK x \in 0 .. (WIDTH - 1) : x = r.csr_x - 1
    BY <1>2, <1>3, <1>5
  <2>2. PICK q \in VCRec : q = [r EXCEPT !.esc = 0, !.csr_x = x]
    <3>1. PICK y \in Nat : y = x
      BY <2>1
    <3>2. [r EXCEPT !.esc = 0, !.csr_x = y] \in VCRec
      BY Rebuilt, Zenon
    <3> QED
      BY <3>1, <3>2
  <2>3. vc' = [vc EXCEPT ![call[k].con] = q]
    BY <1>2, <1>5, <2>1, <2>2 DEF Backspace, Here
  <2>4. q.csr_x = x /\ q.csr_y = r.csr_y /\ q.attrib = r.attrib
    BY <2>2 DEF VCRec
  <2>5. Store(Spot(v, r.csr_y, x), Cell(SPACE, r.attrib))
    <3>1. Store(Cursor(v) - 1, Cell(SPACE, r.attrib))
      BY <1>2, <1>5 DEF Backspace
    <3>2. Cursor(v) - 1 = Spot(v, r.csr_y, x)
      <4>1. r.csr_y * WIDTH \in Int /\ fb_adr(v) \in Int
        BY <1>3, SizesNat
      <4>2. Cursor(v) = fb_adr(v) + r.csr_y * WIDTH + r.csr_x
        BY <1>2 DEF Cursor, Here
      <4> QED
        BY <1>3, <2>1, <4>1, <4>2 DEF Spot
    <3> QED
      BY <3>1, <3>2
  <2>6. PICK cell \in CellRec : cell = Cell(SPACE, r.attrib)
    BY <1>3, CellIsCell DEF SPACE
  <2>7. /\ fb' \in Memory
        /\ \A u \in VCs \ {v}, s \in VCRec : Shown(fb', s, u) = Shown(fb, s, u)
        /\ Shown(fb', q, v).rows = Written(p, x, x, cell).rows
    BY <1>2, <1>3, <2>5, <2>6, StoredOn
  <2>8. PICK w \in Sheets : /\ w = Shown(fb', q, v)
                            /\ w.line = p.line /\ w.col = x
    BY <1>2, <2>4, <2>7, ShownSheet
  <2>9. PICK o \in Sheets : /\ o = Written(p, x, x, cell)
                            /\ o.line = p.line /\ o.col = p.col
    BY <1>2, WrittenSheet
  <2>10. Typed(p, r, c) = w
    <3>1. Typed(p, r, c) = [Written(p, p.col - 1, p.col - 1, Cell(SPACE, r.attrib))
                              EXCEPT !.col = @ - 1]
      BY <1>1, <1>2, <1>3, <1>5, TypedBack
    <3>2. p.col - 1 = x
      BY <1>2, <2>1
    <3>3. Typed(p, r, c) = [o EXCEPT !.col = @ - 1]
      BY <2>6, <2>9, <3>1, <3>2
    <3> QED
      BY <2>7, <2>8, <2>9, <3>2, <3>3 DEF Sheets
  <2>11. Settled(Wrapped(w), r.attrib) = w
    BY <1>3, <2>1, <2>8, NothingToSettle
  <2>12. Settled(Wrapped(Shown(fb', q, call[k].con)), q.attrib)
          = Typed(Window(call[k].con), Here(k), call[k].chr)
    BY <1>2, <2>4, <2>8, <2>10, <2>11
  <2> QED
    BY <1>1, <1>2, <1>3, <2>3, <2>4, <2>7, <2>12, PaperWraps
<1> QED
  BY <1>4, <1>5

LEMMA PaperGlyph ==
    ASSUME Inv, PaperInv, PaperNext, NEW k \in Context, PutGlyph(k)
    PROVE  PaperInv'
<1>1. /\ Plain(k) /\ call[k].at = "enter" /\ call[k].at # "idle" /\ Runs(k)
      /\ Goto(k, "advance") /\ call[k].chr >= SPACE
  BY DEF PutGlyph, Plain, At
<1>2. PICK v \in VCs, r \in VCRec, p \in Sheets, c \in Nat :
             /\ v = call[k].con /\ r = Here(k) /\ p = Window(v) /\ p = Shown(fb, r, v)
             /\ c = call[k].chr /\ ~InEscape(r, c)
             /\ p.line = r.csr_y + 1 /\ p.col = r.csr_x
             /\ p.line \in 1 .. HEIGHT /\ p.col \in 0 .. (WIDTH - 1)
             /\ call[k].att = r.attrib
  BY <1>1, PaperPlain
<1>3. /\ r.attrib \in Int /\ fb \in Memory /\ call[k] \in Calls
      /\ p.line <= HEIGHT /\ p.col < WIDTH /\ r.csr_y < HEIGHT
      /\ r.csr_y \in Nat /\ r.csr_x \in 0 .. (WIDTH - 1)
      /\ WIDTH \in Nat \ {0} /\ HEIGHT \in Nat \ {0}
  BY <1>1, <1>2, SizesNat, Facts DEF VCRec, PaperInv
<1>4. PICK e \in 0 .. 4 : e = 0
  OBVIOUS
<1>5. PICK q \in VCRec : q = [r EXCEPT !.esc = e]
  BY DEF VCRec
<1>6. vc' = [vc EXCEPT ![call[k].con] = q]
  BY <1>2, <1>4, <1>5 DEF PutGlyph, Here
<1>7. q.csr_x = r.csr_x /\ q.csr_y = r.csr_y /\ q.attrib = r.attrib
  BY <1>5 DEF VCRec
<1>8. PICK cell \in CellRec : cell = Cell(c, r.attrib)
  BY <1>3, CellIsCell
<1>9. Store(Spot(v, r.csr_y, r.csr_x), cell)
  <2>1. Store(Cursor(v), cell)
    BY <1>2, <1>8 DEF PutGlyph
  <2> QED
    BY <1>2, <2>1 DEF Cursor, Spot, Here
<1>10. /\ fb' \in Memory
       /\ \A u \in VCs \ {v}, s \in VCRec : Shown(fb', s, u) = Shown(fb, s, u)
       /\ Shown(fb', q, v).rows = Written(p, p.col, p.col, cell).rows
  BY <1>2, <1>3, <1>9, StoredOn
<1>11. PICK w \in Sheets : /\ w = Shown(fb', q, v)
                           /\ w.line = p.line /\ w.col = p.col
  BY <1>2, <1>7, <1>10, ShownSheet
<1>12. Written(p, p.col, p.col, cell) = w
  <2>1. PICK o \in Sheets : /\ o = Written(p, p.col, p.col, cell)
                            /\ o.line = p.line /\ o.col = p.col
    BY <1>2, WrittenSheet
  <2> QED
    BY <1>10, <1>11, <2>1 DEF Sheets
<1>13. Typed(p, r, c) = Settled(Wrapped([w EXCEPT !.col = @ + 1]), r.attrib)
  <2>1. Typed(p, r, c) = Advanced([Written(p, p.col, p.col, Cell(c, r.attrib))
                                     EXCEPT !.col = @ + 1], r.attrib)
    BY <1>1, <1>2, TypedGlyph
  <2>2. PICK o : o = [w EXCEPT !.col = @ + 1]
    OBVIOUS
  <2>3. o \in Sheets /\ o.line <= HEIGHT
    BY <1>3, <1>11, <2>2 DEF Sheets
  <2>4. Typed(p, r, c) = Advanced(o, r.attrib)
    BY <1>8, <1>12, <2>1, <2>2
  <2> QED
    BY <1>3, <2>2, <2>3, <2>4, AdvancedSettles
<1>14. Finish([call[k] EXCEPT !.at = "advance"], w)
         = Settled(Wrapped([w EXCEPT !.col = @ + 1]), call[k].att)
  BY <1>3, Finishes, Zenon
<1>15. Finish([call[k] EXCEPT !.at = "advance"], Shown(fb', q, call[k].con))
         = Typed(Window(call[k].con), Here(k), call[k].chr)
  BY <1>2, <1>11, <1>13, <1>14
<1>16. PICK label \in Labels \ {"idle", "enter"} : label = "advance"
  BY DEF Labels
<1> QED
  BY <1>1, <1>2, <1>6, <1>7, <1>10, <1>15, <1>16, PaperGoesOn

LEMMA PaperTab ==
    ASSUME Inv, PaperInv, PaperNext, NEW k \in Context, Tab(k)
    PROVE  PaperInv'
<1>1. /\ Plain(k) /\ call[k].at = "enter" /\ call[k].at # "idle" /\ Runs(k)
      /\ call[k].chr = TAB /\ fb' = fb
  BY DEF Tab, Plain, At
<1>2. PICK v \in VCs, r \in VCRec, p \in Sheets, c \in Nat :
             /\ v = call[k].con /\ r = Here(k) /\ p = Window(v) /\ p = Shown(fb, r, v)
             /\ c = call[k].chr /\ ~InEscape(r, c)
             /\ p.line = r.csr_y + 1 /\ p.col = r.csr_x
             /\ p.line \in 1 .. HEIGHT /\ p.col \in 0 .. (WIDTH - 1)
             /\ call[k].att = r.attrib
  BY <1>1, PaperPlain
<1>3. /\ r.attrib \in Int /\ fb \in Memory /\ call[k] \in Calls
      /\ p.line <= HEIGHT /\ WIDTH \in Nat \ {0} /\ HEIGHT \in Nat \ {0}
  BY <1>1, <1>2, SizesNat, Facts DEF VCRec, PaperInv
<1>4. PICK e \in 0 .. 4 : e = 0
  OBVIOUS
<1>5. PICK q \in VCRec : q = [r EXCEPT !.esc = e]
  BY DEF VCRec
<1>6. vc' = [vc EXCEPT ![call[k].con] = q]
  BY <1>2, <1>4, <1>5 DEF Tab, Here
<1>7. q.csr_x = r.csr_x /\ q.csr_y = r.csr_y /\ q.attrib = r.attrib
  BY <1>5 DEF VCRec
<1>8. PICK stop \in Int : stop = TABSTOP * (p.col \div TABSTOP + 1)
  <2>1. TABSTOP * (p.col \div TABSTOP + 1) \in (p.col + 1) .. WIDTH
    BY <1>2, TabStop
  <2> QED
    BY <1>2, <1>3, <2>1
<1>9. PICK label \in Labels : label = "tab"
  BY DEF Labels
<1>10. PICK d \in Calls : /\ d = [call[k] EXCEPT !.at = label, !.eot = stop]
                          /\ d.at = "tab" /\ d.con = v /\ d.att = r.attrib /\ d.eot = stop
  <2>1. PICK b \in Calls : b = call[k]
    BY <1>3
  <2>2. PICK d : d = [b EXCEPT !.at = label, !.eot = stop]
    OBVIOUS
  <2>3. d \in Calls /\ d.at = label /\ d.con = b.con /\ d.att = b.att /\ d.eot = stop
    BY <2>2 DEF Calls
  <2> QED
    BY <1>2, <1>9, <2>1, <2>2, <2>3
<1>11. call' = [call EXCEPT ![k] = d]
  BY <1>2, <1>8, <1>9, <1>10 DEF Tab
<1>12. PaperTurn(k)
  BY <1>1, <1>10, <1>11, PaperTurns
<1>13. Shown(fb, q, v) = p
  BY <1>2, <1>7, SameCursor
<1>14. Finish(d, p) = Settled(Wrapped(Tabbed(p, d)), d.att)
  BY <1>10 DEF Finish
<1>15. PICK cell \in CellRec : cell = Cell(SPACE, r.attrib)
  BY <1>3, CellIsCell DEF SPACE
<1>16. PICK o \in Sheets : o = Written(p, p.col, stop - 1, cell) /\ o.line = p.line
  BY <1>2, <1>8, WrittenSheet
<1>17. PICK t \in Sheets : t = [o EXCEPT !.col = stop] /\ t.line = p.line
  <2>1. PICK t : t = [o EXCEPT !.col = stop]
    OBVIOUS
  <2>2. t \in Sheets /\ t.line = o.line
    BY <2>1 DEF Sheets
  <2> QED
    BY <1>16, <2>1, <2>2
<1>18. Tabbed(p, d) = t
  BY <1>10, <1>15, <1>16, <1>17 DEF Tabbed
<1>19. Typed(p, r, c) = Settled(Wrapped(t), r.attrib)
  <2>1. Typed(p, r, c) = Advanced([Written(p, p.col, stop - 1, Cell(SPACE, r.attrib))
                                     EXCEPT !.col = stop], r.attrib)
    BY <1>1, <1>2, <1>8, TypedTab
  <2>2. Typed(p, r, c) = Advanced(t, r.attrib)
    BY <1>15, <1>16, <1>17, <2>1
  <2> QED
    BY <1>3, <1>17, <2>2, AdvancedSettles
<1>20. Finish(d, Shown(fb', q, call[k].con)) = Typed(Window(call[k].con), Here(k), call[k].chr)
  BY <1>1, <1>2, <1>10, <1>13, <1>14, <1>18, <1>19
<1> QED
  BY <1>1, <1>2, <1>3, <1>6, <1>7, <1>10, <1>11, <1>12, <1>20, PaperBusy

LEMMA PaperTabStep ==
    ASSUME Inv, PaperInv, PaperNext, NEW k \in Context, TabStep(k)
    PROVE  PaperInv'
<1>1. call[k].at = "tab" /\ call[k].at # "idle" /\ Runs(k)
  BY DEF TabStep, At
<1>2. PICK v \in VCs, r \in VCRec, p \in Sheets :
             /\ v = call[k].con /\ r = Here(k) /\ p = Window(v) /\ p = Shown(fb, r, v)
             /\ p.line = r.csr_y + 1 /\ p.col = r.csr_x
             /\ call[k].at \in Writing => call[k].att = r.attrib
  BY <1>1, PaperHere
<1>3. PICK c \in Calls : c = call[k]
  BY <1>1, Facts
<1>4. /\ c.at = "tab" /\ c.con = v /\ c.att = r.attrib /\ c.att \in Int /\ c.eot \in Int
      /\ r.csr_y < HEIGHT /\ r.csr_x <= c.eot /\ c.eot <= WIDTH
      /\ fb \in Memory /\ r.csr_x \in Nat /\ r.csr_y \in Nat
      /\ WIDTH \in Nat \ {0} /\ HEIGHT \in Nat \ {0}
      /\ p.line \in 1 .. HEIGHT
  BY <1>1, <1>2, <1>3, SizesNat, Facts DEF VCRec, PaperInv, Fits, Calls, Writing
<1>5. \A w : Finish(c, w) = Settled(Wrapped(Tabbed(w, c)), c.att)
  BY <1>4 DEF Finish
<1>6. CASE r.csr_x # c.eot
  <2>1. PICK x \in Nat : x = r.csr_x + 1
    BY <1>4
  <2>2. PICK q \in VCRec : q = [r EXCEPT !.csr_x = x]
    BY DEF VCRec
  <2>3. vc' = [vc EXCEPT ![call[k].con] = q] /\ call' = [call EXCEPT ![k] = c]
    BY <1>2, <1>3, <1>6, <2>1, <2>2 DEF TabStep, Here, Inv, TypeInv
  <2>4. q.csr_x = x /\ q.csr_y = r.csr_y /\ q.attrib = r.attrib
    BY <2>2 DEF VCRec
  <2>5. PICK cell \in CellRec : cell = Cell(SPACE, c.att)
    BY <1>4, CellIsCell DEF SPACE
  <2>6. Store(Spot(v, r.csr_y, r.csr_x), cell)
    <3>1. Store(Cursor(v), cell)
      BY <1>2, <1>3, <1>6, <2>5 DEF TabStep
    <3> QED
      BY <1>2, <3>1 DEF Cursor, Spot, Here
  <2>7. r.csr_x \in 0 .. (WIDTH - 1)
    BY <1>4, <1>6
  <2>8. /\ fb' \in Memory
        /\ \A u \in VCs \ {v}, s \in VCRec : Shown(fb', s, u) = Shown(fb, s, u)
        /\ Shown(fb', q, v).rows = Written(p, p.col, p.col, cell).rows
    BY <1>2, <1>4, <2>6, <2>7, StoredOn
  <2>9. PICK w \in Sheets : /\ w = Shown(fb', q, v)
                            /\ w.line = p.line /\ w.col = p.col + 1
    BY <1>2, <2>1, <2>4, <2>8, ShownSheet
  <2>10. Tabbed(p, c) = Tabbed(w, c)
    <3>1. p.col < c.eot
      BY <1>2, <1>4, <1>6
    <3> QED
      BY <1>4, <2>5, <2>8, <2>9, <3>1, TabbedOn
  <2>11. Finish(c, Shown(fb', q, call[k].con)) = Finish(call[k], Window(call[k].con))
    BY <1>2, <1>3, <1>5, <2>9, <2>10
  <2>12. PaperTurn(k)
    BY <1>1, <1>4, <2>3, PaperTurns
  <2> QED
    BY <1>1, <1>2, <1>3, <1>4, <2>3, <2>4, <2>8, <2>11, <2>12, PaperBusy
<1>7. CASE r.csr_x = c.eot
  <2>1. vc' = [vc EXCEPT ![call[k].con] = r] /\ fb' = fb /\ Goto(k, "wrap")
    BY <1>2, <1>3, <1>7 DEF TabStep, Here, Inv, TypeInv
  <2>2. Tabbed(p, c) = p
    BY <1>2, <1>4, <1>7, TabbedEnd
  <2>3. Finish([c EXCEPT !.at = "wrap"], p) = Settled(Wrapped(p), c.att)
    BY Finishes, Zenon
  <2>4. Finish([call[k] EXCEPT !.at = "wrap"], Shown(fb', r, call[k].con))
          = Finish(call[k], Window(call[k].con))
    BY <1>2, <1>3, <1>5, <2>1, <2>2, <2>3
  <2>5. PICK label \in Labels \ {"idle", "enter"} : label = "wrap"
    BY DEF Labels
  <2> QED
    BY <1>1, <1>2, <1>3, <1>4, <2>1, <2>4, <2>5, PaperGoesOn
<1> QED
  BY <1>6, <1>7

LEMMA PaperRows ==
    ASSUME Inv, PaperInv, PaperNext, NEW k \in Context, Advance(k) \/ Wrap(k) \/ SetRow(k)
    PROVE  PaperInv'
<1>1. /\ call[k].at \in {"advance", "wrap", "set_row"} /\ call[k].at # "idle" /\ Runs(k)
      /\ fb' = fb /\ call[k].at # "enter"
  BY DEF Advance, Wrap, SetRow, At
<1>2. PICK v \in VCs, r \in VCRec, p \in Sheets :
             /\ v = call[k].con /\ r = Here(k) /\ p = Window(v) /\ p = Shown(fb, r, v)
             /\ p.line = r.csr_y + 1 /\ p.col = r.csr_x
             /\ call[k].at \in Writing => call[k].att = r.attrib
  BY <1>1, PaperHere
<1>3. PICK c \in Calls : c = call[k]
  BY <1>1, Facts
<1>4. /\ c.con = v /\ fb \in Memory /\ r.csr_x \in Nat /\ r.csr_y \in Nat
      /\ WIDTH \in Nat \ {0} /\ HEIGHT \in Nat \ {0}
  BY <1>1, <1>2, <1>3, SizesNat DEF VCRec, PaperInv
<1>5. ASSUME NEW q \in VCRec
      PROVE  \E w \in Sheets : /\ w = Shown(fb, q, v) /\ w.rows = p.rows
                               /\ w.line = q.csr_y + 1 /\ w.col = q.csr_x
  BY <1>2, <1>4, ShownSheet, ShownCursor
<1>6. CASE Advance(k)
  <2>0. c.at = "advance" /\ c.att = r.attrib
    BY <1>2, <1>3, <1>6 DEF Advance, At, Writing
  <2>1. PICK x \in Nat : x = r.csr_x + 1
    BY <1>4
  <2>2. PICK q \in VCRec : q = [r EXCEPT !.csr_x = x]
    BY DEF VCRec
  <2>3. vc' = [vc EXCEPT ![call[k].con] = q] /\ Goto(k, "wrap")
    BY <1>2, <1>6, <2>1, <2>2 DEF Advance, Here
  <2>4. q.csr_x = x /\ q.csr_y = r.csr_y /\ q.attrib = r.attrib
    BY <2>2 DEF VCRec
  <2>5. PICK w \in Sheets : /\ w = Shown(fb, q, v) /\ w.rows = p.rows
                            /\ w.line = q.csr_y + 1 /\ w.col = q.csr_x
    BY <1>5
  <2>6. w = [p EXCEPT !.col = @ + 1]
    BY <1>2, <2>1, <2>4, <2>5 DEF Sheets
  <2>7. Finish(c, p) = Settled(Wrapped([p EXCEPT !.col = @ + 1]), c.att)
    BY <2>0 DEF Finish
  <2>8. Finish([c EXCEPT !.at = "wrap"], w) = Settled(Wrapped(w), c.att)
    BY Finishes, Zenon
  <2>9. Finish([call[k] EXCEPT !.at = "wrap"], Shown(fb', q, call[k].con))
          = Finish(call[k], Window(call[k].con))
    BY <1>1, <1>2, <1>3, <2>5, <2>6, <2>7, <2>8
  <2>10. PICK label \in Labels \ {"idle", "enter"} : label = "wrap"
    BY DEF Labels
  <2> QED
    BY <1>1, <1>2, <1>3, <1>4, <2>0, <2>3, <2>4, <2>9, <2>10, PaperGoesOn
<1>7. CASE Wrap(k)
  <2>0. c.at = "wrap" /\ c.att = r.attrib
    BY <1>2, <1>3, <1>7 DEF Wrap, At, Writing
  <2>1. PICK x \in Nat, y \in Nat : x = 0 /\ y = r.csr_y + 1
    BY <1>4
  <2>2. PICK q \in VCRec :
          /\ q = IF r.csr_x >= WIDTH THEN [r EXCEPT !.csr_x = x, !.csr_y = y] ELSE r
    BY Rebuilt
  <2>3. vc' = [vc EXCEPT ![call[k].con] = q] /\ Goto(k, "scroll")
    <3>1. CASE r.csr_x >= WIDTH
      BY <1>2, <1>7, <2>1, <2>2, <3>1 DEF Wrap, Here
    <3>2. CASE ~(r.csr_x >= WIDTH)
      BY <1>2, <1>7, <2>1, <2>2, <3>2 DEF Wrap, Here, Inv, TypeInv
    <3> QED
      BY <3>1, <3>2
  <2>4. /\ q.attrib = r.attrib
        /\ r.csr_x >= WIDTH => q.csr_x = 0 /\ q.csr_y = r.csr_y + 1
        /\ ~(r.csr_x >= WIDTH) => q = r
    BY <2>1, <2>2 DEF VCRec
  <2>5. PICK w \in Sheets : /\ w = Shown(fb, q, v) /\ w.rows = p.rows
                            /\ w.line = q.csr_y + 1 /\ w.col = q.csr_x
    BY <1>5
  <2>6. w = Wrapped(p)
    <3>1. CASE r.csr_x >= WIDTH
      <4>1. Wrapped(p) = [p EXCEPT !.col = 0, !.line = @ + 1]
        BY <1>2, <3>1 DEF Wrapped
      <4>2. w.col = 0 /\ w.line = p.line + 1 /\ w.rows = p.rows
        BY <1>2, <1>4, <2>4, <2>5, <3>1
      <4>3. w = [p EXCEPT !.col = 0, !.line = @ + 1]
        BY <4>2 DEF Sheets
      <4> QED
        BY <4>1, <4>3, Zenon
    <3>2. CASE ~(r.csr_x >= WIDTH)
      <4>1. Wrapped(p) = p
        BY <1>2, <3>2 DEF Wrapped
      <4> QED
        BY <1>2, <2>4, <2>5, <3>2, <4>1
    <3> QED
      BY <3>1, <3>2
  <2>7. Finish(c, p) = Settled(Wrapped(p), c.att)
    BY <2>0 DEF Finish
  <2>8. Finish([c EXCEPT !.at = "scroll"], w) = Settled(w, c.att)
    BY Finishes, Zenon
  <2>9. Finish([call[k] EXCEPT !.at = "scroll"], Shown(fb', q, call[k].con))
          = Finish(call[k], Window(call[k].con))
    BY <1>1, <1>2, <1>3, <2>5, <2>6, <2>7, <2>8
  <2>10. PICK label \in Labels \ {"idle", "enter"} : label = "scroll"
    BY DEF Labels
  <2> QED
    BY <1>1, <1>2, <1>3, <1>4, <2>0, <2>3, <2>4, <2>9, <2>10, PaperGoesOn
<1>8. CASE SetRow(k)
  <2>0. c.at = "set_row"
    BY <1>2, <1>3, <1>8 DEF SetRow, At
  <2>1. PICK y \in Nat : y = HEIGHT - 1
    BY <1>4
  <2>2. PICK q \in VCRec : q = [r EXCEPT !.csr_y = y]
    BY DEF VCRec
  <2>3. vc' = [vc EXCEPT ![call[k].con] = q] /\ Goto(k, "move_csr")
    BY <1>2, <1>8, <2>1, <2>2 DEF SetRow, Here
  <2>4. q.csr_x = r.csr_x /\ q.csr_y = HEIGHT - 1
    BY <2>1, <2>2 DEF VCRec
  <2>5. PICK w \in Sheets : /\ w = Shown(fb, q, v) /\ w.rows = p.rows
                            /\ w.line = q.csr_y + 1 /\ w.col = q.csr_x
    BY <1>5
  <2>6. w = [p EXCEPT !.line = HEIGHT]
    BY <1>2, <1>4, <2>4, <2>5 DEF Sheets
  <2>7. Finish(c, p) = [p EXCEPT !.line = HEIGHT]
    BY <2>0 DEF Finish
  <2>8. Finish([c EXCEPT !.at = "move_csr"], w) = w
    <3>1. PICK d : d = [c EXCEPT !.at = "move_csr"]
      OBVIOUS
    <3>2. d.at = "move_csr"
      BY <3>1 DEF Calls
    <3>3. Finish(d, w) = w
      BY <3>2 DEF Finish
    <3> QED
      BY <3>1, <3>3, Zenon
  <2>9. Finish([call[k] EXCEPT !.at = "move_csr"], Shown(fb', q, call[k].con))
          = Finish(call[k], Window(call[k].con))
    BY <1>1, <1>2, <1>3, <2>5, <2>6, <2>7, <2>8
  <2>10. PICK label \in Labels \ {"idle", "enter"} : label = "move_csr" /\ label \notin Writing
    BY DEF Labels, Writing
  <2> QED
    BY <1>1, <1>2, <1>3, <1>4, <2>0, <2>3, <2>9, <2>10, PaperGoesOn
<1> QED
  BY <1>6, <1>7, <1>8

LEMMA PaperCopy ==
    ASSUME Inv, PaperInv, PaperNext, NEW k \in Context, Copy(k)
    PROVE  PaperInv'
<1>1. call[k].at = "copy" /\ call[k].at # "idle" /\ Runs(k) /\ Goto(k, "set_row")
  BY DEF Copy, At
<1>2. PICK v \in VCs, r \in VCRec, p \in Sheets :
             /\ v = call[k].con /\ r = Here(k) /\ p = Window(v) /\ p = Shown(fb, r, v)
             /\ p.line = r.csr_y + 1 /\ p.col = r.csr_x
             /\ call[k].at \in Writing => call[k].att = r.attrib
  BY <1>1, PaperHere
<1>3. PICK c \in Calls : c = call[k]
  BY <1>1, Facts
<1>4. /\ c.at = "copy" /\ c.con = v /\ c.att = r.attrib /\ c.temp = 1
      /\ r.attrib = vc[v].attrib /\ r.attrib \in Int
      /\ fb \in Memory /\ TypeInv
  BY <1>1, <1>2, <1>3, Facts DEF VCRec, PaperInv, Fits, Writing, Here, Inv
<1>5. fb' = [a \in Cells |-> Copied(v, 1, a)]
  BY <1>2, <1>3, <1>4 DEF Copy
<1>6. fb' \in Memory
  BY <1>4, <1>5, CopiedCell DEF Memory
<1>7. \A a \in Cells : fb'[a] = Copied(v, 1, a)
  BY <1>5
<1>8. /\ \A u \in VCs \ {v}, s \in VCRec : Shown(fb', s, u) = Shown(fb, s, u)
      /\ Shown(fb', r, v).rows = Append(Tail(p.rows), BlankRow(r.attrib))
  BY <1>2, <1>4, <1>6, <1>7, ShownScrolled
<1>9. PICK w \in Sheets : /\ w = Shown(fb', r, v)
                          /\ w.line = p.line /\ w.col = p.col
  BY <1>2, <1>6, ShownSheet
<1>10. [w EXCEPT !.line = HEIGHT] = Scrolled(p, r.attrib)
  <2>1. PICK q \in Sheets : /\ q = Scrolled(p, r.attrib) /\ q.line = HEIGHT
                            /\ q.col = p.col
                            /\ q.rows = Append(Tail(p.rows), BlankRow(r.attrib))
    BY <1>4, ScrolledSheet
  <2>2. w.rows = q.rows
    BY <1>8, <1>9, <2>1
  <2>3. q = [w EXCEPT !.line = HEIGHT]
    BY <1>9, <2>1, <2>2 DEF Sheets
  <2> QED
    BY <2>1, <2>3
<1>11. Finish(c, p) = Scrolled(p, c.att)
  BY <1>4 DEF Finish
<1>12. Finish([c EXCEPT !.at = "set_row"], w) = [w EXCEPT !.line = HEIGHT]
  BY Finishes, Zenon
<1>13. Finish([call[k] EXCEPT !.at = "set_row"], Shown(fb', r, call[k].con))
         = Finish(call[k], Window(call[k].con))
  BY <1>2, <1>3, <1>4, <1>9, <1>10, <1>11, <1>12
<1>14. PICK label \in Labels \ {"idle", "enter"} : label = "set_row" /\ label \notin Writing
  BY DEF Labels, Writing
<1>15. vc' = [vc EXCEPT ![call[k].con] = r]
  BY <1>2 DEF Copy, Here, Inv, TypeInv
<1> QED
  BY <1>1, <1>2, <1>6, <1>8, <1>13, <1>14, <1>15, PaperGoesOn

LEMMA PaperScroll ==
    ASSUME Inv, PaperInv, PaperNext, NEW k \in Context, Scroll(k)
    PROVE  PaperInv'
<1>1. call[k].at = "scroll" /\ call[k].at # "idle" /\ Runs(k) /\ fb' = fb
  BY DEF Scroll, At
<1>2. PICK v \in VCs, r \in VCRec, p \in Sheets :
             /\ v = call[k].con /\ r = Here(k) /\ p = Window(v) /\ p = Shown(fb, r, v)
             /\ p.line = r.csr_y + 1 /\ p.col = r.csr_x
             /\ call[k].at \in Writing => call[k].att = r.attrib
  BY <1>1, PaperHere
<1>3. PICK c \in Calls : c = call[k]
  BY <1>1, Facts
<1>4. /\ c.at = "scroll" /\ c.con = v /\ c.att = r.attrib
      /\ r.csr_x < WIDTH /\ r.csr_y <= HEIGHT
      /\ fb \in Memory /\ r.csr_x \in Nat /\ r.csr_y \in Nat
      /\ WIDTH \in Nat \ {0} /\ HEIGHT \in Nat \ {0}
  BY <1>1, <1>2, <1>3, SizesNat, Facts DEF VCRec, PaperInv, Fits, Writing
<1>5. Finish(c, p) = Settled(p, c.att)
  BY <1>4 DEF Finish
<1>6. vc' = [vc EXCEPT ![call[k].con] = r]
  BY <1>2 DEF Scroll, Here, Inv, TypeInv
<1>7. CASE r.csr_y >= HEIGHT
  <2>1. PICK t \in Int : t = r.csr_y - HEIGHT + 1
    BY <1>4
  <2>2. PICK label \in Labels : label = "copy"
    BY DEF Labels
  <2>3. PICK d : d = [c EXCEPT !.at = label, !.temp = t]
    OBVIOUS
  <2>4. d \in Calls /\ d.at = label /\ d.con = c.con /\ d.att = c.att
    BY <2>3 DEF Calls
  <2>5. call' = [call EXCEPT ![k] = d]
    BY <1>2, <1>3, <1>7, <2>1, <2>2, <2>3 DEF Scroll
  <2>6. PaperTurn(k)
    BY <1>1, <2>2, <2>4, <2>5, PaperTurns
  <2>7. Finish(d, p) = Scrolled(p, c.att)
    <3>1. d.at = "copy"
      BY <2>2, <2>4
    <3>2. Finish(d, p) = Scrolled(p, d.att)
      BY <3>1 DEF Finish
    <3> QED
      BY <2>4, <3>2
  <2>8. Settled(p, c.att) = Scrolled(p, c.att)
    BY <1>2, <1>4, <1>7 DEF Settled
  <2>9. Finish(d, Shown(fb', r, call[k].con)) = Finish(call[k], Window(call[k].con))
    BY <1>1, <1>2, <1>3, <1>5, <2>7, <2>8
  <2> QED
    BY <1>1, <1>2, <1>3, <1>4, <1>6, <2>4, <2>5, <2>6, <2>9, PaperBusy
<1>8. CASE ~(r.csr_y >= HEIGHT)
  <2>1. Goto(k, "move_csr")
    BY <1>2, <1>8 DEF Scroll
  <2>2. Settled(p, c.att) = p
    BY <1>2, <1>4, <1>8 DEF Settled
  <2>3. Finish([c EXCEPT !.at = "move_csr"], p) = p
    <3>1. PICK d : d = [c EXCEPT !.at = "move_csr"]
      OBVIOUS
    <3>2. d.at = "move_csr"
      BY <3>1 DEF Calls
    <3>3. Finish(d, p) = p
      BY <3>2 DEF Finish
    <3> QED
      BY <3>1, <3>3, Zenon
  <2>4. Finish([call[k] EXCEPT !.at = "move_csr"], Shown(fb', r, call[k].con))
          = Finish(call[k], Window(call[k].con))
    BY <1>1, <1>2, <1>3, <1>5, <2>2, <2>3
  <2>5. PICK label \in Labels \ {"idle", "enter"} : label = "move_csr" /\ label \notin Writing
    BY DEF Labels, Writing
  <2> QED
    BY <1>1, <1>2, <1>4, <1>6, <2>1, <2>4, <2>5, PaperGoesOn
<1> QED
  BY <1>7, <1>8

(***************************************************************************)
(* Moving the cursor of the display changes neither sheet nor screen.      *)
(***************************************************************************)
LEMMA PaperDisplay ==
    ASSUME Inv, PaperInv, PaperNext, NEW k \in Context, MoveCsr(k) \/ OutPorts(k)
    PROVE  PaperInv'
<1> DEFINE Display == {"move_csr", "moved", "index_hi", "data_hi", "index_lo", "data_lo"}
<1>1. /\ call[k].at \in Display /\ call[k].at # "idle" /\ Runs(k) /\ fb' = fb
      /\ call[k].at # "enter" /\ vc' = vc
  BY DEF MoveCsr, OutPorts, OutPort, OutIndex, OutData, At
<1>2. PICK v \in VCs, r \in VCRec, p \in Sheets :
             /\ v = call[k].con /\ r = Here(k) /\ p = Window(v) /\ p = Shown(fb, r, v)
             /\ p.line = r.csr_y + 1 /\ p.col = r.csr_x
             /\ call[k].at \in Writing => call[k].att = r.attrib
  BY <1>1, PaperHere
<1>3. PICK c \in Calls : c = call[k]
  BY <1>1, Facts
<1>4. vc' = [vc EXCEPT ![call[k].con] = r] /\ fb \in Memory
  BY <1>1, <1>2 DEF Here, Inv, TypeInv, PaperInv
<1>5. ASSUME NEW d, d.at \in Display PROVE d.at \notin Writing /\ Finish(d, p) = p
  BY <1>5 DEF Finish, Writing
<1>6. CASE Return(k)
  <2>1. Shown(fb', r, call[k].con) = Finish(call[k], Window(call[k].con))
    BY <1>1, <1>2, <1>5
  <2> QED
    BY <1>1, <1>2, <1>4, <1>6, <2>1, PaperReturns
<1>7. ASSUME NEW d \in Calls, d.at \in Display, d.con = c.con, call' = [call EXCEPT ![k] = d]
      PROVE  PaperInv'
  <2>1. PaperTurn(k)
    BY <1>1, <1>7, PaperTurns
  <2>2. Finish(d, Shown(fb', r, call[k].con)) = Finish(call[k], Window(call[k].con))
    BY <1>1, <1>2, <1>5, <1>7
  <2>3. d.at \notin Writing
    BY <1>5, <1>7
  <2> QED
    BY <1>1, <1>2, <1>3, <1>4, <1>7, <2>1, <2>2, <2>3, PaperBusy
<1>8. CASE \E label \in Display : Goto(k, label)
  <2>1. PICK label \in Display : Goto(k, label)
    BY <1>8
  <2>2. PICK d : d = [c EXCEPT !.at = label]
    OBVIOUS
  <2>3. d \in Calls /\ d.at = label /\ d.con = c.con
    BY <2>2 DEF Calls, Labels
  <2>4. call' = [call EXCEPT ![k] = d]
    BY <1>3, <2>1, <2>2 DEF Goto
  <2> QED
    BY <1>7, <2>3, <2>4
<1>9. CASE MoveCsr(k) /\ ~Return(k)
  <2>1. PICK t \in Int : t = Cursor(curr)
    BY CursorIsInt DEF Inv, TypeInv
  <2>2. PICK label \in Labels : label = "index_hi"
    BY DEF Labels
  <2>3. PICK d : d = [c EXCEPT !.at = label, !.temp = t]
    OBVIOUS
  <2>4. d \in Calls /\ d.at = "index_hi" /\ d.con = c.con
    BY <2>2, <2>3 DEF Calls
  <2>5. call' = [call EXCEPT ![k] = d]
    BY <1>3, <1>9, <2>1, <2>2, <2>3 DEF MoveCsr
  <2> QED
    BY <1>7, <2>4, <2>5
<1>10. OutPorts(k) => Return(k) \/ \E label \in Display : Goto(k, label)
  BY DEF OutPorts, OutPort, OutIndex, OutData
<1> QED
  BY <1>6, <1>8, <1>9, <1>10

(***************************************************************************)
(* A call that starts types nothing yet: only move_cursor, which has no    *)
(* character to take, moves on the paper at once.                          *)
(***************************************************************************)
LEMMA PaperWaits ==
    ASSUME PaperNext, \A j \in Context : call[j].at = "idle", NEW u \in VCs
    PROVE  /\ (\E j \in Threads : Moving(j)) /\ curr = u
                => paper'[u] = [paper[u] EXCEPT !.col = 0, !.line = 1 + vc'[u].csr_y]
           /\ ~((\E j \in Threads : Moving(j)) /\ curr = u) => paper'[u] = paper[u]
<1> DEFINE Turned(w) ==
             IF \E j \in Context : Taking(j, w) /\ call'[j].at # "enter"
               THEN LET j == CHOOSE j \in Context : Taking(j, w)
                    IN Typed(paper[w], vc[w], call[j].chr)
             ELSE IF \E j \in Threads : Moving(j) /\ curr = w
               THEN [paper[w] EXCEPT !.col = 0, !.line = 1 + vc'[w].csr_y]
             ELSE paper[w]
<1>1. paper' = [w \in VCs |-> Turned(w)]
  BY DEF PaperNext
<1>2. ~ \E j \in Context : Taking(j, u) /\ call'[j].at # "enter"
  BY DEF Taking, At
<1> HIDE DEF Turned
<1>3. paper'[u] = Turned(u)
  BY <1>1
<1>4. ASSUME (\E j \in Threads : Moving(j)), curr = u
      PROVE  paper'[u] = [paper[u] EXCEPT !.col = 0, !.line = 1 + vc'[u].csr_y]
  <2>1. \E j \in Threads : Moving(j) /\ curr = u
    BY <1>4
  <2> QED
    BY <1>2, <1>3, <2>1, Zenon DEF Turned
<1>5. ASSUME ~((\E j \in Threads : Moving(j)) /\ curr = u) PROVE paper'[u] = paper[u]
  <2>1. ~ \E j \in Threads : Moving(j) /\ curr = u
    BY <1>5
  <2> QED
    BY <1>2, <1>3, <2>1, Zenon DEF Turned
<1> QED
  BY <1>4, <1>5

LEMMA PaperStarts ==
    ASSUME Inv, PaperInv, PaperNext, Preempt = FALSE, NEW k \in Context,
           \/ \E c \in Chars : Putch(k, c)
           \/ k \in Threads /\ \E y \in 0 .. (HEIGHT - 1) : MoveCursor(k, y)
           \/ k = "irq" /\ \E v \in VCs : SelectVc(v)
    PROVE  PaperInv'
<1>1. \A j \in Context : call[j].at = "idle"
  BY DEF Putch, MoveCursor, SelectVc, MayStart
<1>2. /\ curr \in VCs /\ vc \in [VCs -> VCRec] /\ call \in [Context -> Calls]
      /\ fb \in Memory /\ fb' = fb /\ "irq" \notin Threads
      /\ \A u \in VCs : paper[u] = Window(u)
  <2>1. \A u \in VCs, j \in Context : ~Busy(j, u)
    BY <1>1 DEF Busy
  <2> QED
    BY <2>1, ConsoleAssumption
    DEF Inv, TypeInv, PaperInv, Putch, MoveCursor, SelectVc
<1>3. ASSUME NEW c \in Chars, Putch(k, c) PROVE PaperInv'
  <2> DEFINE d == [call[k] EXCEPT !.at = "enter", !.con = curr, !.chr = c,
                                  !.att = vc[curr].attrib]
  <2>1. call' = [call EXCEPT ![k] = d] /\ vc' = vc
    BY <1>3 DEF Putch
  <2>2. d.at = "enter" /\ d.con = curr /\ d.att = vc[curr].attrib
    BY <1>2 DEF Calls
  <2> HIDE DEF d
  <2>3. call'[k] = d /\ \A j \in Context \ {k} : call'[j].at = "idle"
    BY <1>1, <1>2, <2>1
  <2>4. \A j \in Threads : ~Moving(j)
    BY <2>2, <2>3 DEF Moving, Context
  <2>5. \A u \in VCs : Window(u)' = Window(u) /\ paper'[u] = paper[u]
    <3> SUFFICES ASSUME NEW u \in VCs PROVE Window(u)' = Window(u) /\ paper'[u] = paper[u]
      OBVIOUS
    <3>1. Window(u)' = Window(u)
      BY <1>2, <2>1 DEF Window, Shown, Spot, fb_adr
    <3>2. paper'[u] = paper[u]
      BY <1>1, <2>4, PaperWaits, Zenon
    <3> QED
      BY <3>1, <3>2
  <2>6. Finish(d, Window(curr)) = Window(curr)
    BY <2>2 DEF Finish
  <2>7. PICK v \in VCs : v = curr
    BY <1>2
  <2>8. paper'[v] = Finish(call'[k], Window(v)')
    BY <1>2, <2>3, <2>5, <2>6, <2>7
  <2>9. call'[k].con = v /\ call'[k].att = vc'[v].attrib
    BY <2>1, <2>2, <2>3, <2>7
  <2> QED
    BY <1>1, <1>2, <2>3, <2>5, <2>7, <2>8, <2>9, PaperStep
<1>4. ASSUME k \in Threads, NEW y \in 0 .. (HEIGHT - 1), MoveCursor(k, y) PROVE PaperInv'
  <2> DEFINE d == [call[k] EXCEPT !.at = "moved", !.con = curr]
  <2>1. call' = [call EXCEPT ![k] = d] /\ vc' = [vc EXCEPT ![curr].csr_x = 0, ![curr].csr_y = y]
    BY <1>4 DEF MoveCursor
  <2>2. d.at = "moved" /\ d.con = curr
    BY <1>2 DEF Calls
  <2> HIDE DEF d
  <2>3. call'[k] = d /\ \A j \in Context \ {k} : call'[j].at = "idle"
    BY <1>1, <1>2, <2>1
  <2>4. \E j \in Threads : Moving(j)
    BY <1>1, <1>4, <2>2, <2>3 DEF Moving
  <2>5. PICK v \in VCs : v = curr
    BY <1>2
  <2>6. PICK r \in VCRec : r = vc[v]
    BY <1>2
  <2>7. PICK a \in Nat, b \in Nat : a = 0 /\ b = y
    BY SizesNat
  <2>8. PICK q : q = [r EXCEPT !.csr_x = a, !.csr_y = b]
    OBVIOUS
  <2>9. q \in VCRec /\ q.csr_x = 0 /\ q.csr_y = y
    BY <2>7, <2>8 DEF VCRec
  <2>10. vc' = [vc EXCEPT ![v] = q]
    BY <1>2, <2>1, <2>5, <2>6, <2>7, <2>8
  <2>11. vc'[v] = q /\ \A u \in VCs \ {v} : vc'[u] = vc[u]
    BY <1>2, <2>10
  <2>12. \A u \in VCs \ {v} : Window(u)' = Window(u) /\ paper'[u] = paper[u]
    <3> SUFFICES ASSUME NEW u \in VCs \ {v}
                 PROVE  Window(u)' = Window(u) /\ paper'[u] = paper[u]
      OBVIOUS
    <3>1. Window(u)' = Window(u)
      BY <1>2, <2>11 DEF Window, Shown, Spot, fb_adr
    <3>2. paper'[u] = paper[u]
      BY <1>1, <2>5, PaperWaits, Zenon
    <3> QED
      BY <3>1, <3>2
  <2>13. Window(v)' = Shown(fb, q, v)
    BY <1>2, <2>11 DEF Window, Shown, Spot, fb_adr
  <2>14. paper'[v] = [paper[v] EXCEPT !.col = 0, !.line = 1 + vc'[v].csr_y]
    BY <1>1, <2>4, <2>5, PaperWaits, Zenon
  <2>15. PICK p \in Sheets : p = Window(v) /\ p = Shown(fb, r, v)
    BY <1>2, <2>6, ShownSheet DEF Window
  <2>16. PICK w \in Sheets : w = Shown(fb, q, v) /\ w.rows = p.rows
                             /\ w.line = y + 1 /\ w.col = 0
    BY <1>2, <2>9, <2>15, ShownSheet, ShownCursor
  <2>17. paper'[v] = w
    <3>1. paper'[v] = [p EXCEPT !.col = 0, !.line = 1 + q.csr_y]
      BY <1>2, <2>11, <2>14, <2>15
    <3>2. 1 + q.csr_y = y + 1
      BY <2>9
    <3>3. w = [p EXCEPT !.col = 0, !.line = y + 1]
      BY <2>16 DEF Sheets
    <3> QED
      BY <3>1, <3>2, <3>3, Zenon
  <2>18. Finish(d, w) = w /\ d.at \notin Writing
    BY <2>2 DEF Finish, Writing
  <2>19. paper'[v] = Finish(call'[k], Window(v)')
    BY <2>3, <2>13, <2>16, <2>17, <2>18
  <2> QED
    BY <1>1, <1>2, <2>2, <2>3, <2>5, <2>12, <2>18, <2>19, PaperStep
<1>5. ASSUME k = "irq", NEW v \in VCs, SelectVc(v) PROVE PaperInv'
  <2> DEFINE d == [call[k] EXCEPT !.at = "moved", !.con = v]
  <2>1. call' = [call EXCEPT ![k] = d] /\ vc' = vc
    <3>1. /\ call' = [call EXCEPT !["irq"].at = "moved", !["irq"].con = v]
          /\ vc' = vc
      BY <1>5 DEF SelectVc
    <3> QED
      BY <1>5, <3>1
  <2>2. d.at = "moved" /\ d.con = v
    BY <1>2 DEF Calls
  <2> HIDE DEF d
  <2>3. call'[k] = d /\ \A j \in Context \ {k} : call'[j] = call[j] /\ call'[j].at = "idle"
    BY <1>1, <1>2, <2>1
  <2>4. \A j \in Threads : ~Moving(j)
    BY <1>1, <1>2, <1>5, <2>3 DEF Moving, Context
  <2>5. \A u \in VCs : Window(u)' = Window(u) /\ paper'[u] = paper[u]
    <3> SUFFICES ASSUME NEW u \in VCs PROVE Window(u)' = Window(u) /\ paper'[u] = paper[u]
      OBVIOUS
    <3>1. Window(u)' = Window(u)
      BY <1>2, <2>1 DEF Window, Shown, Spot, fb_adr
    <3>2. paper'[u] = paper[u]
      BY <1>1, <2>4, PaperWaits, Zenon
    <3> QED
      BY <3>1, <3>2
  <2>6. Finish(d, Window(v)) = Window(v) /\ d.at \notin Writing
    BY <2>2 DEF Finish, Writing
  <2>7. paper'[v] = Finish(call'[k], Window(v)')
    BY <1>2, <2>3, <2>5, <2>6
  <2> QED
    BY <1>1, <1>2, <2>2, <2>3, <2>5, <2>6, <2>7, PaperStep
<1> QED
  BY <1>3, <1>4, <1>5

LEMMA OwnQuotient ==
    ASSUME NEW v \in VCs, NEW a \in OwnCells(v) PROVE a \div SCREEN = v
<1>1. SCREEN \in Nat \ {0} /\ v \in Nat /\ fb_adr(v) \in Nat /\ fb_adr(v) = v * SCREEN
  BY SizesNat DEF fb_adr
<1>2. a \in Nat
  BY <1>1 DEF OwnCells
<1>3. PICK n \in Nat \ {0} : n = SCREEN
  BY <1>1
<1>4. PICK i \in 0 .. (n - 1) : a = v * n + i
  <2>1. a - fb_adr(v) \in 0 .. (n - 1)
    BY <1>1, <1>2, <1>3 DEF OwnCells
  <2>2. a = fb_adr(v) + (a - fb_adr(v))
    BY <1>1, <1>2
  <2> QED
    BY <1>1, <1>3, <2>1, <2>2
<1>5. PICK q \in Nat, m \in 0 .. (n - 1) : q = a \div n /\ a = n * q + m
  BY <1>2, DivMod
<1>6. n * q = q * n
  BY <1>3, <1>5
<1>7. v * n + i = q * n + m
  BY <1>4, <1>5, <1>6
<1>8. v = q
  BY <1>1, <1>7, UniqueQuotient
<1> QED
  BY <1>3, <1>5, <1>8

LEMMA PaperBegins == PaperInit => PaperInv
<1> SUFFICES ASSUME PaperInit PROVE PaperInv
  OBVIOUS
<1>1. /\ fb = [a \in Cells |-> Cell(SPACE, a \div SCREEN + 1)]
      /\ call = [k \in Context |-> Idle]
      /\ vc = [v \in VCs |-> [esc |-> 0, arg |-> <<0, 0, 0>>, attrib |-> v + 1,
                              csr_x |-> 0, csr_y |-> 0]]
      /\ paper = [v \in VCs |-> [rows |-> BlankRows(v + 1), line |-> 1, col |-> 0]]
  BY DEF PaperInit, Init
<1>2. Inv
  BY InitInv DEF PaperInit
<1>3. \A k \in Context : call[k].at = "idle"
  BY <1>1 DEF Idle
<1>4. fb \in Memory
  <2>1. ASSUME NEW a \in Cells PROVE Cell(SPACE, a \div SCREEN + 1) \in CellRec
    <3>1. a \in Nat /\ SCREEN \in Nat \ {0}
      BY SizesNat DEF Cells
    <3>2. a \div SCREEN + 1 \in Int
      BY <3>1, DivMod
    <3> QED
      BY <3>2, CellIsCell DEF SPACE
  <2> QED
    BY <1>1, <2>1 DEF Memory
<1>5. ASSUME NEW v \in VCs PROVE paper[v] = Window(v)
  <2>1. vc[v] \in VCRec /\ vc[v].csr_x = 0 /\ vc[v].csr_y = 0
    BY <1>1, <1>2 DEF Inv, TypeInv
  <2>2. paper[v] = [rows |-> BlankRows(v + 1), line |-> 1, col |-> 0]
    BY <1>1
  <2>3. ASSUME NEW y \in 1 .. HEIGHT, NEW x \in 0 .. (WIDTH - 1)
        PROVE  fb[Spot(v, y - 1, x)] = Cell(SPACE, v + 1)
    <3>1. y - 1 \in 0 .. (HEIGHT - 1)
      BY SizesNat
    <3>2. Spot(v, y - 1, x) \in Cells /\ Spot(v, y - 1, x) \in OwnCells(v)
      BY <3>1, SpotIsCell
    <3>3. Spot(v, y - 1, x) \div SCREEN = v
      BY <3>2, OwnQuotient
    <3> QED
      BY <1>1, <3>2, <3>3
  <2>4. \A y \in 1 .. HEIGHT :
          [x \in 0 .. (WIDTH - 1) |-> fb[Spot(v, y - 1, x)]] = BlankRow(v + 1)
    BY <2>3 DEF BlankRow
  <2>5. Window(v).rows = BlankRows(v + 1)
    BY <2>4 DEF Window, Shown, BlankRows
  <2>6. PICK p \in Sheets : p = Window(v)
    BY <1>4, <2>1, ShownSheet DEF Window
  <2>7. p.line = 1 /\ p.col = 0
    BY <1>4, <2>1, <2>6, ShownSheet DEF Window
  <2> QED
    BY <2>2, <2>5, <2>6, <2>7 DEF Sheets
<1> QED
  BY <1>3, <1>4, <1>5 DEF PaperInv, Busy, Writing

LEMMA PaperNextInv ==
    ASSUME Preempt = FALSE, Inv, PaperInv, [PaperNext]_paperVars PROVE PaperInv'
<1>1. CASE UNCHANGED paperVars
  BY <1>1 DEF paperVars, vars, PaperInv, Busy, Window, Shown, Spot, fb_adr
<1>2. CASE PaperNext
  <2>1. Next
    BY <1>2 DEF PaperNext
  <2>2. ASSUME NEW k \in Context, Step(k) PROVE PaperInv'
    BY <1>2, <2>2, PaperEscape, PaperControls, PaperBackspace, PaperGlyph, PaperTab,
       PaperTabStep, PaperRows, PaperScroll, PaperCopy, PaperDisplay DEF Step
  <2>3. ASSUME NEW k \in Context, NEW c \in Chars, Putch(k, c) PROVE PaperInv'
    BY <1>2, <2>3, PaperStarts
  <2>4. ASSUME NEW k \in Threads, NEW y \in 0 .. (HEIGHT - 1), MoveCursor(k, y) PROVE PaperInv'
    BY <1>2, <2>4, PaperStarts DEF Context
  <2>5. ASSUME NEW v \in VCs, SelectVc(v) PROVE PaperInv'
    BY <1>2, <2>5, PaperStarts DEF Context
  <2> QED
    BY <2>1, <2>2, <2>3, <2>4, <2>5 DEF Next
<1> QED
  BY <1>1, <1>2

(***************************************************************************)
(* Between two calls the screen shows the last rows of what was typed, and *)
(* the cursor stands where the next character will be: the wrapping, the   *)
(* tabs and the scrolling that putch_help does in several steps lose no    *)
(* cell, on any number and size of consoles (video.c:151-312, and scroll). *)
(***************************************************************************)
THEOREM ScreenIsWindowTheorem ==
    ASSUME Preempt = FALSE PROVE PaperSpec => []ScreenIsWindow
<1>1. PaperInit => Inv /\ PaperInv
  BY InitInv, PaperBegins DEF PaperInit
<1>2. Inv /\ PaperInv /\ [PaperNext]_paperVars => (Inv /\ PaperInv)'
  <2> SUFFICES ASSUME Inv, PaperInv, [PaperNext]_paperVars PROVE Inv' /\ PaperInv'
    OBVIOUS
  <2>1. [Next]_vars
    BY DEF PaperNext, paperVars
  <2> QED
    BY <2>1, NextInv, PaperNextInv
<1>3. Inv /\ PaperInv => ScreenIsWindow
  <2> SUFFICES ASSUME Inv, PaperInv, \A k \in Context : call[k].at = "idle", NEW v \in VCs
               PROVE  /\ \A y \in 0 .. (HEIGHT - 1), x \in 0 .. (WIDTH - 1) :
                           fb[fb_adr(v) + y * WIDTH + x] = paper[v].rows[y + 1][x]
                      /\ vc[v].csr_x = paper[v].col
                      /\ vc[v].csr_y = paper[v].line - 1
    BY DEF ScreenIsWindow
  <2>1. paper[v] = Window(v) /\ fb \in Memory
    BY DEF PaperInv, Busy
  <2>2. vc[v] \in VCRec /\ vc[v].csr_y \in Nat
    BY DEF Inv, TypeInv, VCRec
  <2>3. /\ paper[v].line = vc[v].csr_y + 1 /\ paper[v].col = vc[v].csr_x
        /\ \A y \in 1 .. HEIGHT, x \in 0 .. (WIDTH - 1) :
             paper[v].rows[y][x] = fb[Spot(v, y - 1, x)]
    BY <2>1, <2>2, ShownSheet DEF Window
  <2>4. ASSUME NEW y \in 0 .. (HEIGHT - 1), NEW x \in 0 .. (WIDTH - 1)
        PROVE  fb[fb_adr(v) + y * WIDTH + x] = paper[v].rows[y + 1][x]
    <3>1. y + 1 \in 1 .. HEIGHT /\ (y + 1) - 1 = y
      BY SizesNat
    <3>2. paper[v].rows[y + 1][x] = fb[Spot(v, y, x)]
      BY <2>3, <3>1
    <3> QED
      BY <3>2 DEF Spot
  <2> QED
    BY <2>2, <2>3, <2>4
<1> QED
  BY <1>1, <1>2, <1>3, PTL DEF PaperSpec

=============================================================================
