------------------------------ MODULE Console ------------------------------
(***************************************************************************)
(* The virtual consoles of ktux (kernel/video.c): putch_help, its escape   *)
(* sequences, scrolling and the hardware cursor, called by threads         *)
(* (kprintf) and by the keyboard interrupt (echo, function keys).          *)
(* Characters are their ASCII codes.  A step is a stretch of putch_help    *)
(* between two accesses to state that the interrupt also uses.             *)
(***************************************************************************)
EXTENDS Integers

CONSTANTS
    WIDTH, HEIGHT,     \* _vc_width, _vc_height
    TABSTOP,           \* 8
    NUM_VCS,
    Threads,           \* the threads that print
    Chars,             \* the characters printed
    MaxArg,            \* bound of the model on the numbers in escape sequences
    Preempt            \* TRUE: interrupts arrive in the middle of putch_help

ASSUME ConsoleAssumption ==
    /\ WIDTH \in Nat \ {0} /\ HEIGHT \in Nat \ {0}
    /\ TABSTOP \in Nat \ {0} /\ WIDTH % TABSTOP = 0
    /\ NUM_VCS \in Nat \ {0}
    /\ "irq" \notin Threads
    /\ Chars \subseteq 0 .. 255
    /\ MaxArg \in Nat
    /\ Preempt \in BOOLEAN

VARIABLES
    vc,           \* the consoles: escape state, attribute and cursor
    curr,         \* _curr_vc
    fb,           \* the cells of display memory
    crtc,         \* index register, start address, two halves of the cursor
    call          \* per context: where it is in putch_help, and its variables

vars == <<vc, curr, fb, crtc, call>>

Idle == [at |-> "idle", con |-> 0, chr |-> 0, att |-> 0, eot |-> 0, temp |-> 0]

BS == 8
TAB == 9
LF == 10
CR == 13
ESC == 27
SPACE == 32
SEMICOLON == 59
LBRACKET == 91
CSI_H == 72       \* 'H'
CSI_J == 74       \* 'J'
CSI_M == 109      \* 'm'
isdigit(c) == c \in 48 .. 57

VCs == 0 .. (NUM_VCS - 1)
Context == Threads \cup {"irq"}
SCREEN == WIDTH * HEIGHT
fb_adr(v) == v * SCREEN
OwnCells(v) == fb_adr(v) .. (fb_adr(v) + SCREEN - 1)
Cells == 0 .. (NUM_VCS * SCREEN - 1)

\* What a cell shows: whether it is blank, and its attribute.
Cell(c, a) == [ink |-> c # SPACE, att |-> a]
Cursor(v) == fb_adr(v) + vc[v].csr_y * WIDTH + vc[v].csr_x

\* A store outside display memory changes something that is not modelled.
Store(a, cell) ==
    fb' = [b \in Cells |-> IF b = a THEN cell ELSE fb[b]]

-----------------------------------------------------------------------------
(* set_attrib, and the escape sequences. *)

ansi_to_vga == <<0, 4, 2, 6, 1, 5, 3, 7>>

SetAttrib(a, n) ==
    CASE n = 0 /\ (a \div 8) % 2 = 1 -> a - 8
      [] n = 1 /\ (a \div 8) % 2 = 0 -> a + 8
      [] n \in 30 .. 37 -> a - (a % 8) + ansi_to_vga[n - 29]
      [] n \in 40 .. 47 -> a - 16 * ((a \div 16) % 8) + 16 * ansi_to_vga[n - 39]
      [] OTHER -> a

InEscape(r, c) == r.esc > 1 \/ (r.esc = 1 /\ c = LBRACKET)

\* Mutant of Moved: without the comparisons.
MutantMoveAnywhere(r) == [r EXCEPT !.csr_x = r.arg[2], !.csr_y = r.arg[1]]

(***************************************************************************)
(* ESC[num1;num2H.                                                         *)
(***************************************************************************)
Moved(r) ==
    [r EXCEPT !.csr_x = IF r.arg[2] < WIDTH THEN r.arg[2] ELSE @,
              !.csr_y = IF r.arg[1] < HEIGHT THEN r.arg[1] ELSE @]

(***************************************************************************)
(* The console after c in the middle of an escape sequence; esc - 1        *)
(* arguments have been seen.                                               *)
(***************************************************************************)
Parsed(r, c) ==
    LET n == r.esc - 1
        arg == r.arg
        done == [r EXCEPT !.esc = 0]
    IN CASE n = 0 -> [r EXCEPT !.esc = 2, !.arg[1] = 0]
         [] n > 0 /\ isdigit(c) -> [r EXCEPT !.arg[n] = 10 * @ + c - 48]
         [] n \in {1, 2} /\ c = SEMICOLON ->
                [r EXCEPT !.esc = @ + 1, !.arg[n + 1] = 0]
         [] n = 1 /\ c = CSI_J /\ arg[1] = 2 ->
                [done EXCEPT !.csr_x = 0, !.csr_y = 0]
         [] n = 2 /\ c = CSI_H -> Moved(done)
         [] n > 0 /\ c = CSI_M ->
                LET one == SetAttrib(r.attrib, arg[1])
                    two == SetAttrib(one, arg[2])
                IN [done EXCEPT !.attrib = CASE n = 1 -> one [] n = 2 -> two
                                             [] OTHER -> SetAttrib(two, arg[3])]
         [] OTHER -> done

Clears(r, c) == r.esc = 2 /\ c = CSI_J /\ r.arg[1] = 2

-----------------------------------------------------------------------------
Init ==
    /\ vc = [v \in VCs |-> [esc |-> 0, arg |-> <<0, 0, 0>>, attrib |-> v + 1,
                            csr_x |-> 0, csr_y |-> 0]]
    /\ curr = 0
    /\ fb = [a \in Cells |-> Cell(SPACE, a \div SCREEN + 1)]
    /\ crtc = [index |-> 15, start |-> 0, hi |-> 0, lo |-> 0]
    /\ call = [k \in Context |-> Idle]

(***************************************************************************)
(* The interrupt runs to its end before any thread goes on.                *)
(***************************************************************************)
Runs(k) == k = "irq" \/ call["irq"].at = "idle"
MayStart(k) == /\ call[k].at = "idle"
               /\ Runs(k)
               /\ Preempt \/ \A j \in Context : call[j].at = "idle"

At(k, label) == call[k].at = label /\ Runs(k)
Goto(k, label) == call' = [call EXCEPT ![k].at = label]
Return(k) == call' = [call EXCEPT ![k] = Idle]
Here(k) == vc[call[k].con]

(***************************************************************************)
(* putch: kprintf of a thread, or the echo of process_kbd.                 *)
(***************************************************************************)
Putch(k, c) ==
    /\ MayStart(k)
    /\ InEscape(vc[curr], c) /\ isdigit(c) =>
          \A n \in 1 .. 3 : 10 * vc[curr].arg[n] + c - 48 <= MaxArg
    /\ call' = [call EXCEPT ![k].at = "enter", ![k].con = curr, ![k].chr = c,
                            ![k].att = vc[curr].attrib]
    /\ UNCHANGED <<vc, curr, fb, crtc>>

(***************************************************************************)
(* Inside an escape sequence putch_help returns without moving the cursor  *)
(* of the display.                                                         *)
(***************************************************************************)
EscapeChar(k) ==
    /\ At(k, "enter")
    /\ InEscape(Here(k), call[k].chr)
    /\ vc' = [vc EXCEPT ![call[k].con] = Parsed(@, call[k].chr)]
    /\ fb' = IF Clears(Here(k), call[k].chr)
               THEN [a \in Cells |-> IF a \in OwnCells(call[k].con)
                                       THEN Cell(SPACE, call[k].att) ELSE fb[a]]
               ELSE fb
    /\ Return(k)
    /\ UNCHANGED <<curr, crtc>>

Plain(k) == At(k, "enter") /\ ~InEscape(Here(k), call[k].chr)

EscStart(k) ==
    /\ Plain(k)
    /\ call[k].chr = ESC
    /\ vc' = [vc EXCEPT ![call[k].con].esc = 1]
    /\ Return(k)
    /\ UNCHANGED <<curr, fb, crtc>>

Backspace(k) ==
    /\ Plain(k)
    /\ call[k].chr = BS
    /\ IF Here(k).csr_x # 0
         THEN /\ vc' = [vc EXCEPT ![call[k].con].esc = 0, ![call[k].con].csr_x = @ - 1]
              /\ Store(Cursor(call[k].con) - 1, Cell(SPACE, call[k].att))
         ELSE /\ vc' = [vc EXCEPT ![call[k].con].esc = 0]
              /\ UNCHANGED fb
    /\ Goto(k, "wrap")
    /\ UNCHANGED <<curr, crtc>>

\* Mutant of Tab: the stop is counted from the cursor.
MutantTabFromHere(k) ==
    /\ Plain(k)
    /\ call[k].chr = TAB
    /\ vc' = [vc EXCEPT ![call[k].con].esc = 0]
    /\ call' = [call EXCEPT ![k].at = "tab", ![k].eot = Here(k).csr_x + TABSTOP]
    /\ UNCHANGED <<curr, fb, crtc>>

Tab(k) ==
    /\ Plain(k)
    /\ call[k].chr = TAB
    /\ vc' = [vc EXCEPT ![call[k].con].esc = 0]
    /\ call' = [call EXCEPT ![k].at = "tab",
                   ![k].eot = TABSTOP * (Here(k).csr_x \div TABSTOP + 1)]
    /\ UNCHANGED <<curr, fb, crtc>>

TabStep(k) ==
    /\ At(k, "tab")
    /\ IF Here(k).csr_x # call[k].eot
         THEN /\ Store(Cursor(call[k].con), Cell(SPACE, call[k].att))
              /\ vc' = [vc EXCEPT ![call[k].con].csr_x = @ + 1]
              /\ UNCHANGED call
         ELSE Goto(k, "wrap") /\ UNCHANGED <<fb, vc>>
    /\ UNCHANGED <<curr, crtc>>

LineFeed(k) ==
    /\ Plain(k)
    /\ call[k].chr = LF
    /\ vc' = [vc EXCEPT ![call[k].con].esc = 0, ![call[k].con].csr_x = 0,
                        ![call[k].con].csr_y = @ + 1]
    /\ Goto(k, "wrap")
    /\ UNCHANGED <<curr, fb, crtc>>

CarriageReturn(k) ==
    /\ Plain(k)
    /\ call[k].chr = CR
    /\ vc' = [vc EXCEPT ![call[k].con].esc = 0, ![call[k].con].csr_x = 0]
    /\ Goto(k, "wrap")
    /\ UNCHANGED <<curr, fb, crtc>>

(***************************************************************************)
(* Any other control character prints nothing.                             *)
(***************************************************************************)
OtherControl(k) ==
    /\ Plain(k)
    /\ call[k].chr \in 0 .. (SPACE - 1) \ {ESC, BS, TAB, LF, CR}
    /\ vc' = [vc EXCEPT ![call[k].con].esc = 0]
    /\ Goto(k, "wrap")
    /\ UNCHANGED <<curr, fb, crtc>>

(***************************************************************************)
(* The store and the increment of csr_x are two steps.                     *)
(***************************************************************************)
PutGlyph(k) ==
    /\ Plain(k)
    /\ call[k].chr >= SPACE
    /\ Store(Cursor(call[k].con), Cell(call[k].chr, call[k].att))
    /\ vc' = [vc EXCEPT ![call[k].con].esc = 0]
    /\ Goto(k, "advance")
    /\ UNCHANGED <<curr, crtc>>

Advance(k) ==
    /\ At(k, "advance")
    /\ vc' = [vc EXCEPT ![call[k].con].csr_x = @ + 1]
    /\ Goto(k, "wrap")
    /\ UNCHANGED <<curr, fb, crtc>>

Wrap(k) ==
    /\ At(k, "wrap")
    /\ vc' = IF Here(k).csr_x >= WIDTH
               THEN [vc EXCEPT ![call[k].con].csr_x = 0, ![call[k].con].csr_y = @ + 1]
               ELSE vc
    /\ Goto(k, "scroll")
    /\ UNCHANGED <<curr, fb, crtc>>

-----------------------------------------------------------------------------
(* scroll *)

Scroll(k) ==
    /\ At(k, "scroll")
    /\ IF Here(k).csr_y >= HEIGHT
         THEN call' = [call EXCEPT ![k].at = "copy",
                                   ![k].temp = Here(k).csr_y - HEIGHT + 1]
         ELSE Goto(k, "move_csr")
    /\ UNCHANGED <<vc, curr, fb, crtc>>

\* Mutant of Copied: one VC's offset is lost.
MutantScrollFirst(v, n, a) ==
    IF a \in 0 .. (SCREEN - 1)
      THEN IF a + n * WIDTH < SCREEN THEN fb[a + n * WIDTH]
           ELSE Cell(SPACE, vc[v].attrib)
      ELSE fb[a]

(***************************************************************************)
(* The cell at a after the memcpy and the memsetw.                         *)
(***************************************************************************)
Copied(v, n, a) ==
    LET kept == fb_adr(v) + (HEIGHT - n) * WIDTH IN
      CASE a \in fb_adr(v) .. (kept - 1) -> fb[a + n * WIDTH]
        [] a \in kept .. (kept + WIDTH - 1) -> Cell(SPACE, vc[v].attrib)
        [] OTHER -> fb[a]

Copy(k) ==
    /\ At(k, "copy")
    /\ fb' = [a \in Cells |-> Copied(call[k].con, call[k].temp, a)]
    /\ Goto(k, "set_row")
    /\ UNCHANGED <<vc, curr, crtc>>

SetRow(k) ==
    /\ At(k, "set_row")
    /\ vc' = [vc EXCEPT ![call[k].con].csr_y = HEIGHT - 1]
    /\ Goto(k, "move_csr")
    /\ UNCHANGED <<curr, fb, crtc>>

-----------------------------------------------------------------------------
(* move_csr: two registers, each an index and a datum. *)

\* putch_help moves it only for the console that is selected.
MoveCsr(k) ==
    /\ \/ At(k, "move_csr")
       \/ At(k, "moved")
    /\ IF curr = call[k].con \/ call[k].at = "moved"
         THEN call' = [call EXCEPT ![k].at = "index_hi", ![k].temp = Cursor(curr)]
         ELSE Return(k)
    /\ UNCHANGED <<vc, curr, fb, crtc>>

OutIndex(k, label, register, next) ==
    /\ At(k, label)
    /\ crtc' = [crtc EXCEPT !.index = register]
    /\ IF next = "idle" THEN Return(k) ELSE Goto(k, next)

OutData(k, label, next) ==
    /\ At(k, label)
    /\ crtc' = CASE crtc.index = 14 -> [crtc EXCEPT !.hi = call[k].temp]
                 [] crtc.index = 15 -> [crtc EXCEPT !.lo = call[k].temp]
    /\ IF next = "idle" THEN Return(k) ELSE Goto(k, next)

\* Mutant of OutPort: both halves are sent to one register.
MutantOneIndex(k) ==
    \/ OutIndex(k, "index_hi", 14, "data_hi")
    \/ OutData(k, "data_hi", "index_lo")
    \/ OutIndex(k, "index_lo", 14, "data_lo")
    \/ OutData(k, "data_lo", "idle")

OutPort(k) ==
    \/ OutIndex(k, "index_hi", 14, "data_hi")
    \/ OutData(k, "data_hi", "index_lo")
    \/ OutIndex(k, "index_lo", 15, "data_lo")
    \/ OutData(k, "data_lo", "idle")

OutPorts(k) == OutPort(k) /\ UNCHANGED <<vc, curr, fb>>

(***************************************************************************)
(* move_cursor, called by thread_monitor with a row that it read earlier,  *)
(* perhaps from another console.                                           *)
(***************************************************************************)
MoveCursor(k, y) ==
    /\ MayStart(k)
    /\ vc' = [vc EXCEPT ![curr].csr_x = 0, ![curr].csr_y = y]
    /\ call' = [call EXCEPT ![k].at = "moved", ![k].con = curr]
    /\ UNCHANGED <<curr, fb, crtc>>

(***************************************************************************)
(* select_vc, for a function key.                                          *)
(***************************************************************************)
SelectVc(v) ==
    /\ MayStart("irq")
    /\ curr' = v
    /\ crtc' = [crtc EXCEPT !.start = fb_adr(v), !.index = 13]
    /\ call' = [call EXCEPT !["irq"].at = "moved", !["irq"].con = v]
    /\ UNCHANGED <<vc, fb>>

Step(k) ==
    \/ EscapeChar(k) \/ EscStart(k) \/ Backspace(k) \/ Tab(k) \/ TabStep(k)
    \/ LineFeed(k) \/ CarriageReturn(k) \/ OtherControl(k) \/ PutGlyph(k) \/ Advance(k)
    \/ Wrap(k) \/ Scroll(k) \/ Copy(k) \/ SetRow(k) \/ MoveCsr(k) \/ OutPorts(k)

Next ==
    \/ \E k \in Context : Step(k) \/ \E c \in Chars : Putch(k, c)
    \/ \E k \in Threads : \E y \in 0 .. (HEIGHT - 1) : MoveCursor(k, y)
    \/ \E v \in VCs : SelectVc(v)

Spec == Init /\ [][Next]_vars

-----------------------------------------------------------------------------
Labels == {"idle", "enter", "tab", "advance", "wrap", "scroll", "copy", "set_row",
           "move_csr", "moved", "index_hi", "data_hi", "index_lo", "data_lo"}

TypeOK ==
    /\ vc \in [VCs -> [esc : 0 .. 4, arg : [1 .. 3 -> Nat], attrib : 0 .. 127,
                       csr_x : Nat, csr_y : Nat]]
    /\ curr \in VCs
    /\ fb \in [Cells -> [ink : BOOLEAN, att : 0 .. 127]]
    /\ crtc.index \in {13, 14, 15} /\ crtc.start \in Cells
    /\ crtc.hi \in Nat /\ crtc.lo \in Nat
    /\ call \in [Context -> [at : Labels, con : VCs, chr : Chars \cup {0},
                             att : 0 .. 127, eot : Nat, temp : Nat]]

(***************************************************************************)
(* Every cell putch_help is about to write lies on the console it prints   *)
(* to: not on the next one, and not beyond display memory (video.c:274,    *)
(* 303, and scroll's memsetw).                                             *)
(***************************************************************************)
WritesOnOwnScreen ==
    \A k \in Context :
      /\ Plain(k) /\ call[k].chr >= SPACE => Cursor(call[k].con) \in OwnCells(call[k].con)
      /\ Plain(k) /\ call[k].chr = BS /\ Here(k).csr_x # 0
            => Cursor(call[k].con) - 1 \in OwnCells(call[k].con)
      /\ At(k, "tab") /\ Here(k).csr_x # call[k].eot
            => Cursor(call[k].con) \in OwnCells(call[k].con)
      /\ call[k].at = "copy" => call[k].temp \in 1 .. HEIGHT

(***************************************************************************)
(* Between two characters the cursor is on the screen, whatever came       *)
(* before: ESC[r;cH with any numbers, a tab in the last column, a line     *)
(* feed on the last row.                                                   *)
(***************************************************************************)
CursorOnScreen ==
    \A v \in VCs :
      (\A k \in Context : call[k].at = "idle" \/ call[k].con # v)
        => vc[v].csr_x < WIDTH /\ vc[v].csr_y < HEIGHT

(***************************************************************************)
(* When move_csr has written its four ports the display shows the cursor   *)
(* of the selected console, on the part of memory that is shown.           *)
(***************************************************************************)
CursorShown ==
    [][\A k \in Context :
         call[k].at = "data_lo" /\ call'[k].at = "idle"
           => /\ crtc'.hi = Cursor(curr)' /\ crtc'.lo = Cursor(curr)'
              /\ crtc'.start = fb_adr(curr)']_vars

(***************************************************************************)
(* "ESC[num1;num2H -- move cursor to num1,num2" (video.c:215).             *)
(***************************************************************************)
CursorFollowsEscapes ==
    (\A k \in Context : call[k].at = "idle") => crtc.hi = Cursor(curr)
=============================================================================
