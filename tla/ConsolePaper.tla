---------------------------- MODULE ConsolePaper ---------------------------
(***************************************************************************)
(* What a console promises, stated without scrolling: text is typed on an  *)
(* endless roll of paper, and the screen is a window on its last HEIGHT    *)
(* rows.  The roll is a history of Console: it is typed on in the step in  *)
(* which putch_help takes a character, and compared with the screen when   *)
(* no putch_help is in progress.  Rows that have left the window are never *)
(* seen again, so only the last HEIGHT are kept: rows[1] is the first one  *)
(* shown, and the cursor is on rows[line].                                 *)
(***************************************************************************)
EXTENDS Console, Sequences

VARIABLE paper

paperVars == <<vars, paper>>

BlankRow(a) == [x \in 0 .. (WIDTH - 1) |-> Cell(SPACE, a)]
BlankRows(a) == [y \in 1 .. HEIGHT |-> BlankRow(a)]

(***************************************************************************)
(* The cursor moves to a row below: past the end, the roll grows by a row  *)
(* blank in attribute a.                                                   *)
(***************************************************************************)
NextRow(p, a) ==
    IF p.line < HEIGHT
      THEN [p EXCEPT !.col = 0, !.line = @ + 1]
      ELSE [p EXCEPT !.col = 0, !.rows = Append(Tail(@), BlankRow(a))]

Advanced(p, a) == IF p.col >= WIDTH THEN NextRow(p, a) ELSE p

Written(p, from, to, cell) ==
    [p EXCEPT !.rows[p.line] =
        [x \in 0 .. (WIDTH - 1) |-> IF x \in from .. to THEN cell ELSE @[x]]]

(***************************************************************************)
(* The roll after character c, for a console whose escape state and        *)
(* attribute are r's.                                                      *)
(***************************************************************************)
TypedEscape(p, r, c) ==
    LET moved == Parsed(r, c) IN
      CASE Clears(r, c) ->
             [p EXCEPT !.line = 1, !.col = 0, !.rows = BlankRows(r.attrib)]
        [] r.esc = 3 /\ c = CSI_H ->
             [p EXCEPT !.col = moved.csr_x, !.line = 1 + moved.csr_y]
        [] OTHER -> p

Typed(p, r, c) ==
    CASE InEscape(r, c) -> TypedEscape(p, r, c)
      [] OTHER ->
         CASE c >= SPACE ->
                LET q == Written(p, p.col, p.col, Cell(c, r.attrib)) IN
                  Advanced([q EXCEPT !.col = @ + 1], r.attrib)
           [] c = BS /\ p.col > 0 ->
                [Written(p, p.col - 1, p.col - 1, Cell(SPACE, r.attrib))
                   EXCEPT !.col = @ - 1]
           [] c = TAB ->
                LET stop == TABSTOP * (p.col \div TABSTOP + 1)
                    q == Written(p, p.col, stop - 1, Cell(SPACE, r.attrib))
                IN Advanced([q EXCEPT !.col = stop], r.attrib)
           [] c = LF -> NextRow(p, r.attrib)
           [] c = CR -> [p EXCEPT !.col = 0]
           [] OTHER -> p

PaperInit ==
    /\ Init
    /\ paper = [v \in VCs |-> [rows |-> BlankRows(v + 1), line |-> 1, col |-> 0]]

Taking(k, v) == At(k, "enter") /\ call[k].con = v

Moving(k) == call[k].at = "idle" /\ call'[k].at = "moved"

PaperNext ==
    /\ Next
    /\ paper' = [v \in VCs |->
         IF \E k \in Context : Taking(k, v) /\ call'[k].at # "enter"
           THEN LET k == CHOOSE k \in Context : Taking(k, v)
                IN Typed(paper[v], vc[v], call[k].chr)
         ELSE IF \E k \in Threads : Moving(k) /\ curr = v
           THEN [paper[v] EXCEPT !.col = 0, !.line = 1 + vc'[v].csr_y]
         ELSE paper[v]]

PaperSpec == PaperInit /\ [][PaperNext]_paperVars

(***************************************************************************)
(* The screen shows the last rows of the roll, and the cursor stands where *)
(* the next character will be typed: wrapping, tabs and scrolling, which   *)
(* putch_help does in several steps on a shared screen, lose nothing.      *)
(***************************************************************************)
ScreenIsWindow ==
    (\A k \in Context : call[k].at = "idle") =>
      \A v \in VCs :
        LET p == paper[v] IN
          /\ \A y \in 0 .. (HEIGHT - 1), x \in 0 .. (WIDTH - 1) :
                fb[fb_adr(v) + y * WIDTH + x] = p.rows[y + 1][x]
          /\ vc[v].csr_x = p.col
          /\ vc[v].csr_y = p.line - 1
=============================================================================
