------------------------------ MODULE Keyboard -----------------------------
(***************************************************************************)
(* The keyboard interrupt of ktux (kernel/keyboard.c) from the scancodes a *)
(* keyboard sends to the command line it edits: kbd_irq_handler,           *)
(* process_kbd, convert, cmd_buf_add, write_kbd.  The keyboard itself is   *)
(* external: a key that goes down sends its make code, again while it is   *)
(* held, and its break code when it comes up.  (The prefix 0xE0 of the     *)
(* grey keys is taken for the break code of a key that does not exist, so  *)
(* it is left out.)                                                        *)
(***************************************************************************)
EXTENDS Integers, Sequences, SequencesExt, FiniteSets

CONSTANTS
    Keys,            \* the keys that are used
    NUM_VCS,
    CMD_BUF_SIZE,
    MaxHeld,         \* bound of the model on the keys down at one time
    MaxWire,         \* bound of the model on the codes not yet read
    MaxLine          \* bound of the model on the characters of a line

ShiftKeys == {"left_shift", "right_shift"}
CtrlKeys  == {"left_ctrl", "right_ctrl"}
AltKeys   == {"left_alt", "right_alt"}
LockKeys  == {"caps_lock", "num_lock", "scroll_lock"}
\* F1..F10; F11 and F12 are outside the range process_kbd tests.
FunctionKeys == {"F1", "F2", "F3", "F10"}
TextKeys  == {"a", "s", "1", "backspace", "tab", "enter"}
\* Keys whose scancode converts to 0.
SpecialKeys == {"escape", "F11", "delete"}

ASSUME KeyboardAssumption ==
    /\ Keys \subseteq ShiftKeys \cup CtrlKeys \cup AltKeys \cup LockKeys
                        \cup FunctionKeys \cup TextKeys \cup SpecialKeys
    /\ NUM_VCS \in 1 .. 12
    /\ CMD_BUF_SIZE \in Nat \ {0}
    /\ MaxHeld \in Nat
    /\ MaxWire \in Nat
    /\ MaxLine \in Nat

VARIABLES
    held,           \* the keys that are down
    wire,           \* the codes sent and not yet read from port 0x60
    lockOn,         \* history: the locks the user has switched on
    typed,          \* history: the line the user has typed
    leds,           \* the lights of the keyboard
    kbd_status,     \* process_kbd's static
    commandBuffer, cmdBufPos,
    echoed,         \* the current line on the screen
    tabbed,         \* history: a tab was echoed on it
    console         \* the number of the selected console

user == <<held, wire, lockOn, typed>>
vars == <<user, leds, kbd_status, commandBuffer, cmdBufPos, echoed, tabbed, console>>

NUL == "nul"
Shifted(k) == CASE k = "a" -> "A" [] k = "s" -> "S" [] k = "1" -> "!"
                [] OTHER -> k
Capital(k) == CASE k = "a" -> "A" [] k = "s" -> "S" [] OTHER -> k
Glyphs == {"a", "s", "1", "A", "S", "!"}

(***************************************************************************)
(* What the user means by a key, with a shift key down or caps lock on.    *)
(***************************************************************************)
Meant(k) == CASE held \cap ShiftKeys # {} -> Shifted(k)
              [] "caps_lock" \in lockOn   -> Capital(k)
              [] OTHER                    -> k

Edited(line, k) ==
    CASE k = "backspace" -> IF line = <<>> THEN line ELSE Front(line)
      [] k = "enter"     -> <<>>
      [] k \in {"a", "s", "1"} -> Append(line, Meant(k))
      [] OTHER           -> line

Init ==
    /\ held = {}
    /\ wire = <<>>
    /\ lockOn = {}
    /\ typed = <<>>
    /\ leds = {}
    /\ kbd_status = {}
    /\ commandBuffer = [n \in 0 .. (CMD_BUF_SIZE - 1) |-> NUL]
    /\ cmdBufPos = 0
    /\ echoed = <<>>
    /\ tabbed = FALSE
    /\ console = 0

-----------------------------------------------------------------------------
(* The user and the keyboard. *)

\* An ENTER carries along the line it ends (history).
Code(k, break) ==
    [key |-> k, break |-> break, line |-> IF k = "enter" THEN typed ELSE <<>>]

Make(k) ==
    /\ Len(wire) < MaxWire
    /\ k \in {"a", "s", "1"} => Len(typed) < MaxLine
    /\ k = "tab" => Len(echoed) + Len(wire) < MaxLine
    /\ wire' = Append(wire, Code(k, FALSE))
    /\ typed' = Edited(typed, k)
    /\ lockOn' = IF k \notin LockKeys THEN lockOn
                 ELSE IF k \in lockOn THEN lockOn \ {k} ELSE lockOn \cup {k}

Press(k) ==
    /\ k \notin held
    /\ Cardinality(held) < MaxHeld
    /\ Make(k)
    /\ held' = held \cup {k}
    /\ UNCHANGED <<leds, kbd_status, commandBuffer, cmdBufPos, echoed, tabbed, console>>

Repeat(k) ==
    /\ k \in held
    /\ Make(k)
    /\ UNCHANGED <<held, leds, kbd_status, commandBuffer, cmdBufPos,
                   echoed, tabbed, console>>

Release(k) ==
    /\ k \in held
    /\ Len(wire) < MaxWire
    /\ wire' = Append(wire, Code(k, TRUE))
    /\ held' = held \ {k}
    /\ UNCHANGED <<lockOn, typed, leds, kbd_status, commandBuffer, cmdBufPos, echoed,
                   tabbed, console>>

-----------------------------------------------------------------------------
(* process_kbd, for the code at the head of the wire. *)

Meta(k) == CASE k \in AltKeys   -> {"alt"}
             [] k \in CtrlKeys  -> {"ctrl"}
             [] k \in ShiftKeys -> {"shift"}
             [] OTHER           -> {}

Reads(code) == /\ wire # <<>>
               /\ code = Head(wire)
               /\ wire' = Tail(wire)
               /\ UNCHANGED <<held, lockOn, typed>>

\* Mutant of BreakCode: the break code of the right shift is missed.
MutantLeftOnly(code) ==
    /\ Reads(code)
    /\ code.break
    /\ kbd_status' = IF code.key = "right_shift" THEN kbd_status
                     ELSE kbd_status \ Meta(code.key)
    /\ UNCHANGED <<leds, commandBuffer, cmdBufPos, echoed, tabbed, console>>

BreakCode(code) ==
    /\ Reads(code)
    /\ code.break
    /\ kbd_status' = kbd_status \ Meta(code.key)
    /\ UNCHANGED <<leds, commandBuffer, cmdBufPos, echoed, tabbed, console>>

MetaKey(code) ==
    /\ Reads(code)
    /\ ~code.break
    /\ Meta(code.key) # {}
    /\ kbd_status' = kbd_status \cup Meta(code.key)
    /\ UNCHANGED <<leds, commandBuffer, cmdBufPos, echoed, tabbed, console>>

Toggled(status, k) == IF k \in status THEN status \ {k} ELSE status \cup {k}

\* Mutant of LockKey: the lights are computed before the toggle.
MutantLedsBefore(code) ==
    /\ Reads(code)
    /\ ~code.break
    /\ code.key \in LockKeys
    /\ kbd_status' = Toggled(kbd_status, code.key)
    /\ leds' = kbd_status \cap LockKeys
    /\ UNCHANGED <<commandBuffer, cmdBufPos, echoed, tabbed, console>>

(***************************************************************************)
(* Both write_kbd calls succeed: the controller takes the bytes before     *)
(* 500000 polls have passed.                                               *)
(***************************************************************************)
LockKey(code) ==
    /\ Reads(code)
    /\ ~code.break
    /\ code.key \in LockKeys
    /\ kbd_status' = Toggled(kbd_status, code.key)
    /\ leds' = kbd_status' \cap LockKeys
    /\ UNCHANGED <<commandBuffer, cmdBufPos, echoed, tabbed, console>>

ConsoleOf(k) == CASE k = "F1" -> 0 [] k = "F2" -> 1 [] k = "F3" -> 2
                  [] k = "F10" -> 9

FunctionKey(code) ==
    /\ Reads(code)
    /\ ~code.break
    /\ code.key \in FunctionKeys
    /\ console' = IF ConsoleOf(code.key) < NUM_VCS THEN ConsoleOf(code.key)
                  ELSE console
    /\ UNCHANGED <<leds, kbd_status, commandBuffer, cmdBufPos, echoed, tabbed>>

\* Mutant of convert: caps lock is looked at first.
MutantCapsFirst(k) == CASE "caps_lock" \in kbd_status -> Capital(k)
                        [] "shift" \in kbd_status     -> Shifted(k)
                        [] OTHER                      -> k

(***************************************************************************)
(* convert: one of three tables.  The test for Ctrl-Alt-Del compares with  *)
(* a value no table holds, so a key never reboots.                         *)
(***************************************************************************)
convert(k) == CASE "shift" \in kbd_status     -> Shifted(k)
                [] "caps_lock" \in kbd_status -> Capital(k)
                [] OTHER                      -> k

(***************************************************************************)
(* A store past the end of the array changes something else.               *)
(***************************************************************************)
StoreCommand(n, c) ==
    commandBuffer' = [m \in DOMAIN commandBuffer |->
                        IF m = n THEN c ELSE commandBuffer[m]]

(***************************************************************************)
(* The string processCommand reads, up to the first NUL.                   *)
(***************************************************************************)
CommandString ==
    LET size == CHOOSE n \in 0 .. CMD_BUF_SIZE :
                   /\ \A m \in 0 .. (n - 1) : commandBuffer[m] # NUL
                   /\ n < CMD_BUF_SIZE => commandBuffer[n] = NUL
    IN [m \in 1 .. size |-> commandBuffer[m - 1]]

\* Mutant of AddBackspace: the character stays in the buffer.
MutantNotErased ==
    /\ cmdBufPos > 0
    /\ cmdBufPos' = cmdBufPos - 1
    /\ UNCHANGED commandBuffer

AddBackspace ==
    /\ cmdBufPos > 0
    /\ cmdBufPos' = cmdBufPos - 1
    /\ StoreCommand(cmdBufPos - 1, NUL)

AddEnter ==
    /\ commandBuffer' = [n \in DOMAIN commandBuffer |-> NUL]
    /\ cmdBufPos' = 0

(***************************************************************************)
(* (cmdBufPos + 8) & 7 is never greater than cmdBufPos: a tab stores       *)
(* nothing.                                                                *)
(***************************************************************************)
AddTab == UNCHANGED <<commandBuffer, cmdBufPos>>

AddCharacter(c) ==
    /\ StoreCommand(cmdBufPos % CMD_BUF_SIZE, c)
    /\ cmdBufPos' = cmdBufPos + 1

(***************************************************************************)
(* cmd_buf_add, and the echo when it succeeds: only the backspace of an    *)
(* empty line fails.                                                       *)
(***************************************************************************)
TextKey(code) ==
    /\ Reads(code)
    /\ ~code.break
    /\ code.key \in TextKeys
    /\ LET c == convert(code.key) IN
         \/ c = "backspace" /\ AddBackspace
              /\ echoed' = IF echoed = <<>> THEN echoed ELSE Front(echoed)
         \/ c = "enter" /\ AddEnter /\ echoed' = <<>>
         \/ c = "tab" /\ AddTab /\ echoed' = Append(echoed, c)
         \/ c \in Glyphs /\ AddCharacter(c) /\ echoed' = Append(echoed, c)
    /\ tabbed' = (code.key = "tab" \/ (tabbed /\ code.key # "enter"))
    /\ UNCHANGED <<leds, kbd_status, console>>

(***************************************************************************)
(* Nothing is done: a key without a character, the backspace of an empty   *)
(* line.                                                                   *)
(***************************************************************************)
Ignored(code) ==
    /\ Reads(code)
    /\ ~code.break
    /\ \/ code.key \in SpecialKeys
       \/ code.key = "backspace" /\ cmdBufPos = 0
    /\ UNCHANGED <<leds, kbd_status, commandBuffer, cmdBufPos, echoed, tabbed, console>>

KbdIrq ==
    \E code \in {wire[n] : n \in 1 .. Len(wire)} :
        \/ BreakCode(code) \/ MetaKey(code) \/ LockKey(code)
        \/ FunctionKey(code) \/ TextKey(code) \/ Ignored(code)

Next ==
    \/ \E k \in Keys : Press(k) \/ Repeat(k) \/ Release(k)
    \/ KbdIrq

Spec == Init /\ [][Next]_vars

-----------------------------------------------------------------------------
TypeOK ==
    /\ held \subseteq Keys
    /\ \A n \in 1 .. Len(wire) : wire[n].key \in Keys /\ wire[n].break \in BOOLEAN
    /\ lockOn \subseteq LockKeys
    /\ leds \subseteq LockKeys
    /\ kbd_status \subseteq {"alt", "ctrl", "shift"} \cup LockKeys
    /\ commandBuffer \in [0 .. (CMD_BUF_SIZE - 1) -> Glyphs \cup {NUL}]
    /\ cmdBufPos \in 0 .. CMD_BUF_SIZE
    /\ console \in 0 .. (NUM_VCS - 1)

AllRead == wire = <<>>

(***************************************************************************)
(* The command ENTER gives processCommand is what was typed before it,     *)
(* with backspaces, shift and caps lock applied, however far the           *)
(* interrupts lag behind the fingers (keyboard.c:279-310), as long as it   *)
(* is shorter than the buffer.                                             *)
(***************************************************************************)
EnterExecutesLine ==
    [][\A code \in {wire[n] : n \in 1 .. Len(wire)} :
         Reads(code) /\ code.key = "enter" /\ ~code.break
           => CommandString = code.line]_vars

(***************************************************************************)
(* What the user sees on the line is what ENTER will execute, as long as   *)
(* no tab was typed on it (a tab is echoed and not stored, so the next     *)
(* backspace erases a character of the command and leaves it on screen).   *)
(***************************************************************************)
EchoIsCommand == tabbed \/ echoed = CommandString

(***************************************************************************)
(* No modifier stays on when every key is up: each break code undoes its   *)
(* make codes, in whatever order keys of the same kind come and go.        *)
(***************************************************************************)
NoStuckModifier ==
    AllRead /\ held = {} => kbd_status \subseteq LockKeys

(***************************************************************************)
(* The lights show the state the conversion uses, and that is the state    *)
(* the user has switched to.                                               *)
(***************************************************************************)
LightsAreLocks ==
    /\ leds = kbd_status \cap LockKeys
    /\ AllRead => leds = lockOn

(***************************************************************************)
(* "Shift is pressed" (KBD_META_SHIFT, keyboard.h:72).                     *)
(***************************************************************************)
ShiftIsPressed ==
    AllRead => ("shift" \in kbd_status <=> held \cap ShiftKeys # {})
=============================================================================
