------------------------------- MODULE Printf ------------------------------
(***************************************************************************)
(* Formatted output (kernel/stdio.c): do_printf's scan of a format, one    *)
(* action per turn of its loop, under kprintf (characters go to putch) and *)
(* under sprintf (characters go through a pointer into the caller's        *)
(* buffer).  An element of a string is a member of a small set, never a    *)
(* byte; a numeric argument is one stack item of the size of a long.  The  *)
(* caller ends every directive it begins: behind a format that ends in %   *)
(* or %0 the scan would pass the NUL (stdio.c:50 and 75).                  *)
(***************************************************************************)
EXTENDS Integers, Sequences, SequencesExt

CONSTANTS
    LONG_MAX,       \* the largest int and long (2^31 - 1 in the program)
    SHRT_MAX,       \* the largest short (2^15 - 1)
    Widths,         \* the field widths the formats ask for, 0 for none
    Modifiers,      \* the modifiers they use, "" for none
    Conversions,    \* the conversion characters they use
    Words,          \* the arguments of numeric conversions
    Lengths,        \* the lengths of the strings given to %s
    Illegal,        \* the illegal directives they contain
    Calls           \* the sequences of directives asked for in one call

\* How many values a long and a short have, signed or not.
Longs == 2 * (LONG_MAX + 1)
Shorts == 2 * (SHRT_MAX + 1)

ASSUME PrintfAssumption ==
    /\ SHRT_MAX \in Nat /\ LONG_MAX \in Nat /\ SHRT_MAX <= LONG_MAX
    /\ Widths \subseteq 0 .. (Longs - 1)
    /\ Modifiers \subseteq {"", "F", "N", "L", "l", "h"}
    /\ Conversions \subseteq {"X", "x", "p", "n", "d", "i", "u", "o", "c", "s"}
    /\ Words \subseteq 0 .. (Longs - 1)
    /\ Lengths \subseteq Nat
    /\ Illegal \subseteq {"minus", "unknown", "width"}

VARIABLES
    items,          \* what the caller wants printed, chosen once
    text,           \* the format and its NUL in memory
    fn,             \* the callback: "kprintf_help" or "vsprintf_help"
    fmt,            \* the next character of text
    args,           \* the next argument
    state, flags, given_wd, count,
    screen,         \* what putch was given
    buffer, dst,    \* sprintf's buffer and vsprintf_help's pointer into it
    returned

call == <<items, text, fn>>
scan == <<fmt, args, state, flags, given_wd>>
output == <<count, screen, buffer, dst>>
vars == <<call, scan, output, returned>>

NUL == "nul"
Digit == <<"0", "1", "2", "3", "4", "5", "6", "7", "8", "9">>
Upper == Digit \o <<"A", "B", "C", "D", "E", "F">>
Lower == Digit \o <<"a", "b", "c", "d", "e", "f">>
Decimal == ToSet(Digit)
Copies(c, n) == [k \in 1 .. n |-> c]
If(cond, s) == IF cond THEN s ELSE <<>>
StringAt(p) == [k \in 1 .. p |-> ToString(k)]     \* the string at pointer p
Glyph(w) == If(w # 0, <<ToString(w)>>)            \* the string of the one code w

-----------------------------------------------------------------------------
(* What the caller means. *)

Numeric == {"X", "x", "p", "n", "d", "i", "u", "o"}
Signed == {"d", "i"}
Radix(conv) == CASE conv \in {"d", "i", "u"} -> 10 [] conv = "o" -> 8
                 [] OTHER -> 16

\* What a digit is worth that has k digits behind it.
Weight(radix) ==
    LET W[k \in Nat] == IF k = 0 THEN 1 ELSE radix * W[k - 1]
    IN  W

\* The number n with as few digits of the radix as it needs.
Numeral(n, radix, hex) ==
    LET k == CHOOSE k \in 1 .. (n + 1) :
                 n < Weight(radix)[k] /\ (k = 1 \/ Weight(radix)[k - 1] <= n)
    IN  [j \in 1 .. k |-> hex[1 + ((n \div Weight(radix)[k - j]) % radix)]]

\* How many values the type of an argument has.
Values(mod) == CASE mod = "h" -> Shorts [] mod = "L" -> Longs * Longs
                 [] OTHER -> Longs

\* The number a conversion is given: its argument words, low word first.
Value(i) ==
    LET n == (i.words[1] + (IF i.mod = "L" THEN i.words[2] * Longs ELSE 0))
                 % Values(i.mod)
    IN  IF i.conv \in Signed /\ 2 * n >= Values(i.mod) THEN n - Values(i.mod) ELSE n

Field(i) ==
    LET v == IF i.conv \in Numeric THEN Value(i) ELSE 0
        sign == IF v < 0 THEN <<"-">> ELSE <<>>
        body == CASE i.conv = "c" -> Glyph(i.words[1])
                  [] i.conv = "s" -> StringAt(i.words[1])
                  [] OTHER -> Numeral(IF v < 0 THEN -v ELSE v, Radix(i.conv),
                                  IF i.conv = "X" THEN Upper ELSE Lower)
        width == IF i.conv = "c" THEN 1 ELSE Len(sign \o body)
        pad == IF i.wd > width THEN i.wd - width ELSE 0
    IN  CASE i.lj -> sign \o body \o Copies(" ", pad)
          [] ~i.lj /\ i.lz /\ i.conv \in Numeric -> sign \o Copies("0", pad) \o body
          [] OTHER -> Copies(" ", pad) \o sign \o body

Meant(i) == CASE i.kind = "field"   -> Field(i)
              [] i.kind = "percent" -> <<"%">>
              [] i.kind = "text"    -> <<"t">>
              [] OTHER              -> <<>>

\* How the caller writes it.
Spelling(i) ==
    CASE i.kind = "field" ->
            <<"%">> \o If(i.lj, <<"-">>) \o If(i.lz, <<"0">>)
                \o If(i.wd > 0, Numeral(i.wd, 10, Lower))
                \o If(i.mod # "", <<i.mod>>) \o <<i.conv>>
      [] i.kind = "percent" -> <<"%", "%">>
      [] i.kind = "text"    -> <<"t">>
      [] i.kind = "minus"   -> <<"%", "-", "-">>
      [] i.kind = "unknown" -> <<"%", "0", "3", "q">>
      [] i.kind = "width"   -> <<"%", "5", "%">>

Format(s) == FlattenSeq([k \in 1 .. Len(s) |-> Spelling(s[k])])
Printed(s) == FlattenSeq([k \in 1 .. Len(s) |-> Meant(s[k])])
WordsOf(i) == IF i.kind = "field" THEN i.words ELSE <<>>
Arguments(s) == FlattenSeq([k \in 1 .. Len(s) |-> WordsOf(s[k])])

\* The argument words a directive can be given.
Given(mod, conv) ==
    CASE conv = "c" -> [1 .. 1 -> {0, 1}]
      [] conv = "s" -> [1 .. 1 -> Lengths]
      [] conv \in Numeric /\ mod = "L" -> [1 .. 2 -> Words]
      [] conv \in Numeric /\ mod # "L" -> [1 .. 1 -> Words]

Fields == UNION {[kind : {"field"}, lj : BOOLEAN, lz : BOOLEAN, wd : Widths,
                  mod : {p[1]}, conv : {p[2]}, words : Given(p[1], p[2])]
                 : p \in Modifiers \X Conversions}
Plain == [kind : {"text", "percent"} \cup Illegal]

ASSUME CallsAssumption == Calls \subseteq Seq(Fields \cup Plain)

-----------------------------------------------------------------------------
(* The program. *)

\* What the caller's buffer holds before: room for the string and its NUL.
Stale == [k \in 1 .. (Len(Printed(items)) + 2) |-> "stale"]

Init ==
    /\ items \in Calls
    /\ text = Format(items) \o <<NUL>>
    /\ fn \in {"kprintf_help", "vsprintf_help"}
    /\ fmt = 1
    /\ args = 1
    /\ state = 0
    /\ flags = {}
    /\ given_wd = 0
    /\ count = 0
    /\ screen = <<>>
    /\ buffer = Stale
    /\ dst = 1
    /\ returned = FALSE

Argument(n) == Arguments(items)[n]

\* Calls of fn, one per character of s.
Emit(s) ==
    /\ count' = count + Len(s)
    /\ IF fn = "kprintf_help"
       THEN /\ screen' = screen \o s
            /\ UNCHANGED <<buffer, dst>>
       ELSE /\ buffer' = [k \in DOMAIN buffer |->
                              IF k \in dst .. (dst + Len(s) - 1) THEN s[k - dst + 1]
                                                                 ELSE buffer[k]]
            /\ dst' = dst + Len(s)
            /\ UNCHANGED screen

\* Mutant of Reset: the flags of a directive outlive it.
MutantKeepFlags == state' = 0 /\ given_wd' = 0 /\ UNCHANGED flags

Reset == state' = 0 /\ flags' = {} /\ given_wd' = 0

(* One turn of the loop falls through the states until one takes the      *)
(* character: At1 and At2 are where fmt then points in states 1 and 2.    *)
Turn == ~returned /\ text[fmt] # NUL
Percent == state = 0 /\ text[fmt] = "%"
At1 == IF Percent THEN fmt + 1 ELSE fmt
InFlags == Turn /\ (Percent \/ state = 1)
PastFlags == InFlags /\ text[At1] \notin {"%", "-"}
ZeroFlag == PastFlags /\ text[At1] = "0"
At2 == IF ZeroFlag THEN At1 + 1 ELSE At1
FlagsAt2 == IF ZeroFlag THEN flags \cup {"LZ"} ELSE flags
InWidth == PastFlags \/ (Turn /\ state = 2)
PastWidth == InWidth /\ text[At2] \notin Decimal
InModifiers == PastWidth \/ (Turn /\ state = 3)

Echo ==
    /\ Turn /\ state = 0 /\ ~Percent
    /\ Emit(<<text[fmt]>>)
    /\ fmt' = fmt + 1
    /\ UNCHANGED <<call, args, state, flags, given_wd, returned>>

PercentSign ==
    /\ InFlags /\ text[At1] = "%"
    /\ Emit(<<"%">>)
    /\ Reset
    /\ fmt' = At1 + 1
    /\ UNCHANGED <<call, args, returned>>

Minus ==
    /\ InFlags /\ text[At1] = "-"
    /\ IF "LJ" \in flags THEN Reset
       ELSE flags' = flags \cup {"LJ"} /\ state' = 1 /\ UNCHANGED given_wd
    /\ fmt' = At1 + 1
    /\ UNCHANGED <<call, args, output, returned>>

Width ==
    /\ InWidth /\ text[At2] \in Decimal
    /\ given_wd' = (10 * given_wd + (CHOOSE d \in 1 .. 10 : Digit[d] = text[At2]) - 1) % Longs
    /\ flags' = FlagsAt2
    /\ state' = 2
    /\ fmt' = At2 + 1
    /\ UNCHANGED <<call, args, output, returned>>

FlagOf(c) == CASE c = "F" -> {"FP"} [] c = "L" -> {"64"} [] c = "l" -> {"32"}
               [] c = "h" -> {"16"} [] c = "N" -> {}

Modifier ==
    /\ InModifiers /\ text[At2] \in {"F", "N", "L", "l", "h"}
    /\ flags' = FlagsAt2 \cup FlagOf(text[At2])
    /\ state' = 3
    /\ fmt' = At2 + 1
    /\ UNCHANGED <<call, args, given_wd, output, returned>>

\* What va_arg leaves in num, a long, for the flags f.
Loaded(w, f) ==
    IF f \cap {"32", "64"} = {} /\ "16" \in f
    THEN LET low == w % Shorts
         IN  IF "SG" \in f /\ low > SHRT_MAX THEN low + Longs - Shorts ELSE low
    ELSE w

\* The do-while that divides num by the radix, the last digit first.
Digits(num, radix, f) ==
    LET hex == IF "CA" \in f THEN Upper ELSE Lower
        Convert[n \in Nat] ==
            (IF n \div radix = 0 THEN <<>> ELSE Convert[n \div radix])
                \o <<hex[1 + (n % radix)]>>
    IN  Convert[num]

\* EMIT and EMIT2: pad, sign, text and pad again.
Padded(where, actual_wd, f) ==
    LET sign == If("WS" \in f, <<"-">>)
        left == IF "LJ" \notin f /\ given_wd > actual_wd THEN given_wd - actual_wd ELSE 0
        right == IF given_wd - left < actual_wd THEN 0 ELSE given_wd - left - actual_wd
    IN  If("LZ" \in f, sign) \o Copies(IF "LZ" \in f THEN "0" ELSE " ", left)
            \o If("LZ" \notin f, sign) \o where \o Copies(" ", right)

\* DO_NUM.
Number(conv) ==
    LET f == FlagsAt2 \cup (IF conv = "X" THEN {"CA"} ELSE {})
                      \cup (IF conv \in Signed THEN {"SG"} ELSE {})
        num == Loaded(Argument(args), f)
        negative == conv \in Signed /\ num > LONG_MAX
        g == IF negative THEN f \cup {"WS"} ELSE f
        where == Digits(IF negative THEN (Longs - num) % Longs ELSE num,
                        Radix(conv), g)
    IN  /\ Emit(Padded(where, Len(where) + (IF negative THEN 1 ELSE 0), g))
        /\ args' = args + (IF "64" \in f /\ "32" \notin f THEN 2 ELSE 1)

Character ==
    Emit(Padded(Glyph(Argument(args)), 1, FlagsAt2 \ {"LZ"})) /\ args' = args + 1

String ==
    LET where == StringAt(Argument(args))
    IN  Emit(Padded(where, Len(where), FlagsAt2 \ {"LZ"})) /\ args' = args + 1

Conversion ==
    /\ InModifiers /\ text[At2] \notin {"F", "N", "L", "l", "h"}
    /\ CASE text[At2] \in Numeric -> Number(text[At2])
         [] text[At2] = "c"       -> Character
         [] text[At2] = "s"       -> String
         [] OTHER                   -> UNCHANGED <<output, args>>
    /\ Reset
    /\ fmt' = At2 + 1
    /\ UNCHANGED <<call, returned>>

\* do_printf returns, and vsprintf ends the string it built.
Return ==
    /\ ~returned /\ text[fmt] = NUL
    /\ buffer' = IF fn = "vsprintf_help" THEN [buffer EXCEPT ![count + 1] = NUL]
                                         ELSE buffer
    /\ returned' = TRUE
    /\ UNCHANGED <<call, scan, count, screen, dst>>

Next == Echo \/ PercentSign \/ Minus \/ Width \/ Modifier \/ Conversion \/ Return

Spec == Init /\ [][Next]_vars

-----------------------------------------------------------------------------
(* What should hold. *)

Sent == IF fn = "kprintf_help" THEN screen ELSE SubSeq(buffer, 1, count)

(* Between two items of the format nothing of the first is left in the     *)
(* parser's state, whatever its flags, width and modifiers were and even   *)
(* if it was illegal, and exactly what the items so far mean has been      *)
(* printed: sign, padding, digits and width (do_printf).  What sprintf     *)
(* leaves in the buffer ends where its return value says, and kprintf      *)
(* touches no buffer (vsprintf_help, vsprintf).                            *)
ItemsPrinted ==
    /\ \A k \in 0 .. Len(items) :
          fmt = Len(Format(SubSeq(items, 1, k))) + 1
              => /\ state = 0 /\ flags = {} /\ given_wd = 0
                 /\ Sent = Printed(SubSeq(items, 1, k)) /\ count = Len(Sent)
    /\ returned => buffer = IF fn = "kprintf_help" THEN Stale
                                                   ELSE Printed(items) \o <<NUL, "stale">>
=============================================================================
