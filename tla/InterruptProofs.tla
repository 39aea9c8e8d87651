-------------------------- MODULE InterruptProofs --------------------------
(***************************************************************************)
(* Proofs about the two halves of ktux's interrupts.  InterruptEntry, the  *)
(* stubs: for any number of threads, any nesting of interrupts and any     *)
(* exceptions.  InterruptRouting, who reaches which stub: for any set of   *)
(* drivers.  They share no state; RoutingSpec is the second one's.         *)
(***************************************************************************)
EXTENDS InterruptEntry, InterruptRouting, SequenceTheorems, TLAPS

(***************************************************************************)
(* The 15 words from depth n on are the context c, as the stubs restore    *)
(* it: the selector of the code and the saved ESP are not looked at.       *)
(***************************************************************************)
Saved(s, n, c) ==
    /\ s[n + 1] = Flags(c.iflag) /\ s[n + 3] = c.eip
    /\ s[n + 4] = c.regs["eax"] /\ s[n + 5] = c.regs["ecx"]
    /\ s[n + 6] = c.regs["edx"] /\ s[n + 7] = c.regs["ebx"]
    /\ s[n + 9] = c.regs["ebp"] /\ s[n + 10] = c.regs["esi"]
    /\ s[n + 11] = c.regs["edi"] /\ s[n + 12] = c.regs["gs"]
    /\ s[n + 13] = c.regs["fs"] /\ s[n + 14] = c.regs["es"]
    /\ s[n + 15] = c.regs["ds"]

(***************************************************************************)
(* The code e has n interrupted contexts below it: the thread's own code   *)
(* none, exception_handler the one that raised the exception, the keyboard *)
(* handler at least one.                                                   *)
(***************************************************************************)
AtLevel(e, n) ==
    /\ e \in {Code(p) : p \in Places}
    /\ n = 0 <=> e = Code("entry")
    /\ e = Code("panicked") => n = 1

(***************************************************************************)
(* How many of the contexts sh of a thread that runs the code e will never *)
(* be returned to: the first one, if exception_handler runs above it.      *)
(***************************************************************************)
Lost(sh, e) ==
    IF \/ Len(sh) = 1 /\ e = Code("panicked")
       \/ Len(sh) >= 2 /\ sh[2].eip = Code("panicked") THEN 1 ELSE 0

(***************************************************************************)
(* Up to depth top the stack s holds the contexts sh one behind the other. *)
(* Nothing is said of the first `lost' ones, which may lie deeper.         *)
(***************************************************************************)
Holds(s, top, sh, lost) ==
    /\ top <= Len(s)
    /\ top >= 15 * Len(sh)
    /\ lost = 0 => top = 15 * Len(sh)
    /\ \A k \in (lost + 1) .. Len(sh) :
         Saved(s, top - 15 * (Len(sh) - k + 1), sh[k])

(***************************************************************************)
(* A suspended thread runs nothing: it is inside the timer stub.           *)
(***************************************************************************)
Top(t) == IF t = cur THEN Len(stack[t]) ELSE esp0[t]
Runs(t) == IF t = cur THEN eip ELSE Zero

ThreadInv(t) ==
    /\ Holds(stack[t], Top(t), shadow[t], Lost(shadow[t], Runs(t)))
    /\ \A k \in 1 .. Len(shadow[t]) : AtLevel(shadow[t][k].eip, k - 1)
    /\ IF t = cur THEN AtLevel(eip, Len(shadow[t])) ELSE Len(shadow[t]) > 0
    /\ Lost(shadow[t], Runs(t)) # 0 => dump # NoDump

(***************************************************************************)
(* A thread that a page fault has sent astray runs on with interrupts off. *)
(***************************************************************************)
Inv ==
    /\ TypeOK
    /\ NoIrqStuck
    /\ IF InCode THEN \A t \in Thread : ThreadInv(t) ELSE ~iflag

-----------------------------------------------------------------------------
(* Pushing and popping. *)

LEMMA WordIsWord ==
    ASSUME NEW kind \in Kinds, NEW t \in Thread \cup {0}, NEW v \in Nat
    PROVE  Word(kind, t, v) \in Words
BY DEF Word, Words

LEMMA ConstantWords ==
    /\ KERNEL_DATA \in Words /\ KERNEL_CODE \in Words /\ Zero \in Words
    /\ \A on \in BOOLEAN : Flags(on) \in Words
    /\ \A p \in Places : Code(p) \in Words
    /\ \A kind \in Kinds : Word(kind, 0, 0) \in Words
<1>1. PICK z \in Nat : z = 0
  OBVIOUS
<1>2. \A kind \in Kinds : Word(kind, z, z) \in Words
  BY <1>1, WordIsWord
<1>3. \A kind \in Kinds : Word(kind, 0, 0) \in Words
  BY <1>1, <1>2
<1>4. Flags(TRUE) \in Words /\ Flags(FALSE) \in Words
  BY <1>3 DEF Flags, Kinds
<1> QED
  BY <1>3, <1>4 DEF KERNEL_DATA, KERNEL_CODE, Zero, Code, Kinds

LEMMA DistinctWords ==
    /\ Flags(TRUE) # Flags(FALSE)
    /\ \A p, q \in Places : Code(p) = Code(q) => p = q
    /\ \A on \in BOOLEAN : Flags(on) \notin {Code(p) : p \in Places}
<1>1. \A k1, k2 : Word(k1, 0, 0) = Word(k2, 0, 0) => k1 = k2
  BY DEF Word
<1> QED
  BY <1>1 DEF Flags, Code, Places

LEMMA Concatenated ==
    ASSUME NEW s \in Seq(Words), NEW t \in Seq(Words)
    PROVE  /\ s \o t \in Seq(Words) /\ Len(s \o t) = Len(s) + Len(t)
           /\ \A j \in 1 .. Len(s) : (s \o t)[j] = s[j]
           /\ \A j \in 1 .. Len(t) : (s \o t)[Len(s) + j] = t[j]
<1>1. \A j \in 1 .. Len(s) : j \in 1 .. (Len(s) + Len(t)) /\ j <= Len(s)
  OBVIOUS
<1>2. \A j \in 1 .. Len(t) : /\ Len(s) + j \in 1 .. (Len(s) + Len(t))
                             /\ ~(Len(s) + j <= Len(s)) /\ (Len(s) + j) - Len(s) = j
  OBVIOUS
<1> QED
  BY <1>1, <1>2, ConcatProperties

LEMMA RegsSaveLength ==
    ASSUME TypeOK
    PROVE  /\ RegsSave \in Seq(Words)
           /\ Len(RegsSave) = 12
           /\ RegsSave[1] = regs["eax"] /\ RegsSave[2] = regs["ecx"]
           /\ RegsSave[3] = regs["edx"] /\ RegsSave[4] = regs["ebx"]
           /\ RegsSave[6] = regs["ebp"] /\ RegsSave[7] = regs["esi"]
           /\ RegsSave[8] = regs["edi"] /\ RegsSave[9] = regs["gs"]
           /\ RegsSave[10] = regs["fs"] /\ RegsSave[11] = regs["es"]
           /\ RegsSave[12] = regs["ds"]
<1>1. /\ \A r \in Regs : regs[r] \in Words
      /\ Word("esp", 0, 0) \in Words
  BY ConstantWords DEF TypeOK, Kinds
<1>2. /\ {"eax", "ecx", "edx", "ebx", "ebp", "esi", "edi"} \subseteq Regs
      /\ {"gs", "fs", "es", "ds"} \subseteq Regs
  BY DEF Regs, General, Segments
<1> DEFINE general == Pushad(regs)
           segments == <<regs["gs"], regs["fs"], regs["es"], regs["ds"]>>
<1>3. /\ general \in Seq(Words) /\ Len(general) = 8
      /\ general[1] = regs["eax"] /\ general[2] = regs["ecx"]
      /\ general[3] = regs["edx"] /\ general[4] = regs["ebx"]
      /\ general[6] = regs["ebp"] /\ general[7] = regs["esi"]
      /\ general[8] = regs["edi"]
  BY <1>1, <1>2 DEF Pushad
<1>4. /\ segments \in Seq(Words) /\ Len(segments) = 4
      /\ segments[1] = regs["gs"] /\ segments[2] = regs["fs"]
      /\ segments[3] = regs["es"] /\ segments[4] = regs["ds"]
  BY <1>1, <1>2
<1>5. RegsSave = general \o segments
  BY DEF RegsSave
<1> HIDE DEF general, segments
<1>6. /\ RegsSave \in Seq(Words) /\ Len(RegsSave) = 8 + 4
      /\ \A j \in 1 .. 8 : RegsSave[j] = general[j]
      /\ \A j \in 1 .. 4 : RegsSave[8 + j] = segments[j]
  <2>1. /\ RegsSave \in Seq(Words) /\ Len(RegsSave) = Len(general) + Len(segments)
        /\ \A j \in 1 .. Len(general) : RegsSave[j] = general[j]
        /\ \A j \in 1 .. Len(segments) : RegsSave[Len(general) + j] = segments[j]
    BY <1>3, <1>4, <1>5, Concatenated, Zenon
  <2> QED
    BY <1>3, <1>4, <2>1
<1>7. /\ RegsSave[8 + 1] = segments[1] /\ RegsSave[8 + 2] = segments[2]
      /\ RegsSave[8 + 3] = segments[3] /\ RegsSave[8 + 4] = segments[4]
  BY <1>6
<1> QED
  BY <1>3, <1>4, <1>6, <1>7

(***************************************************************************)
(* What a stub has on the stack when it calls its handler.                 *)
(***************************************************************************)
Entered(s) == s \o HardwareFrame \o RegsSave

LEMMA EnteredSaves ==
    ASSUME TypeOK, NEW s \in Seq(Words)
    PROVE  /\ Entered(s) \in Seq(Words)
           /\ Len(Entered(s)) = Len(s) + 15
           /\ \A j \in 1 .. Len(s) : Entered(s)[j] = s[j]
           /\ Saved(Entered(s), Len(s), Context)
<1>1. /\ HardwareFrame \in Seq(Words) /\ Len(HardwareFrame) = 3
      /\ HardwareFrame[1] = Flags(iflag) /\ HardwareFrame[3] = eip
  BY ConstantWords DEF TypeOK, HardwareFrame, KERNEL_CODE
<1>2. RegsSave \in Seq(Words) /\ Len(RegsSave) = 12
  BY RegsSaveLength
<1>3. PICK n \in Nat : n = Len(s)
  OBVIOUS
<1>4. PICK f \in Seq(Words) : f = s \o HardwareFrame
  BY <1>1, ConcatProperties
<1>5. /\ Len(f) = n + 3
      /\ \A j \in 1 .. n : f[j] = s[j]
      /\ \A j \in 1 .. 3 : f[n + j] = HardwareFrame[j]
  <2>1. /\ Len(f) = Len(s) + Len(HardwareFrame)
        /\ \A j \in 1 .. Len(s) : f[j] = s[j]
        /\ \A j \in 1 .. Len(HardwareFrame) : f[Len(s) + j] = HardwareFrame[j]
    <3>1. /\ Len(s \o HardwareFrame) = Len(s) + Len(HardwareFrame)
          /\ \A j \in 1 .. Len(s) : (s \o HardwareFrame)[j] = s[j]
          /\ \A j \in 1 .. Len(HardwareFrame) :
                (s \o HardwareFrame)[Len(s) + j] = HardwareFrame[j]
      BY <1>1, Concatenated, Zenon
    <3> QED
      BY <1>4, <3>1
  <2> QED
    BY <1>1, <1>3, <2>1
<1>6. PICK e \in Seq(Words) : e = f \o RegsSave
  BY <1>2, ConcatProperties
<1>7. /\ Len(e) = (n + 3) + 12
      /\ \A j \in 1 .. (n + 3) : e[j] = f[j]
      /\ \A j \in 1 .. 12 : e[(n + 3) + j] = RegsSave[j]
  <2>1. /\ Len(e) = Len(f) + Len(RegsSave)
        /\ \A j \in 1 .. Len(f) : e[j] = f[j]
        /\ \A j \in 1 .. Len(RegsSave) : e[Len(f) + j] = RegsSave[j]
    <3>1. /\ Len(f \o RegsSave) = Len(f) + Len(RegsSave)
          /\ \A j \in 1 .. Len(f) : (f \o RegsSave)[j] = f[j]
          /\ \A j \in 1 .. Len(RegsSave) : (f \o RegsSave)[Len(f) + j] = RegsSave[j]
      BY <1>2, Concatenated, Zenon
    <3> QED
      BY <1>6, <3>1
  <2> QED
    BY <1>2, <1>5, <2>1
<1>8. Entered(s) = e /\ Len(e) = n + 15
  BY <1>3, <1>4, <1>6, <1>7 DEF Entered
<1>9. \A j \in 1 .. n : e[j] = s[j]
  <2>1. \A j \in 1 .. n : j \in 1 .. (n + 3)
    BY <1>3
  <2> QED
    BY <1>5, <1>7, <2>1, Zenon
<1>10. e[n + 1] = Flags(iflag) /\ e[n + 3] = eip
  <2>1. n + 1 \in 1 .. (n + 3) /\ n + 3 \in 1 .. (n + 3)
    BY <1>3
  <2>2. e[n + 1] = f[n + 1] /\ e[n + 3] = f[n + 3]
    BY <1>7, <2>1
  <2>3. f[n + 1] = HardwareFrame[1] /\ f[n + 3] = HardwareFrame[3]
    BY <1>5
  <2> QED
    BY <1>1, <2>2, <2>3
<1>11. /\ e[n + 4] = RegsSave[1] /\ e[n + 5] = RegsSave[2] /\ e[n + 6] = RegsSave[3]
       /\ e[n + 7] = RegsSave[4] /\ e[n + 9] = RegsSave[6] /\ e[n + 10] = RegsSave[7]
       /\ e[n + 11] = RegsSave[8] /\ e[n + 12] = RegsSave[9] /\ e[n + 13] = RegsSave[10]
       /\ e[n + 14] = RegsSave[11] /\ e[n + 15] = RegsSave[12]
  <2>1. \A j \in 1 .. 12 : (n + 3) + j = n + (3 + j)
    BY <1>3
  <2> QED
    BY <1>7, <2>1
<1>12. Saved(e, n, Context)
  BY <1>10, <1>11, RegsSaveLength DEF Saved, Context
<1> QED
  BY <1>3, <1>8, <1>9, <1>12

(***************************************************************************)
(* A part of the stack that reaches to depth n.                            *)
(***************************************************************************)
LEMMA Prefix ==
    ASSUME NEW s \in Seq(Words), NEW n \in 0 .. Len(s)
    PROVE  /\ SubSeq(s, 1, n) \in Seq(Words)
           /\ Len(SubSeq(s, 1, n)) = n
           /\ \A j \in 1 .. n : SubSeq(s, 1, n)[j] = s[j]
OBVIOUS

LEMMA DropIsPrefix ==
    ASSUME NEW s \in Seq(Words), NEW m \in Nat, NEW n \in Nat, Len(s) = n + m
    PROVE  Drop(s, m) = SubSeq(s, 1, n)
<1>1. Len(s) - m = n
  OBVIOUS
<1> QED
  BY <1>1 DEF Drop

(***************************************************************************)
(* What MACRO_REGS_RESTORE and iret make of a saved context.               *)
(***************************************************************************)
LEMMA Restores ==
    ASSUME NEW c \in Contexts, NEW s \in Seq(Words), NEW n \in Nat,
           Len(s) = n + 15, Saved(s, n, c)
    PROVE  /\ RegsRestore(s) = c.regs
           /\ At(Drop(s, 12), 1) = c.eip
           /\ (At(Drop(s, 12), 3) = Flags(TRUE)) = c.iflag
           /\ Drop(Drop(s, 12), 3) = SubSeq(s, 1, n)
<1>1. /\ At(s, 1) = s[n + 15] /\ At(s, 2) = s[n + 14] /\ At(s, 3) = s[n + 13]
      /\ At(s, 4) = s[n + 12] /\ At(s, 5) = s[n + 11] /\ At(s, 6) = s[n + 10]
      /\ At(s, 7) = s[n + 9] /\ At(s, 9) = s[n + 7] /\ At(s, 10) = s[n + 6]
      /\ At(s, 11) = s[n + 5] /\ At(s, 12) = s[n + 4]
  <2>1. \A k \in 1 .. 12 : (n + 15) - k + 1 = n + (16 - k)
    OBVIOUS
  <2> QED
    BY <2>1 DEF At
<1>2. /\ c.regs \in [Regs -> Words] /\ c.eip \in Words /\ c.iflag \in BOOLEAN
  BY DEF Contexts
<1>3. \A r \in Regs : RegsRestore(s)[r] = c.regs[r]
  <2>1. /\ RegsRestore(s)["ds"] = At(s, 1) /\ RegsRestore(s)["es"] = At(s, 2)
        /\ RegsRestore(s)["fs"] = At(s, 3) /\ RegsRestore(s)["gs"] = At(s, 4)
        /\ RegsRestore(s)["edi"] = At(s, 5) /\ RegsRestore(s)["esi"] = At(s, 6)
        /\ RegsRestore(s)["ebp"] = At(s, 7) /\ RegsRestore(s)["ebx"] = At(s, 9)
        /\ RegsRestore(s)["edx"] = At(s, 10) /\ RegsRestore(s)["ecx"] = At(s, 11)
        /\ RegsRestore(s)["eax"] = At(s, 12)
    BY DEF RegsRestore
  <2>2. /\ s[n + 4] = c.regs["eax"] /\ s[n + 5] = c.regs["ecx"]
        /\ s[n + 6] = c.regs["edx"] /\ s[n + 7] = c.regs["ebx"]
        /\ s[n + 9] = c.regs["ebp"] /\ s[n + 10] = c.regs["esi"]
        /\ s[n + 11] = c.regs["edi"] /\ s[n + 12] = c.regs["gs"]
        /\ s[n + 13] = c.regs["fs"] /\ s[n + 14] = c.regs["es"]
        /\ s[n + 15] = c.regs["ds"]
    BY DEF Saved
  <2>3. /\ RegsRestore(s)["ds"] = c.regs["ds"] /\ RegsRestore(s)["es"] = c.regs["es"]
        /\ RegsRestore(s)["fs"] = c.regs["fs"] /\ RegsRestore(s)["gs"] = c.regs["gs"]
        /\ RegsRestore(s)["edi"] = c.regs["edi"] /\ RegsRestore(s)["esi"] = c.regs["esi"]
        /\ RegsRestore(s)["ebp"] = c.regs["ebp"] /\ RegsRestore(s)["ebx"] = c.regs["ebx"]
        /\ RegsRestore(s)["edx"] = c.regs["edx"] /\ RegsRestore(s)["ecx"] = c.regs["ecx"]
        /\ RegsRestore(s)["eax"] = c.regs["eax"]
    BY <1>1, <2>1, <2>2, Zenon
  <2> QED
    BY <2>3 DEF Regs, Segments, General
<1>4. DOMAIN RegsRestore(s) = Regs
  BY DEF RegsRestore, Regs, General, Segments
<1>5. RegsRestore(s) = c.regs
  <2>1. RegsRestore(s) = [r \in DOMAIN RegsRestore(s) |-> RegsRestore(s)[r]]
    BY DEF RegsRestore
  <2> QED
    BY <1>2, <1>3, <1>4, <2>1
<1> DEFINE f == Drop(s, 12)
<1>6. /\ f \in Seq(Words) /\ Len(f) = n + 3
      /\ \A j \in 1 .. (n + 3) : f[j] = s[j]
  <2>1. n + 3 \in 0 .. Len(s) /\ Len(s) = (n + 3) + 12
    OBVIOUS
  <2>2. f = SubSeq(s, 1, n + 3)
    BY <2>1 DEF Drop
  <2> HIDE DEF f
  <2> QED
    BY <2>1, <2>2, Prefix
<1> HIDE DEF f
<1>7. At(f, 1) = s[n + 3] /\ At(f, 3) = s[n + 1]
  BY <1>6 DEF At
<1>8. (At(f, 3) = Flags(TRUE)) = c.iflag
  BY <1>2, <1>7, DistinctWords DEF Saved
<1>9. Drop(f, 3) = SubSeq(s, 1, n)
  <2>1. Drop(f, 3) = SubSeq(f, 1, n)
    BY <1>6, DropIsPrefix
  <2>2. /\ SubSeq(f, 1, n) \in Seq(Words) /\ Len(SubSeq(f, 1, n)) = n
        /\ \A j \in 1 .. n : SubSeq(f, 1, n)[j] = s[j]
    BY <1>6, Prefix
  <2>3. /\ SubSeq(s, 1, n) \in Seq(Words) /\ Len(SubSeq(s, 1, n)) = n
        /\ \A j \in 1 .. n : SubSeq(s, 1, n)[j] = s[j]
    BY Prefix
  <2> QED
    BY <2>1, <2>2, <2>3, SeqEqual
<1> QED
  BY <1>5, <1>7, <1>8, <1>9 DEF f, Saved

-----------------------------------------------------------------------------
(* One more context on a stack, one less. *)

LEMMA SavedKept ==
    ASSUME NEW s, NEW t, NEW n \in Nat, NEW c,
           \A j \in 1 .. (n + 15) : t[j] = s[j], Saved(s, n, c)
    PROVE  Saved(t, n, c)
<1>1. \A j \in 1 .. 15 : n + j \in 1 .. (n + 15)
  OBVIOUS
<1>2. \A j \in 1 .. 15 : t[n + j] = s[n + j]
  BY <1>1
<1> QED
  BY <1>2 DEF Saved

LEMMA HoldsMore ==
    ASSUME NEW s \in Seq(Words), NEW t \in Seq(Words), NEW sh \in Seq(Contexts),
           NEW c \in Contexts, NEW lost \in {0, 1}, NEW n \in Nat, n = Len(s),
           Len(t) >= n + 15, \A j \in 1 .. n : t[j] = s[j],
           Saved(t, n, c), Holds(s, n, sh, lost)
    PROVE  Holds(t, n + 15, Append(sh, c), lost)
<1>1. PICK l \in Nat : l = Len(sh)
  OBVIOUS
<1>2. /\ Len(Append(sh, c)) = l + 1 /\ Append(sh, c)[l + 1] = c
      /\ \A k \in 1 .. l : Append(sh, c)[k] = sh[k]
  BY <1>1
<1>3. n >= 15 * l /\ (lost = 0 => n = 15 * l)
  BY <1>1 DEF Holds
<1>4. ASSUME NEW k \in (lost + 1) .. (l + 1)
      PROVE  Saved(t, (n + 15) - 15 * ((l + 1) - k + 1), Append(sh, c)[k])
  <2>1. CASE k = l + 1
    <3>1. (n + 15) - 15 * ((l + 1) - k + 1) = n
      BY <2>1, <1>1
    <3> QED
      BY <2>1, <3>1, <1>2
  <2>2. CASE k # l + 1
    <3>1. k \in (lost + 1) .. l /\ k \in 1 .. l
      BY <2>2, <1>1
    <3>2. n - 15 * (l - k + 1) \in Nat
      BY <3>1, <1>1, <1>3
    <3>3. PICK b \in Nat : b = n - 15 * (l - k + 1)
      BY <3>2, Zenon
    <3>4. b + 15 <= n /\ (n + 15) - 15 * ((l + 1) - k + 1) = b
      BY <3>1, <3>3, <1>1
    <3>5. Saved(s, b, sh[k])
      BY <3>1, <3>3, <1>1 DEF Holds
    <3>6. \A j \in 1 .. (b + 15) : j \in 1 .. n
      BY <3>4
    <3>7. Saved(t, b, sh[k])
      BY <3>5, <3>6, SavedKept
    <3> QED
      BY <3>1, <3>4, <3>7, <1>2
  <2> QED
    BY <2>1, <2>2
<1>5. /\ n + 15 <= Len(t) /\ n + 15 >= 15 * (l + 1)
      /\ lost = 0 => n + 15 = 15 * (l + 1)
  BY <1>1, <1>3
<1> QED
  BY <1>2, <1>4, <1>5 DEF Holds

LEMMA HoldsLess ==
    ASSUME NEW s \in Seq(Words), NEW t \in Seq(Words), NEW sh \in Seq(Contexts),
           NEW lost \in {0, 1}, NEW n \in Nat, Len(t) = n,
           n + 15 <= Len(s), \A j \in 1 .. n : t[j] = s[j],
           Len(sh) > lost, Holds(s, n + 15, sh, lost)
    PROVE  Holds(t, n, Front(sh), lost) /\ Saved(s, n, Last(sh))
<1>1. PICK l \in Nat : l + 1 = Len(sh)
  <2>1. Len(sh) - 1 \in Nat /\ (Len(sh) - 1) + 1 = Len(sh)
    OBVIOUS
  <2> QED
    BY <2>1, Zenon
<1>2. /\ Len(Front(sh)) = l /\ Last(sh) = sh[l + 1]
      /\ \A k \in 1 .. l : Front(sh)[k] = sh[k]
  BY <1>1 DEF Front, Last
<1>3. n + 15 >= 15 * (l + 1) /\ (lost = 0 => n + 15 = 15 * (l + 1))
  BY <1>1 DEF Holds
<1>4. ASSUME NEW k \in (lost + 1) .. (l + 1)
      PROVE  Saved(s, (n + 15) - 15 * ((l + 1) - k + 1), sh[k])
  BY <1>1, <1>4 DEF Holds
<1>5. Saved(s, n, Last(sh))
  <2>1. l + 1 \in (lost + 1) .. (l + 1)
    BY <1>1
  <2>2. (n + 15) - 15 * ((l + 1) - (l + 1) + 1) = n
    BY <1>1
  <2> QED
    BY <2>1, <2>2, <1>2, <1>4
<1>6. ASSUME NEW k \in (lost + 1) .. l
      PROVE  Saved(t, n - 15 * (l - k + 1), Front(sh)[k])
  <2>1. n - 15 * (l - k + 1) \in Nat
    BY <1>1, <1>3
  <2>2. PICK b \in Nat : b = n - 15 * (l - k + 1)
    BY <2>1, Zenon
  <2>3. /\ b + 15 <= n /\ (n + 15) - 15 * ((l + 1) - k + 1) = b
        /\ k \in (lost + 1) .. (l + 1) /\ k \in 1 .. l
    BY <2>2, <1>1
  <2>4. Saved(s, b, sh[k])
    BY <2>3, <1>4, <1>6
  <2>5. \A j \in 1 .. (b + 15) : j \in 1 .. n
    BY <2>3
  <2>6. Saved(t, b, sh[k])
    BY <2>4, <2>5, SavedKept
  <2> QED
    BY <2>2, <2>3, <2>6, <1>2
<1>7. n <= Len(t) /\ n >= 15 * l /\ (lost = 0 => n = 15 * l)
  BY <1>1, <1>3
<1> QED
  BY <1>2, <1>5, <1>6, <1>7 DEF Holds

(***************************************************************************)
(* Interrupting or resuming a thread loses and regains no context.         *)
(***************************************************************************)
LEMMA LostMore ==
    ASSUME NEW sh \in Seq(Contexts), NEW c \in Contexts, NEW e, e # Code("panicked")
    PROVE  Lost(Append(sh, c), e) = Lost(sh, c.eip)
<1>1. /\ Len(Append(sh, c)) = Len(sh) + 1 /\ Append(sh, c)[Len(sh) + 1] = c
      /\ \A k \in 1 .. Len(sh) : Append(sh, c)[k] = sh[k]
      /\ Len(sh) \in Nat
  OBVIOUS
<1>2. CASE Len(sh) = 0
  BY <1>1, <1>2 DEF Lost
<1>3. CASE Len(sh) = 1
  BY <1>1, <1>3 DEF Lost
<1>4. CASE Len(sh) >= 2
  <2>1. Append(sh, c)[2] = sh[2]
    BY <1>1, <1>4
  <2> QED
    BY <1>1, <1>4, <2>1 DEF Lost
<1>5. Len(sh) = 0 \/ Len(sh) = 1 \/ Len(sh) >= 2
  <2>1. \A l \in Nat : l = 0 \/ l = 1 \/ l >= 2
    OBVIOUS
  <2> QED
    BY <1>1, <2>1, Zenon
<1> QED
  BY <1>2, <1>3, <1>4, <1>5, Zenon

LEMMA LostLess ==
    ASSUME NEW sh \in Seq(Contexts), Len(sh) > 0, NEW e, e # Code("panicked")
    PROVE  Lost(Front(sh), Last(sh).eip) = Lost(sh, e)
<1>1. /\ Len(Front(sh)) = Len(sh) - 1 /\ Last(sh) = sh[Len(sh)]
      /\ \A k \in 1 .. (Len(sh) - 1) : Front(sh)[k] = sh[k]
      /\ Len(sh) \in Nat \ {0}
  <2>1. PICK l \in Nat : l + 1 = Len(sh)
    <3>1. Len(sh) - 1 \in Nat /\ (Len(sh) - 1) + 1 = Len(sh)
      OBVIOUS
    <3> QED
      BY <3>1, Zenon
  <2>2. /\ Len(Front(sh)) = l /\ Last(sh) = sh[l + 1]
        /\ \A k \in 1 .. l : Front(sh)[k] = sh[k]
    BY <2>1 DEF Front, Last
  <2>3. l = Len(sh) - 1 /\ Len(sh) \in Nat \ {0}
    BY <2>1
  <2> QED
    BY <2>1, <2>2, <2>3
<1>2. CASE Len(sh) = 1
  BY <1>1, <1>2 DEF Lost
<1>3. CASE Len(sh) = 2
  BY <1>1, <1>3 DEF Lost
<1>4. CASE Len(sh) > 2
  <2>1. Front(sh)[2] = sh[2]
    BY <1>1, <1>4
  <2> QED
    BY <1>1, <1>4, <2>1 DEF Lost
<1>5. Len(sh) = 1 \/ Len(sh) = 2 \/ Len(sh) > 2
  BY <1>1
<1> QED
  BY <1>2, <1>3, <1>4, <1>5, Zenon

-----------------------------------------------------------------------------
(* The stubs. *)

LEMMA CodesDiffer ==
    /\ Zero # Code("panicked") /\ Code("kbd") # Code("panicked")
    /\ Code("kbd_end") # Code("panicked") /\ Code("kbd") # Code("entry")
    /\ Code("kbd_end") # Code("entry") /\ Code("panicked") # Code("entry")
    /\ Code("kbd_end") # Code("kbd") /\ Code("panicked") # Code("kbd")
BY DEF Zero, Code, Word

LEMMA LostIsNat == \A sh, e : Lost(sh, e) \in {0, 1}
BY DEF Lost

(***************************************************************************)
(* Whoever can be interrupted, or interrupts itself, is in known code.     *)
(***************************************************************************)
LEMMA WhoRuns ==
    ASSUME Inv, iflag \/ InThread \/ eip = Code("kbd") \/ eip = Code("kbd_end")
    PROVE  InCode /\ \A t \in Thread : ThreadInv(t)
<1>1. "entry" \in Places /\ "kbd" \in Places /\ "kbd_end" \in Places
  BY DEF Places
<1>2. InThread \/ eip = Code("kbd") \/ eip = Code("kbd_end") => InCode
  BY <1>1 DEF InThread, InCode
<1> QED
  BY <1>2 DEF Inv

(***************************************************************************)
(* The running thread after an interrupt: t is its stack, on which e runs, *)
(* or another thread does.                                                 *)
(***************************************************************************)
IsInterrupted(t, e) ==
    LET sh == Append(shadow[cur], Context) IN
      /\ sh \in Seq(Contexts)
      /\ Len(sh) = Len(shadow[cur]) + 1
      /\ sh[Len(sh)] = Context
      /\ \A k \in 1 .. Len(shadow[cur]) : sh[k] = shadow[cur][k]
      /\ Holds(t, Len(stack[cur]) + 15, sh, Lost(sh, e))
      /\ \A k \in 1 .. Len(sh) : AtLevel(sh[k].eip, k - 1)
      /\ Lost(sh, e) # 0 => dump # NoDump

LEMMA Interrupted ==
    ASSUME TypeOK, ThreadInv(cur), NEW t \in Seq(Words),
           Len(t) >= Len(Entered(stack[cur])),
           \A j \in 1 .. Len(Entered(stack[cur])) : t[j] = Entered(stack[cur])[j],
           NEW e, e # Code("panicked")
    PROVE  IsInterrupted(t, e)
<1> DEFINE sh == Append(shadow[cur], Context)
<1>1. /\ stack[cur] \in Seq(Words) /\ shadow[cur] \in Seq(Contexts)
      /\ Context \in Contexts /\ Context.eip = eip
  BY DEF TypeOK, Context, Contexts
<1>2. /\ Len(Entered(stack[cur])) = Len(stack[cur]) + 15
      /\ Entered(stack[cur]) \in Seq(Words)
      /\ \A j \in 1 .. Len(stack[cur]) : Entered(stack[cur])[j] = stack[cur][j]
      /\ Saved(Entered(stack[cur]), Len(stack[cur]), Context)
  BY <1>1, EnteredSaves
<1>3. PICK n \in Nat : n = Len(stack[cur])
  BY <1>1
<1>4. /\ Len(t) >= n + 15
      /\ \A j \in 1 .. (n + 15) : t[j] = Entered(stack[cur])[j]
  BY <1>2, <1>3
<1>5. Saved(t, n, Context)
  BY <1>2, <1>3, <1>4, SavedKept
<1>6. \A j \in 1 .. n : t[j] = stack[cur][j]
  <2>1. \A j \in 1 .. n : j \in 1 .. (n + 15)
    BY <1>3
  <2> QED
    BY <2>1, <1>2, <1>3, <1>4
<1>7. Lost(sh, e) = Lost(shadow[cur], eip)
  BY <1>1, LostMore
<1>8. Holds(stack[cur], n, shadow[cur], Lost(sh, e))
  BY <1>3, <1>7 DEF ThreadInv, Top, Runs
<1>9. Holds(t, n + 15, sh, Lost(sh, e))
  BY <1>1, <1>3, <1>4, <1>5, <1>6, <1>8, LostIsNat, HoldsMore
<1>10. PICK l \in Nat : l = Len(shadow[cur])
  BY <1>1
<1>11. /\ sh \in Seq(Contexts) /\ Len(sh) = l + 1 /\ sh[l + 1] = Context
       /\ \A k \in 1 .. l : sh[k] = shadow[cur][k]
  BY <1>1, <1>10
<1> HIDE DEF sh
<1>12. ASSUME NEW k \in 1 .. (l + 1) PROVE AtLevel(sh[k].eip, k - 1)
  <2>1. CASE k = l + 1
    <3>1. k - 1 = l /\ sh[k].eip = eip
      BY <2>1, <1>1, <1>10, <1>11
    <3> QED
      BY <3>1, <1>10 DEF ThreadInv
  <2>2. CASE k # l + 1
    <3>1. k \in 1 .. l
      BY <2>2, <1>10
    <3> QED
      BY <3>1, <1>10, <1>11 DEF ThreadInv
  <2> QED
    BY <2>1, <2>2
<1>13. Lost(sh, e) # 0 => dump # NoDump
  BY <1>7 DEF ThreadInv, Runs
<1> QED
  BY <1>3, <1>9, <1>10, <1>11, <1>12, <1>13 DEF sh, IsInterrupted

(***************************************************************************)
(* What RegsRestore and iret leave when they are done on the stack r of a  *)
(* thread with contexts sh, which has run e until then.                    *)
(***************************************************************************)
IsResumed(r, sh, e) ==
    /\ Front(sh) \in Seq(Contexts) /\ Last(sh) \in Contexts
    /\ Len(Front(sh)) < Len(sh)
    /\ \A k \in 1 .. Len(Front(sh)) : Front(sh)[k] = sh[k]
    /\ Last(sh) = sh[Len(sh)]
    /\ RegsRestore(r) = Last(sh).regs
    /\ At(Drop(r, 12), 1) = Last(sh).eip
    /\ (At(Drop(r, 12), 3) = Flags(TRUE)) = Last(sh).iflag
    /\ Drop(Drop(r, 12), 3) \in Seq(Words)
    /\ Holds(Drop(Drop(r, 12), 3), Len(Drop(Drop(r, 12), 3)), Front(sh),
             Lost(Front(sh), Last(sh).eip))
    /\ \A k \in 1 .. Len(Front(sh)) : AtLevel(Front(sh)[k].eip, k - 1)
    /\ AtLevel(Last(sh).eip, Len(Front(sh)))
    /\ Lost(Front(sh), Last(sh).eip) = Lost(sh, e)

(***************************************************************************)
(* A thread is resumed, from the timer stub or from the keyboard's, with r *)
(* its stack s up to where it was left.                                    *)
(***************************************************************************)
LEMMA Resumed ==
    ASSUME NEW sh \in Seq(Contexts), Len(sh) > 0, NEW s \in Seq(Words),
           NEW r \in Seq(Words), NEW e, e # Code("panicked"),
           Len(r) <= Len(s), \A j \in 1 .. Len(r) : r[j] = s[j],
           Holds(s, Len(r), sh, Lost(sh, e)),
           \A k \in 1 .. Len(sh) : AtLevel(sh[k].eip, k - 1)
    PROVE  IsResumed(r, sh, e)
<1>1. PICK l \in Nat : l + 1 = Len(sh)
  <2>1. Len(sh) - 1 \in Nat /\ (Len(sh) - 1) + 1 = Len(sh)
    OBVIOUS
  <2> QED
    BY <2>1, Zenon
<1>2. /\ Len(Front(sh)) = l /\ Last(sh) = sh[l + 1]
      /\ \A k \in 1 .. l : Front(sh)[k] = sh[k]
      /\ Front(sh) \in Seq(Contexts) /\ Last(sh) \in Contexts
  BY <1>1 DEF Front, Last
<1>3. PICK lost \in {0, 1} : lost = Lost(sh, e)
  BY LostIsNat
<1>4. Len(sh) > lost
  <2>1. CASE l = 0
    BY <2>1, <1>1, <1>3 DEF Lost
  <2>2. CASE l # 0
    BY <2>2, <1>1, <1>3
  <2> QED
    BY <2>1, <2>2
<1>5. Len(r) - 15 \in Nat /\ (Len(r) - 15) + 15 = Len(r)
  <2>1. Len(r) >= 15 * Len(sh) /\ Len(r) \in Nat
    BY DEF Holds
  <2> QED
    BY <2>1, <1>1
<1>6. PICK n \in Nat : n + 15 = Len(r)
  BY <1>5, Zenon
<1>7. /\ SubSeq(r, 1, n) \in Seq(Words) /\ Len(SubSeq(r, 1, n)) = n
      /\ \A j \in 1 .. n : SubSeq(r, 1, n)[j] = r[j]
  BY <1>6
<1>8. PICK rest \in Seq(Words) : rest = SubSeq(r, 1, n)
  BY <1>7, Zenon
<1>9. /\ \A j \in 1 .. n : rest[j] = s[j]
      /\ Len(rest) = n
  <2>1. \A j \in 1 .. n : j \in 1 .. Len(r)
    BY <1>6
  <2> QED
    BY <2>1, <1>7, <1>8
<1>10. Holds(s, n + 15, sh, lost)
  BY <1>3, <1>6
<1>11. Holds(rest, n, Front(sh), lost) /\ Saved(s, n, Last(sh))
  BY <1>4, <1>6, <1>9, <1>10, HoldsLess
<1>12. Saved(r, n, Last(sh))
  BY <1>6, <1>11, SavedKept
<1>13. /\ RegsRestore(r) = Last(sh).regs
       /\ At(Drop(r, 12), 1) = Last(sh).eip
       /\ (At(Drop(r, 12), 3) = Flags(TRUE)) = Last(sh).iflag
       /\ Drop(Drop(r, 12), 3) = rest
  BY <1>2, <1>6, <1>8, <1>12, Restores
<1>14. Lost(Front(sh), Last(sh).eip) = lost
  BY <1>3, LostLess
<1>15. \A k \in 1 .. l : AtLevel(Front(sh)[k].eip, k - 1)
  <2>1. \A k \in 1 .. l : k \in 1 .. Len(sh)
    BY <1>1
  <2> QED
    BY <2>1, <1>2, Zenon
<1>16. AtLevel(Last(sh).eip, l)
  <2>1. l + 1 \in 1 .. Len(sh) /\ (l + 1) - 1 = l
    BY <1>1
  <2> QED
    BY <2>1, <1>2
<1>17. l < Len(sh)
  BY <1>1
<1> QED
  BY <1>1, <1>2, <1>3, <1>9, <1>11, <1>13, <1>14, <1>15, <1>16, <1>17
     DEF IsResumed

(***************************************************************************)
(* What ContextsComeBack says of a step, whoever takes it.                 *)
(***************************************************************************)
Back ==
    \A t \in Thread :
        Len(shadow'[t]) < Len(shadow[t])
          => [regs |-> regs', eip |-> eip', iflag |-> iflag'] = Last(shadow[t])

LEMMA EoiEnds ==
    ASSUME NEW served \in SUBSET {0, 1}
    PROVE  /\ Eoi(served) \subseteq {0, 1} /\ 0 \notin Eoi(served)
           /\ 1 \in Eoi(served) => 1 \in served
BY DEF Eoi

LEMMA TimerSwitches ==
    ASSUME Inv, \A t \in Thread : ThreadInv(t),
           NEW u \in Thread, u # cur, NEW served \in SUBSET {0, 1},
           1 \in served => 1 \in inService, TimerStub(u, served)
    PROVE  Inv' /\ Back
<1> DEFINE s == Entered(stack[cur])
           argued == Append(s, Word("arg", 0, 0))
           r == SubSeq(stack[u], 1, esp0[u])
           d == Drop(Drop(r, 12), 3)
<1>1. /\ TypeOK /\ NoIrqStuck /\ cur \in Thread
      /\ stack[cur] \in Seq(Words) /\ stack[u] \in Seq(Words)
      /\ shadow[cur] \in Seq(Contexts) /\ shadow[u] \in Seq(Contexts)
      /\ esp0[u] \in Nat /\ Context \in Contexts
  BY DEF Inv, TypeOK, Context, Contexts
<1>2. s \in Seq(Words) /\ Len(s) = Len(stack[cur]) + 15
  BY <1>1, EnteredSaves
<1>3. /\ argued \in Seq(Words) /\ Len(argued) >= Len(s)
      /\ \A j \in 1 .. Len(s) : argued[j] = s[j]
      /\ argued = s \o <<Word("arg", 0, 0)>>
  <2>1. Word("arg", 0, 0) \in Words
    BY ConstantWords DEF Kinds
  <2> HIDE DEF s
  <2> QED
    BY <1>2, <2>1, AppendIsConcat
<1>4. /\ Append(shadow[cur], Context) \in Seq(Contexts)
      /\ Len(Append(shadow[cur], Context)) = Len(shadow[cur]) + 1
      /\ Append(shadow[cur], Context)[Len(Append(shadow[cur], Context))] = Context
      /\ \A k \in 1 .. Len(shadow[cur]) : Append(shadow[cur], Context)[k] = shadow[cur][k]
      /\ Holds(argued, Len(stack[cur]) + 15, Append(shadow[cur], Context),
               Lost(Append(shadow[cur], Context), Zero))
      /\ \A k \in 1 .. Len(Append(shadow[cur], Context)) :
            AtLevel(Append(shadow[cur], Context)[k].eip, k - 1)
      /\ Lost(Append(shadow[cur], Context), Zero) # 0 => dump # NoDump
  <2>1. ThreadInv(cur)
    BY <1>1
  <2>2. Zero # Code("panicked")
    BY CodesDiffer
  <2> HIDE DEF argued
  <2>3. IsInterrupted(argued, Zero)
    BY <1>1, <1>3, <2>1, <2>2, Interrupted, Zenon
  <2> QED
    BY <2>3 DEF IsInterrupted
<1>5. /\ Len(shadow[u]) > 0
      /\ Holds(stack[u], esp0[u], shadow[u], Lost(shadow[u], Zero))
      /\ \A k \in 1 .. Len(shadow[u]) : AtLevel(shadow[u][k].eip, k - 1)
      /\ Lost(shadow[u], Zero) # 0 => dump # NoDump
  BY DEF ThreadInv, Top, Runs
<1>6. /\ r \in Seq(Words) /\ Len(r) = esp0[u] /\ Len(r) <= Len(stack[u])
      /\ \A j \in 1 .. Len(r) : r[j] = stack[u][j]
  <2>1. esp0[u] \in 0 .. Len(stack[u])
    BY <1>1, <1>5 DEF Holds
  <2> QED
    BY <1>1, <2>1, Prefix
<1>7. /\ Front(shadow[u]) \in Seq(Contexts) /\ Last(shadow[u]) \in Contexts
      /\ Len(Front(shadow[u])) < Len(shadow[u])
      /\ \A k \in 1 .. Len(Front(shadow[u])) : Front(shadow[u])[k] = shadow[u][k]
      /\ Last(shadow[u]) = shadow[u][Len(shadow[u])]
      /\ RegsRestore(r) = Last(shadow[u]).regs
      /\ At(Drop(r, 12), 1) = Last(shadow[u]).eip
      /\ (At(Drop(r, 12), 3) = Flags(TRUE)) = Last(shadow[u]).iflag
      /\ d \in Seq(Words)
      /\ Holds(d, Len(d), Front(shadow[u]),
               Lost(Front(shadow[u]), Last(shadow[u]).eip))
      /\ \A k \in 1 .. Len(Front(shadow[u])) : AtLevel(Front(shadow[u])[k].eip, k - 1)
      /\ AtLevel(Last(shadow[u]).eip, Len(Front(shadow[u])))
      /\ Lost(Front(shadow[u]), Last(shadow[u]).eip) = Lost(shadow[u], Zero)
  <2>1. Holds(stack[u], Len(r), shadow[u], Lost(shadow[u], Zero))
    BY <1>5, <1>6
  <2>2. Zero # Code("panicked")
    BY CodesDiffer
  <2> HIDE DEF r
  <2>3. IsResumed(r, shadow[u], Zero)
    BY <1>1, <1>5, <1>6, <2>1, <2>2, Resumed, Zenon
  <2> QED
    BY <2>3 DEF IsResumed, d
<1>8. /\ cur' = u /\ esp0' = [esp0 EXCEPT ![cur] = Len(s)]
      /\ regs' = RegsRestore(r) /\ eip' = At(Drop(r, 12), 1)
      /\ iflag' = (At(Drop(r, 12), 3) = Flags(TRUE))
      /\ stack' = [stack EXCEPT ![cur] = argued, ![u] = d]
      /\ inService' = Eoi(served)
      /\ shadow' = [shadow EXCEPT ![cur] = Append(@, Context), ![u] = Front(@)]
      /\ dump' = dump
  <2>1. /\ [stack EXCEPT ![cur] = argued][u] = stack[u]
        /\ [esp0 EXCEPT ![cur] = Len(s)][u] = esp0[u]
    BY <1>1 DEF TypeOK
  <2> QED
    BY <1>3, <2>1 DEF TimerStub, SavedDepth, Entered
<1> HIDE DEF s, argued, r, d
<1>9. /\ shadow'[cur] = Append(shadow[cur], Context) /\ shadow'[u] = Front(shadow[u])
      /\ stack'[cur] = argued /\ stack'[u] = d /\ esp0'[cur] = Len(stack[cur]) + 15
      /\ \A t \in Thread \ {cur, u} : /\ shadow'[t] = shadow[t] /\ stack'[t] = stack[t]
                                      /\ esp0'[t] = esp0[t]
  BY <1>1, <1>2, <1>8 DEF TypeOK
<1>10. /\ regs' = Last(shadow[u]).regs /\ eip' = Last(shadow[u]).eip
       /\ iflag' = Last(shadow[u]).iflag
  BY <1>7, <1>8
<1>11. TypeOK'
  <2>1. /\ stack' \in [Thread -> Seq(Words)] /\ shadow' \in [Thread -> Seq(Contexts)]
        /\ esp0' \in [Thread -> Nat]
    <3>1. Len(s) \in Nat
      BY <1>2
    <3> QED
      BY <1>1, <1>3, <1>4, <1>7, <1>8, <3>1 DEF TypeOK
  <2>2. regs' \in [Regs -> Words] /\ eip' \in Words /\ iflag' \in BOOLEAN
    BY <1>7, <1>10 DEF Contexts
  <2> QED
    BY <2>1, <2>2, <1>1, <1>8, EoiEnds DEF TypeOK
<1>12. NoIrqStuck'
  <2>1. 0 \notin inService' /\ (1 \in inService' => 1 \in inService)
    BY <1>8, EoiEnds
  <2>2. ASSUME 1 \in inService'
        PROVE  \/ eip' = Code("kbd")
               \/ \E t \in Thread : \E k \in 1 .. Len(shadow'[t]) :
                     shadow'[t][k].eip = Code("kbd")
    <3>1. CASE eip = Code("kbd")
      <4>1. Context.eip = Code("kbd")
        BY <3>1 DEF Context
      <4>2. Len(shadow'[cur]) \in 1 .. Len(shadow'[cur])
        BY <1>1, <1>4, <1>9
      <4> QED
        BY <1>1, <1>4, <1>9, <4>1, <4>2
    <3>2. CASE \E t \in Thread : \E k \in 1 .. Len(shadow[t]) :
                  shadow[t][k].eip = Code("kbd")
      <4>0. PICK t \in Thread : \E k \in 1 .. Len(shadow[t]) : shadow[t][k].eip = Code("kbd")
        BY <3>2
      <4>1. PICK k \in 1 .. Len(shadow[t]) : shadow[t][k].eip = Code("kbd")
        BY <4>0
      <4>2. CASE t = cur
        <5>1. k \in 1 .. Len(shadow'[cur]) /\ shadow'[cur][k] = shadow[cur][k]
          BY <1>1, <1>4, <1>9, <4>1, <4>2
        <5> QED
          BY <1>1, <4>1, <4>2, <5>1
      <4>3. CASE t = u /\ k = Len(shadow[u])
        BY <4>1, <4>3, <1>7, <1>10
      <4>4. CASE t = u /\ k # Len(shadow[u])
        <5>1. k \in 1 .. Len(Front(shadow[u]))
          BY <4>1, <4>4, <1>1 DEF Front
        <5> QED
          BY <4>1, <4>4, <5>1, <1>7, <1>9
      <4>5. CASE t \notin {cur, u}
        BY <4>1, <4>5, <1>9
      <4> QED
        BY <4>1, <4>2, <4>3, <4>4, <4>5
    <3> QED
      BY <2>1, <2>2, <3>1, <3>2, <1>1 DEF NoIrqStuck
  <2> QED
    BY <2>1, <2>2 DEF NoIrqStuck
<1>13. InCode'
  BY <1>7, <1>10 DEF AtLevel, InCode
<1>14. ASSUME NEW t \in Thread PROVE ThreadInv(t)'
  <2>1. CASE t = u
    <3>1. Top(t)' = Len(stack'[u]) /\ Runs(t)' = eip' /\ t = cur'
      BY <2>1, <1>8 DEF Top, Runs
    <3>2. Holds(stack'[t], Top(t)', shadow'[t], Lost(shadow'[t], Runs(t)'))
      BY <2>1, <3>1, <1>7, <1>9, <1>10
    <3>3. \A k \in 1 .. Len(shadow'[t]) : AtLevel(shadow'[t][k].eip, k - 1)
      BY <2>1, <1>7, <1>9
    <3>4. AtLevel(eip', Len(shadow'[t]))
      BY <2>1, <1>7, <1>9, <1>10
    <3>5. Lost(shadow'[t], Runs(t)') # 0 => dump' # NoDump'
      BY <2>1, <3>1, <1>5, <1>7, <1>8, <1>9, <1>10 DEF NoDump, Zero, Word
    <3> QED
      BY <3>1, <3>2, <3>3, <3>4, <3>5 DEF ThreadInv
  <2>2. CASE t = cur
    <3>1. Top(t)' = Len(stack[cur]) + 15 /\ Runs(t)' = Zero /\ t # cur'
      BY <2>2, <1>8, <1>9 DEF Top, Runs, Zero, Word
    <3>2. Holds(stack'[t], Top(t)', shadow'[t], Lost(shadow'[t], Runs(t)'))
      BY <2>2, <3>1, <1>4, <1>9
    <3>3. \A k \in 1 .. Len(shadow'[t]) : AtLevel(shadow'[t][k].eip, k - 1)
      BY <2>2, <1>4, <1>9
    <3>4. Len(shadow'[t]) > 0
      BY <2>2, <1>1, <1>4, <1>9
    <3>5. Lost(shadow'[t], Runs(t)') # 0 => dump' # NoDump'
      BY <2>2, <3>1, <1>4, <1>8, <1>9 DEF NoDump, Zero, Word
    <3> QED
      BY <3>1, <3>2, <3>3, <3>4, <3>5 DEF ThreadInv
  <2>3. CASE t \notin {cur, u}
    <3>1. /\ Top(t)' = Top(t) /\ Runs(t)' = Runs(t) /\ t # cur' /\ t # cur
          /\ shadow'[t] = shadow[t] /\ stack'[t] = stack[t]
      BY <2>3, <1>8, <1>9 DEF Top, Runs, Zero, Word
    <3>2. ThreadInv(t)
      OBVIOUS
    <3> QED
      BY <3>1, <3>2, <1>8 DEF ThreadInv, NoDump, Zero, Word
  <2> QED
    BY <2>1, <2>2, <2>3
<1>15. Back
  <2> SUFFICES ASSUME NEW t \in Thread, Len(shadow'[t]) < Len(shadow[t])
               PROVE  [regs |-> regs', eip |-> eip', iflag |-> iflag'] = Last(shadow[t])
    BY DEF Back
  <2>1. t = u
    <3>1. \A x \in Thread : Len(shadow[x]) \in Nat
      BY <1>1 DEF TypeOK
    <3> QED
      BY <1>1, <1>4, <1>9, <3>1
  <2> QED
    BY <2>1, <1>7, <1>10 DEF Contexts
<1> QED
  BY <1>11, <1>12, <1>13, <1>14, <1>15 DEF Inv

(***************************************************************************)
(* A stub that restores what it has saved itself.                          *)
(***************************************************************************)
LEMMA Invisible ==
    ASSUME TypeOK, NEW r, r = Entered(stack[cur])
    PROVE  /\ RegsRestore(r) = regs /\ At(Drop(r, 12), 1) = eip
           /\ (At(Drop(r, 12), 3) = Flags(TRUE)) = iflag
           /\ Drop(Drop(r, 12), 3) = stack[cur]
<1>1. /\ stack[cur] \in Seq(Words) /\ Context \in Contexts
      /\ Context.regs = regs /\ Context.eip = eip /\ Context.iflag = iflag
  BY DEF TypeOK, Context, Contexts
<1>2. PICK n \in Nat : n = Len(stack[cur])
  BY <1>1
<1>3. /\ r \in Seq(Words) /\ Len(r) = n + 15 /\ Saved(r, n, Context)
      /\ \A j \in 1 .. n : r[j] = stack[cur][j]
  BY <1>1, <1>2, EnteredSaves
<1>4. /\ RegsRestore(r) = Context.regs /\ At(Drop(r, 12), 1) = Context.eip
      /\ (At(Drop(r, 12), 3) = Flags(TRUE)) = Context.iflag
      /\ Drop(Drop(r, 12), 3) = SubSeq(r, 1, n)
  BY <1>1, <1>3, Restores, Zenon
<1>5. SubSeq(r, 1, n) = stack[cur]
  <2>1. /\ SubSeq(r, 1, n) \in Seq(Words) /\ Len(SubSeq(r, 1, n)) = n
        /\ \A j \in 1 .. n : SubSeq(r, 1, n)[j] = r[j]
    <3>1. n \in 0 .. Len(r)
      BY <1>3
    <3> QED
      BY <1>3, <3>1, Prefix
  <2> QED
    BY <1>1, <1>2, <1>3, <2>1, SeqEqual
<1> QED
  BY <1>1, <1>4, <1>5

(***************************************************************************)
(* A step that goes on in the same place, or from the keyboard handler to  *)
(* its end.                                                                *)
(***************************************************************************)
LEMMA GoesOn ==
    ASSUME Inv, InCode, \A t \in Thread : ThreadInv(t),
           UNCHANGED <<cur, stack, shadow, dump>>,
           regs' \in [Regs -> Words], iflag' \in BOOLEAN,
           eip' = eip \/ (eip = Code("kbd") /\ eip' = Code("kbd_end")),
           esp0' \in [Thread -> Nat], \A t \in Thread : t # cur => esp0'[t] = esp0[t],
           inService' \subseteq {0, 1}, NoIrqStuck'
    PROVE  Inv' /\ Back
<1>1. /\ TypeOK /\ cur \in Thread
      /\ shadow[cur] \in Seq(Contexts) /\ "kbd_end" \in Places
  BY DEF Inv, TypeOK, Places
<1>2. AtLevel(eip', Len(shadow[cur])) /\ Lost(shadow[cur], eip') = Lost(shadow[cur], eip)
  <2>1. CASE eip' = eip
    BY <2>1, <1>1 DEF ThreadInv
  <2>2. CASE eip = Code("kbd") /\ eip' = Code("kbd_end")
    <3>1. AtLevel(eip, Len(shadow[cur]))
      BY <1>1 DEF ThreadInv
    <3> QED
      BY <2>2, <3>1, <1>1, CodesDiffer DEF AtLevel, Lost
  <2> QED
    BY <2>1, <2>2
<1>3. TypeOK'
  <2>1. eip' \in Words
    BY <1>1, ConstantWords DEF TypeOK
  <2> QED
    BY <2>1, <1>1 DEF TypeOK
<1>4. InCode'
  BY <1>2 DEF AtLevel, InCode
<1>5. ASSUME NEW t \in Thread PROVE ThreadInv(t)'
  <2>1. ThreadInv(t)
    OBVIOUS
  <2>2. CASE t = cur
    BY <2>1, <2>2, <1>2 DEF ThreadInv, Top, Runs, NoDump, Zero, Word
  <2>3. CASE t # cur
    BY <2>1, <2>3 DEF ThreadInv, Top, Runs, NoDump, Zero, Word
  <2> QED
    BY <2>2, <2>3
<1>6. Back
  <2>1. \A t \in Thread : Len(shadow[t]) \in Nat
    BY <1>1 DEF TypeOK
  <2> QED
    BY <2>1 DEF Back
<1> QED
  BY <1>3, <1>4, <1>5, <1>6 DEF Inv

LEMMA StillServed ==
    ASSUME Inv, NEW served \in SUBSET {0, 1}, 1 \in served => 1 \in inService,
           inService' = Eoi(served), UNCHANGED <<eip, shadow>>
    PROVE  NoIrqStuck'
BY EoiEnds DEF Inv, NoIrqStuck, Code, Word

LEMMA TimerReturns ==
    ASSUME Inv, InCode, \A t \in Thread : ThreadInv(t),
           NEW served \in SUBSET {0, 1}, 1 \in served => 1 \in inService,
           TimerStub(cur, served)
    PROVE  Inv' /\ Back /\ UNCHANGED <<regs, eip, iflag>>
<1> DEFINE s == Entered(stack[cur])
           argued == s \o <<Word("arg", 0, 0)>>
           r == SubSeq(argued, 1, Len(s))
<1>1. /\ TypeOK /\ cur \in Thread /\ stack[cur] \in Seq(Words)
      /\ stack \in [Thread -> Seq(Words)] /\ esp0 \in [Thread -> Nat]
  BY DEF Inv, TypeOK
<1>2. s \in Seq(Words) /\ Len(s) \in Nat
  BY <1>1, EnteredSaves
<1>3. r = s
  <2>1. Word("arg", 0, 0) \in Words
    BY ConstantWords DEF Kinds
  <2>2. /\ argued \in Seq(Words) /\ Len(argued) >= Len(s)
        /\ \A j \in 1 .. Len(s) : argued[j] = s[j]
    <3> HIDE DEF s
    <3>1. argued = Append(s, Word("arg", 0, 0))
      BY <1>2, <2>1, AppendIsConcat
    <3> QED
      BY <1>2, <2>1, <3>1
  <2> HIDE DEF s, argued
  <2>3. Len(s) \in 0 .. Len(argued)
    BY <1>2, <2>2
  <2>4. /\ r \in Seq(Words) /\ Len(r) = Len(s)
        /\ \A j \in 1 .. Len(s) : r[j] = argued[j]
    BY <2>2, <2>3, Prefix
  <2> HIDE DEF r
  <2> QED
    BY <1>2, <2>2, <2>4, SeqEqual
<1>4. /\ cur' = cur /\ esp0' = [esp0 EXCEPT ![cur] = Len(s)]
      /\ regs' = RegsRestore(r) /\ eip' = At(Drop(r, 12), 1)
      /\ iflag' = (At(Drop(r, 12), 3) = Flags(TRUE))
      /\ stack' = [stack EXCEPT ![cur] = Drop(Drop(r, 12), 3)]
      /\ inService' = Eoi(served) /\ shadow' = shadow /\ dump' = dump
  <2>1. /\ [stack EXCEPT ![cur] = argued][cur] = argued
        /\ [esp0 EXCEPT ![cur] = Len(s)][cur] = Len(s)
        /\ \A x : [[stack EXCEPT ![cur] = argued] EXCEPT ![cur] = x]
                    = [stack EXCEPT ![cur] = x]
    BY <1>1
  <2> QED
    BY <2>1 DEF TimerStub, SavedDepth, Entered
<1>5. /\ RegsRestore(r) = regs /\ At(Drop(r, 12), 1) = eip
      /\ (At(Drop(r, 12), 3) = Flags(TRUE)) = iflag
      /\ Drop(Drop(r, 12), 3) = stack[cur]
  BY <1>1, <1>3, Invisible
<1> HIDE DEF s, argued, r
<1>6. UNCHANGED <<regs, eip, iflag, stack>>
  BY <1>1, <1>4, <1>5
<1>7. esp0' \in [Thread -> Nat] /\ \A t \in Thread : t # cur => esp0'[t] = esp0[t]
  BY <1>1, <1>2, <1>4
<1>8. NoIrqStuck' /\ inService' \subseteq {0, 1}
  BY <1>4, <1>6, StillServed, EoiEnds
<1>9. Inv' /\ Back
  <2>1. regs' \in [Regs -> Words] /\ iflag' \in BOOLEAN
    BY <1>1, <1>6 DEF TypeOK
  <2> QED
    BY <1>4, <1>6, <1>7, <1>8, <2>1, GoesOn
<1> QED
  BY <1>6, <1>9

LEMMA SyscallReturns ==
    ASSUME Inv, InCode, \A t \in Thread : ThreadInv(t), Syscall
    PROVE  Inv' /\ Back /\ UNCHANGED <<regs, eip, iflag>>
<1> DEFINE s == Entered(stack[cur])
           r == Drop(s \o <<Word("arg", 0, 0)>>, 1)
<1>1. /\ TypeOK /\ cur \in Thread /\ stack[cur] \in Seq(Words)
      /\ stack \in [Thread -> Seq(Words)] /\ esp0 \in [Thread -> Nat]
      /\ inService \in SUBSET {0, 1}
  BY DEF Inv, TypeOK
<1>2. s \in Seq(Words) /\ Len(s) \in Nat
  BY <1>1, EnteredSaves
<1>3. r = s
  <2>1. Word("arg", 0, 0) \in Words
    BY ConstantWords DEF Kinds
  <2> DEFINE argued == Append(s, Word("arg", 0, 0))
  <2>2. s \o <<Word("arg", 0, 0)>> = argued
    <3> HIDE DEF s
    <3> QED
      BY <1>2, <2>1, AppendIsConcat
  <2>3. argued \in Seq(Words) /\ Len(argued) = Len(s) + 1
        /\ \A j \in 1 .. Len(s) : argued[j] = s[j]
    <3> HIDE DEF s
    <3> QED
      BY <1>2, <2>1
  <2>4. r = SubSeq(argued, 1, Len(s))
    <3> HIDE DEF s, argued
    <3> QED
      BY <1>2, <2>2, <2>3 DEF Drop
  <2> HIDE DEF s, argued, r
  <2>5. Len(s) \in 0 .. Len(argued)
    BY <1>2, <2>3
  <2>6. /\ r \in Seq(Words) /\ Len(r) = Len(s)
        /\ \A j \in 1 .. Len(s) : r[j] = argued[j]
    BY <2>3, <2>4, <2>5, Prefix
  <2> QED
    BY <1>2, <2>3, <2>6, SeqEqual
<1>4. /\ regs' = RegsRestore(r) /\ eip' = At(Drop(r, 12), 1)
      /\ iflag' = (At(Drop(r, 12), 3) = Flags(TRUE))
      /\ stack' = [stack EXCEPT ![cur] = Drop(Drop(r, 12), 3)]
      /\ inService' = Eoi(inService) /\ UNCHANGED <<cur, esp0, dump, shadow>>
  BY DEF Syscall, RestoreAndIret, Entered
<1>5. /\ RegsRestore(r) = regs /\ At(Drop(r, 12), 1) = eip
      /\ (At(Drop(r, 12), 3) = Flags(TRUE)) = iflag
      /\ Drop(Drop(r, 12), 3) = stack[cur]
  BY <1>1, <1>3, Invisible
<1> HIDE DEF s, r
<1>6. UNCHANGED <<regs, eip, iflag, stack>>
  BY <1>1, <1>4, <1>5
<1>7. NoIrqStuck' /\ inService' \subseteq {0, 1}
  BY <1>1, <1>4, <1>6, StillServed, EoiEnds
<1>8. Inv' /\ Back
  <2>1. regs' \in [Regs -> Words] /\ iflag' \in BOOLEAN
    BY <1>1, <1>6 DEF TypeOK
  <2> QED
    BY <1>1, <1>4, <1>6, <1>7, <2>1, GoesOn
<1> QED
  BY <1>6, <1>8

LEMMA ComputedWords ==
    ASSUME NEW t \in Thread, NEW v \in Nat
    PROVE  Computed(t, v) \in [Regs -> Words]
<1>1. \A r \in General : Word(r, t, v) \in Words
  BY WordIsWord DEF Kinds
<1> QED
  BY <1>1, ConstantWords DEF Computed, Regs

LEMMA WorkKeeps ==
    ASSUME Inv, InCode, \A t \in Thread : ThreadInv(t), Work
    PROVE  Inv' /\ Back
<1>1. TypeOK /\ NoIrqStuck /\ UNCHANGED <<cur, eip, iflag, stack, esp0, inService, dump, shadow>>
  BY DEF Inv, Work
<1>2. regs' \in [Regs -> Words]
  <2>1. PICK v \in Nat : v = (IF regs = Computed(cur, 0) THEN 1 ELSE 0)
    OBVIOUS
  <2>2. regs' = Computed(cur, v)
    BY <2>1 DEF Work
  <2> QED
    BY <2>2, <1>1, ComputedWords DEF TypeOK
<1>3. NoIrqStuck'
  BY <1>1 DEF NoIrqStuck, Code, Word
<1> QED
  BY <1>1, <1>2, <1>3, GoesOn DEF TypeOK

LEMMA KbdStiKeeps ==
    ASSUME Inv, InCode, \A t \in Thread : ThreadInv(t), KbdSti
    PROVE  Inv' /\ Back
<1>1. /\ TypeOK /\ NoIrqStuck /\ iflag' = TRUE
      /\ UNCHANGED <<cur, regs, eip, stack, esp0, inService, dump, shadow>>
  BY DEF Inv, KbdSti
<1>2. NoIrqStuck'
  BY <1>1 DEF NoIrqStuck, Code, Word
<1> QED
  BY <1>1, <1>2, GoesOn DEF TypeOK

(***************************************************************************)
(* IRQ 0 is not in service when the keyboard's stub runs, so its EOI ends  *)
(* IRQ 1.                                                                  *)
(***************************************************************************)
LEMMA KbdEoiKeeps ==
    ASSUME Inv, InCode, \A t \in Thread : ThreadInv(t), KbdEoi
    PROVE  Inv' /\ Back
<1>1. /\ TypeOK /\ 0 \notin inService /\ eip = Code("kbd") /\ eip' = Code("kbd_end")
      /\ inService' = inService \ {1}
      /\ UNCHANGED <<cur, regs, iflag, stack, esp0, dump, shadow>>
  BY DEF Inv, KbdEoi, NoIrqStuck, Eoi
<1>2. NoIrqStuck' /\ inService' \subseteq {0, 1}
  BY <1>1 DEF NoIrqStuck, TypeOK
<1> QED
  BY <1>1, <1>2, GoesOn DEF TypeOK

(***************************************************************************)
(* The keyboard interrupts whatever runs, on the same stack.               *)
(***************************************************************************)
LEMMA KbdIrqKeeps ==
    ASSUME Inv, InCode, \A t \in Thread : ThreadInv(t), KbdIrq
    PROVE  Inv' /\ Back
<1> DEFINE e == Entered(stack[cur])
           sh == Append(shadow[cur], Context)
<1>1. /\ TypeOK /\ cur \in Thread /\ stack[cur] \in Seq(Words)
      /\ shadow[cur] \in Seq(Contexts)
  BY DEF Inv, TypeOK
<1>2. e \in Seq(Words) /\ Len(e) = Len(stack[cur]) + 15
  BY <1>1, EnteredSaves
<1>3. IsInterrupted(e, Code("kbd"))
  <2> HIDE DEF e
  <2>1. Code("kbd") # Code("panicked") /\ ThreadInv(cur)
    BY <1>1, CodesDiffer
  <2>2. e = Entered(stack[cur])
    BY DEF e
  <2>3. Len(e) >= Len(e)
    BY <1>2
  <2> QED
    BY <1>1, <1>2, <2>1, <2>2, <2>3, Interrupted
<1>4. /\ inService' = {1} /\ stack' = [stack EXCEPT ![cur] = e]
      /\ shadow' = [shadow EXCEPT ![cur] = sh]
      /\ eip' = Code("kbd") /\ iflag' = FALSE /\ regs' = Computed(cur, 2)
      /\ UNCHANGED <<cur, esp0, dump>>
  BY DEF KbdIrq, Entered
<1>5. /\ sh \in Seq(Contexts) /\ Len(sh) = Len(shadow[cur]) + 1
      /\ Holds(e, Len(stack[cur]) + 15, sh, Lost(sh, Code("kbd")))
      /\ \A k \in 1 .. Len(sh) : AtLevel(sh[k].eip, k - 1)
      /\ Lost(sh, Code("kbd")) # 0 => dump # NoDump
  BY <1>3 DEF IsInterrupted
<1> HIDE DEF e, sh
<1>6. /\ stack'[cur] = e /\ shadow'[cur] = sh
      /\ \A t \in Thread \ {cur} : stack'[t] = stack[t] /\ shadow'[t] = shadow[t]
  BY <1>1, <1>4 DEF TypeOK
<1>7. TypeOK'
  <2>1. /\ stack' \in [Thread -> Seq(Words)] /\ shadow' \in [Thread -> Seq(Contexts)]
    BY <1>1, <1>2, <1>4, <1>5 DEF TypeOK
  <2>2. regs' \in [Regs -> Words] /\ eip' \in Words
    BY <1>1, <1>4, ComputedWords, ConstantWords DEF Places
  <2> QED
    BY <1>1, <1>4, <2>1, <2>2 DEF TypeOK
<1>8. NoIrqStuck'
  BY <1>4 DEF NoIrqStuck
<1>9. AtLevel(eip', Len(shadow'[cur]))
  <2>1. Code("kbd") \in {Code(p) : p \in Places}
    BY DEF Places
  <2>2. Len(sh) \in Nat \ {0}
    BY <1>1, <1>5
  <2> QED
    BY <1>4, <1>6, <2>1, <2>2, CodesDiffer DEF AtLevel
<1>10. InCode'
  BY <1>9 DEF AtLevel, InCode
<1>11. ASSUME NEW t \in Thread PROVE ThreadInv(t)'
  <2>1. CASE t = cur
    <3>1. Top(t)' = Len(stack[cur]) + 15 /\ Runs(t)' = Code("kbd") /\ t = cur'
      BY <2>1, <1>2, <1>4, <1>6 DEF Top, Runs
    <3> QED
      BY <2>1, <3>1, <1>4, <1>5, <1>6, <1>9 DEF ThreadInv, NoDump, Zero, Word
  <2>2. CASE t # cur
    BY <2>2, <1>4, <1>6 DEF ThreadInv, Top, Runs, NoDump, Zero, Word
  <2> QED
    BY <2>1, <2>2
<1>12. Back
  <2>1. \A t \in Thread : Len(shadow[t]) \in Nat
    BY <1>1 DEF TypeOK
  <2> QED
    BY <1>5, <1>6, <2>1 DEF Back
<1> QED
  BY <1>7, <1>8, <1>10, <1>11, <1>12 DEF Inv

(***************************************************************************)
(* The keyboard's stub returns to what it has interrupted: it has run all  *)
(* the time on the stack it saved it on.                                   *)
(***************************************************************************)
LEMMA KbdIretKeeps ==
    ASSUME Inv, InCode, \A t \in Thread : ThreadInv(t), KbdIret
    PROVE  Inv' /\ Back
<1> DEFINE s == stack[cur]
           sh == shadow[cur]
           d == Drop(Drop(s, 12), 3)
<1>1. /\ TypeOK /\ NoIrqStuck /\ cur \in Thread /\ s \in Seq(Words) /\ sh \in Seq(Contexts)
      /\ ThreadInv(cur) /\ eip = Code("kbd_end")
  BY DEF Inv, TypeOK, KbdIret
<1>2. /\ Len(sh) > 0 /\ Holds(s, Len(s), sh, Lost(sh, eip))
      /\ \A k \in 1 .. Len(sh) : AtLevel(sh[k].eip, k - 1)
      /\ Lost(sh, eip) # 0 => dump # NoDump
  <2>1. AtLevel(eip, Len(sh)) /\ Len(sh) \in Nat
    BY <1>1 DEF ThreadInv
  <2>2. Len(sh) > 0
    BY <1>1, <2>1, CodesDiffer DEF AtLevel
  <2> QED
    BY <1>1, <2>2 DEF ThreadInv, Top, Runs
<1>3. IsResumed(s, sh, eip)
  <2> HIDE DEF s, sh
  <2>1. Len(s) <= Len(s) /\ eip # Code("panicked")
    BY <1>1, CodesDiffer
  <2> QED
    BY <1>1, <1>2, <2>1, Resumed
<1>4. /\ Front(sh) \in Seq(Contexts) /\ Last(sh) \in Contexts
      /\ Len(Front(sh)) < Len(sh)
      /\ \A k \in 1 .. Len(Front(sh)) : Front(sh)[k] = sh[k]
      /\ Last(sh) = sh[Len(sh)]
      /\ RegsRestore(s) = Last(sh).regs
      /\ At(Drop(s, 12), 1) = Last(sh).eip
      /\ (At(Drop(s, 12), 3) = Flags(TRUE)) = Last(sh).iflag
      /\ d \in Seq(Words)
      /\ Holds(d, Len(d), Front(sh), Lost(Front(sh), Last(sh).eip))
      /\ \A k \in 1 .. Len(Front(sh)) : AtLevel(Front(sh)[k].eip, k - 1)
      /\ AtLevel(Last(sh).eip, Len(Front(sh)))
      /\ Lost(Front(sh), Last(sh).eip) = Lost(sh, eip)
  BY <1>3 DEF IsResumed
<1>5. /\ regs' = RegsRestore(s) /\ eip' = At(Drop(s, 12), 1)
      /\ iflag' = (At(Drop(s, 12), 3) = Flags(TRUE))
      /\ stack' = [stack EXCEPT ![cur] = d]
      /\ shadow' = [shadow EXCEPT ![cur] = Front(sh)]
      /\ UNCHANGED <<cur, esp0, inService, dump>>
  BY DEF KbdIret, RestoreAndIret
<1> HIDE DEF s, sh, d
<1>6. regs' = Last(sh).regs /\ eip' = Last(sh).eip /\ iflag' = Last(sh).iflag
  BY <1>4, <1>5
<1>7. /\ stack'[cur] = d /\ shadow'[cur] = Front(sh)
      /\ \A t \in Thread \ {cur} : stack'[t] = stack[t] /\ shadow'[t] = shadow[t]
  BY <1>1, <1>5 DEF TypeOK
<1>8. TypeOK'
  <2>1. /\ stack' \in [Thread -> Seq(Words)] /\ shadow' \in [Thread -> Seq(Contexts)]
    BY <1>1, <1>4, <1>5 DEF TypeOK
  <2>2. regs' \in [Regs -> Words] /\ eip' \in Words /\ iflag' \in BOOLEAN
    BY <1>4, <1>6 DEF Contexts
  <2> QED
    BY <1>1, <1>5, <2>1, <2>2 DEF TypeOK
<1>9. NoIrqStuck'
  <2> SUFFICES ASSUME 1 \in inService'
               PROVE  \/ eip' = Code("kbd")
                      \/ \E t \in Thread : \E k \in 1 .. Len(shadow'[t]) :
                            shadow'[t][k].eip = Code("kbd")
    BY <1>1, <1>5 DEF NoIrqStuck
  <2>1. PICK t \in Thread : \E k \in 1 .. Len(shadow[t]) : shadow[t][k].eip = Code("kbd")
    BY <1>1, <1>5, CodesDiffer DEF NoIrqStuck
  <2>2. PICK k \in 1 .. Len(shadow[t]) : shadow[t][k].eip = Code("kbd")
    BY <2>1
  <2>3. CASE t # cur
    BY <2>2, <2>3, <1>7
  <2>4. CASE t = cur /\ k = Len(shadow[cur])
    BY <2>2, <2>4, <1>4, <1>6 DEF sh
  <2>5. CASE t = cur /\ k # Len(shadow[cur])
    <3>1. k \in 1 .. Len(Front(sh))
      BY <2>2, <2>5, <1>1 DEF Front, sh
    <3> QED
      BY <2>2, <2>5, <3>1, <1>1, <1>4, <1>7 DEF sh
  <2> QED
    BY <2>3, <2>4, <2>5
<1>10. InCode'
  BY <1>4, <1>6 DEF AtLevel, InCode
<1>11. ASSUME NEW t \in Thread PROVE ThreadInv(t)'
  <2>1. CASE t = cur
    <3>1. Top(t)' = Len(d) /\ Runs(t)' = Last(sh).eip /\ t = cur'
      BY <2>1, <1>5, <1>6, <1>7 DEF Top, Runs
    <3>2. Lost(Front(sh), Last(sh).eip) # 0 => dump # NoDump
      BY <1>2, <1>4
    <3> QED
      BY <2>1, <3>1, <3>2, <1>4, <1>5, <1>6, <1>7 DEF ThreadInv, NoDump, Zero, Word
  <2>2. CASE t # cur
    BY <2>2, <1>5, <1>7 DEF ThreadInv, Top, Runs, NoDump, Zero, Word
  <2> QED
    BY <2>1, <2>2
<1>12. Back
  <2> SUFFICES ASSUME NEW t \in Thread, Len(shadow'[t]) < Len(shadow[t])
               PROVE  [regs |-> regs', eip |-> eip', iflag |-> iflag'] = Last(shadow[t])
    BY DEF Back
  <2>1. t = cur
    <3>1. \A x \in Thread : Len(shadow[x]) \in Nat
      BY <1>1 DEF TypeOK
    <3> QED
      BY <1>7, <3>1
  <2> QED
    BY <2>1, <1>4, <1>6 DEF Contexts, sh
<1> QED
  BY <1>8, <1>9, <1>10, <1>11, <1>12 DEF Inv

(***************************************************************************)
(* An exception comes from a thread's own code, so what exception_handler  *)
(* never returns to is the thread's first context.                         *)
(***************************************************************************)
LEMMA AtEntry ==
    ASSUME Inv, InThread
    PROVE  /\ InCode /\ \A t \in Thread : ThreadInv(t)
           /\ shadow[cur] = <<>>
<1>1. InCode /\ \A t \in Thread : ThreadInv(t)
  BY WhoRuns
<1>2. cur \in Thread /\ shadow[cur] \in Seq(Contexts)
  BY DEF Inv, TypeOK
<1>3. Len(shadow[cur]) = 0
  <2>1. AtLevel(eip, Len(shadow[cur]))
    BY <1>1, <1>2 DEF ThreadInv
  <2> QED
    BY <2>1 DEF AtLevel, InThread
<1> QED
  BY <1>1, <1>2, <1>3

(***************************************************************************)
(* What mainIsrStub leaves on the stack s of a thread that has raised x.   *)
(***************************************************************************)
RaisedFrame(s, x) ==
    s \o HardwareFrame \o (IF x.code THEN <<Word("error_code", 0, 0)>> ELSE <<>>)
      \o <<Word("num", 0, x.num)>> \o RegsSave

LEMMA FrameOfException ==
    ASSUME TypeOK, NEW x \in Exceptions, NEW s \in Seq(Words)
    PROVE  /\ RaisedFrame(s, x) \in Seq(Words)
           /\ Len(RaisedFrame(s, x)) >= 15
           /\ ReadDump(RaisedFrame(s, x))
                \in [num : Words, eip : Words, raised : Words] \ {NoDump}
<1> DEFINE code == IF x.code THEN <<Word("error_code", 0, 0)>> ELSE <<>>
           num == <<Word("num", 0, x.num)>>
<1>1. /\ HardwareFrame \in Seq(Words) /\ Len(HardwareFrame) = 3
  BY ConstantWords DEF TypeOK, HardwareFrame, KERNEL_CODE
<1>2. code \in Seq(Words) /\ Len(code) \in Nat
  <2>1. Word("error_code", 0, 0) \in Words
    BY ConstantWords DEF Kinds
  <2> QED
    BY <2>1
<1>3. num \in Seq(Words) /\ Len(num) = 1 /\ num[1] = Word("num", 0, x.num)
  <2>1. x.num \in Nat
    BY InterruptEntryAssumption DEF Exception
  <2>2. PICK z \in {0} : z = 0
    OBVIOUS
  <2>3. Word("num", z, x.num) \in Words
    BY <2>1, WordIsWord DEF Kinds
  <2> QED
    BY <2>2, <2>3
<1>4. RegsSave \in Seq(Words) /\ Len(RegsSave) = 12
  BY RegsSaveLength
<1> HIDE DEF code, num
<1>5. PICK a \in Seq(Words) : a = s \o HardwareFrame /\ Len(a) >= 3
  <2>1. s \o HardwareFrame \in Seq(Words) /\ Len(s \o HardwareFrame) = Len(s) + Len(HardwareFrame)
    BY <1>1, Concatenated, Zenon
  <2>2. Len(s \o HardwareFrame) >= 3
    BY <1>1, <2>1
  <2> QED
    BY <2>1, <2>2, Zenon
<1>6. PICK b \in Seq(Words) : b = a \o code /\ Len(b) >= 3
  <2>1. a \o code \in Seq(Words) /\ Len(a \o code) = Len(a) + Len(code)
    BY <1>2, Concatenated, Zenon
  <2>2. Len(a \o code) >= 3
    BY <1>2, <1>5, <2>1
  <2> QED
    BY <2>1, <2>2, Zenon
<1>7. PICK n \in Nat : n = Len(b)
  OBVIOUS
<1>8. PICK c \in Seq(Words) : c = b \o num /\ Len(c) = n + 1 /\ c[n + 1] = num[1]
  <2>1. /\ b \o num \in Seq(Words) /\ Len(b \o num) = Len(b) + Len(num)
        /\ \A j \in 1 .. Len(num) : (b \o num)[Len(b) + j] = num[j]
    BY <1>3, Concatenated, Zenon
  <2>2. Len(b \o num) = n + 1 /\ (b \o num)[n + 1] = num[1]
    BY <1>3, <1>7, <2>1
  <2> QED
    BY <2>1, <2>2, Zenon
<1>9. PICK e \in Seq(Words) :
        /\ e = c \o RegsSave /\ Len(e) = n + 13
        /\ \A j \in 1 .. (n + 1) : e[j] = c[j]
  <2>1. /\ c \o RegsSave \in Seq(Words) /\ Len(c \o RegsSave) = Len(c) + Len(RegsSave)
        /\ \A j \in 1 .. Len(c) : (c \o RegsSave)[j] = c[j]
    BY <1>4, Concatenated, Zenon
  <2>2. /\ Len(c \o RegsSave) = n + 13
        /\ \A j \in 1 .. (n + 1) : (c \o RegsSave)[j] = c[j]
    BY <1>4, <1>8, <2>1
  <2> QED
    BY <2>1, <2>2, Zenon
<1>10. e = RaisedFrame(s, x) /\ Len(e) >= 15
  BY <1>5, <1>6, <1>7, <1>8, <1>9 DEF RaisedFrame, code, num
<1>11. At(e, 13) = Word("num", 0, x.num) /\ At(e, 13) \in Words /\ At(e, 14) \in Words
  <2>1. Len(e) - 13 + 1 = n + 1 /\ Len(e) - 14 + 1 = n /\ n >= 3
    BY <1>6, <1>7, <1>9
  <2>2. At(e, 13) = e[n + 1] /\ At(e, 14) = e[n]
    BY <2>1 DEF At
  <2>3. n \in 1 .. Len(e) /\ n + 1 \in 1 .. Len(e) /\ n + 1 \in 1 .. (n + 1)
    BY <2>1, <1>9
  <2>4. e[n] \in Words /\ e[n + 1] \in Words
    BY <2>3
  <2>5. e[n + 1] = Word("num", 0, x.num)
    BY <2>3, <1>3, <1>8, <1>9
  <2> QED
    BY <2>2, <2>4, <2>5
<1>12. Word("num", 0, x.num) # Zero
  BY DEF Word, Zero
<1>13. /\ ReadDump(e) \in [num : Words, eip : Words, raised : Words]
       /\ ReadDump(e) # NoDump
  <2>1. eip \in Words
    BY DEF TypeOK
  <2>2. ReadDump(e).num # NoDump.num
    BY <1>11, <1>12 DEF ReadDump, NoDump
  <2> QED
    BY <1>11, <2>1, <2>2 DEF ReadDump
<1> QED
  BY <1>10, <1>13

LEMMA RaiseKeeps ==
    ASSUME Inv, NEW x \in Exceptions, Raise(x)
    PROVE  Inv' /\ Back
<1> DEFINE f == RaisedFrame(stack[cur], x)
           d == Append(f, Word("arg", 0, 0))
<1>1. /\ TypeOK /\ NoIrqStuck /\ cur \in Thread /\ stack[cur] \in Seq(Words)
      /\ shadow[cur] \in Seq(Contexts) /\ InThread
      /\ Context \in Contexts /\ Context.eip = eip
  BY DEF Inv, TypeOK, Raise, Context, Contexts
<1>2. (\A t \in Thread : ThreadInv(t)) /\ shadow[cur] = <<>>
  BY <1>1, AtEntry
<1>3. /\ f \in Seq(Words) /\ Len(f) >= 15
      /\ ReadDump(f) \in [num : Words, eip : Words, raised : Words] \ {NoDump}
  BY <1>1, FrameOfException
<1>4. d \in Seq(Words) /\ Len(d) >= 15
  <2>1. Word("arg", 0, 0) \in Words
    BY ConstantWords DEF Kinds
  <2> HIDE DEF f
  <2> QED
    BY <1>3, <2>1
<1>5. /\ dump' = ReadDump(f) /\ stack' = [stack EXCEPT ![cur] = d]
      /\ shadow' = [shadow EXCEPT ![cur] = <<Context>>]
      /\ regs' = Computed(cur, 2) /\ eip' = Code("panicked") /\ iflag' = x.haltOn
      /\ UNCHANGED <<cur, esp0, inService>>
  <2>1. Append(shadow[cur], Context) = <<Context>>
    BY <1>2
  <2> QED
    BY <2>1, <1>1 DEF Raise, RaisedFrame, TypeOK
<1> HIDE DEF f, d
<1>6. /\ stack'[cur] = d /\ shadow'[cur] = <<Context>> /\ dump' # NoDump
      /\ \A t \in Thread \ {cur} : stack'[t] = stack[t] /\ shadow'[t] = shadow[t]
  BY <1>1, <1>3, <1>5 DEF TypeOK
<1>7. TypeOK'
  <2>1. /\ stack' \in [Thread -> Seq(Words)] /\ shadow' \in [Thread -> Seq(Contexts)]
    BY <1>1, <1>4, <1>5 DEF TypeOK
  <2>2. regs' \in [Regs -> Words] /\ eip' \in Words
    BY <1>1, <1>5, ComputedWords, ConstantWords DEF Places
  <2>3. iflag' \in BOOLEAN
    BY <1>5, InterruptEntryAssumption DEF Exception
  <2> QED
    BY <1>1, <1>3, <1>5, <2>1, <2>2, <2>3 DEF TypeOK
<1>8. NoIrqStuck'
  <2> SUFFICES ASSUME 1 \in inService'
               PROVE  \E t \in Thread : \E k \in 1 .. Len(shadow'[t]) :
                            shadow'[t][k].eip = Code("kbd")
    BY <1>1, <1>5 DEF NoIrqStuck
  <2>1. eip # Code("kbd")
    BY <1>1, CodesDiffer DEF InThread
  <2>2. PICK t \in Thread : \E k \in 1 .. Len(shadow[t]) : shadow[t][k].eip = Code("kbd")
    BY <1>1, <1>5, <2>1 DEF NoIrqStuck
  <2>3. t # cur
    BY <2>2, <1>2
  <2> QED
    BY <2>2, <2>3, <1>6
<1>9. AtLevel(eip', Len(shadow'[cur])) /\ InCode'
  <2>1. Code("panicked") \in {Code(p) : p \in Places}
    BY DEF Places
  <2> QED
    BY <1>5, <1>6, <2>1, CodesDiffer DEF AtLevel, InCode
<1>10. ASSUME NEW t \in Thread PROVE ThreadInv(t)'
  <2>1. CASE t = cur
    <3>1. Top(t)' = Len(d) /\ Runs(t)' = Code("panicked") /\ t = cur'
      BY <2>1, <1>5, <1>6 DEF Top, Runs
    <3>2. Lost(<<Context>>, Code("panicked")) = 1
      BY DEF Lost
    <3>3. Holds(d, Len(d), <<Context>>, 1)
      BY <1>4 DEF Holds
    <3>4. \A k \in 1 .. Len(<<Context>>) : AtLevel(<<Context>>[k].eip, k - 1)
      <4>1. eip = Code("entry") /\ eip \in {Code(p) : p \in Places}
        BY <1>1 DEF InThread, Places
      <4>2. AtLevel(Context.eip, 0)
        BY <1>1, <4>1, CodesDiffer DEF AtLevel
      <4> QED
        BY <4>2
    <3> QED
      BY <2>1, <3>1, <3>2, <3>3, <3>4, <1>5, <1>6, <1>9 DEF ThreadInv, NoDump, Zero, Word
  <2>2. CASE t # cur
    <3>1. ThreadInv(t) /\ Top(t)' = Top(t) /\ Runs(t)' = Runs(t) /\ t # cur'
      BY <2>2, <1>2, <1>5 DEF Top, Runs, Zero, Word
    <3> QED
      BY <2>2, <3>1, <1>5, <1>6 DEF ThreadInv, NoDump, Zero, Word
  <2> QED
    BY <2>1, <2>2
<1>11. Back
  <2>1. \A t \in Thread : Len(shadow[t]) \in Nat
    BY <1>1 DEF TypeOK
  <2> QED
    BY <1>2, <1>6, <2>1 DEF Back
<1> QED
  BY <1>7, <1>8, <1>9, <1>10, <1>11 DEF Inv

(***************************************************************************)
(* What x86PageFault restores from: flags where iret takes eip from, and   *)
(* the selector of the code where it takes the flags from.                 *)
(***************************************************************************)
FaultFrame(s) ==
    s \o <<Word("caller", 0, 0), Word("caller", 0, 0)>> \o HardwareFrame
      \o <<Word("error_code", 0, 0)>> \o RegsSave \o <<Word("cr2", 0, 0)>>

LEMMA FrameOfFault ==
    ASSUME TypeOK, NEW s \in Seq(Words), NEW n \in Nat, n = Len(s)
    PROVE  /\ FaultFrame(s) \in Seq(Words)
           /\ Len(FaultFrame(s)) = n + 19
           /\ FaultFrame(s)[n + 3] = Flags(iflag)
           /\ FaultFrame(s)[n + 4] = KERNEL_CODE
<1> DEFINE below == <<Word("caller", 0, 0), Word("caller", 0, 0)>>
           code == <<Word("error_code", 0, 0)>>
           address == <<Word("cr2", 0, 0)>>
<1>1. /\ HardwareFrame \in Seq(Words) /\ Len(HardwareFrame) = 3
      /\ HardwareFrame[1] = Flags(iflag) /\ HardwareFrame[2] = KERNEL_CODE
  BY ConstantWords DEF TypeOK, HardwareFrame
<1>2. /\ below \in Seq(Words) /\ Len(below) = 2
      /\ code \in Seq(Words) /\ Len(code) = 1
      /\ address \in Seq(Words) /\ Len(address) = 1
  <2>1. /\ Word("caller", 0, 0) \in Words /\ Word("error_code", 0, 0) \in Words
        /\ Word("cr2", 0, 0) \in Words
    BY ConstantWords DEF Kinds
  <2> QED
    BY <2>1
<1>3. RegsSave \in Seq(Words) /\ Len(RegsSave) = 12
  BY RegsSaveLength
<1> HIDE DEF below, code, address
<1>4. PICK a \in Seq(Words) : a = s \o below /\ Len(a) = n + 2
  <2>1. s \o below \in Seq(Words) /\ Len(s \o below) = Len(s) + Len(below)
    BY <1>2, Concatenated, Zenon
  <2>2. Len(s \o below) = n + 2
    BY <1>2, <2>1
  <2> QED
    BY <2>1, <2>2, Zenon
<1>5. PICK b \in Seq(Words) :
        /\ b = a \o HardwareFrame /\ Len(b) = n + 5
        /\ b[n + 3] = Flags(iflag) /\ b[n + 4] = KERNEL_CODE
  <2>1. /\ a \o HardwareFrame \in Seq(Words)
        /\ Len(a \o HardwareFrame) = Len(a) + Len(HardwareFrame)
        /\ \A j \in 1 .. Len(HardwareFrame) :
              (a \o HardwareFrame)[Len(a) + j] = HardwareFrame[j]
    BY <1>1, Concatenated, Zenon
  <2>2. /\ Len(a \o HardwareFrame) = n + 5
        /\ (a \o HardwareFrame)[(n + 2) + 1] = HardwareFrame[1]
        /\ (a \o HardwareFrame)[(n + 2) + 2] = HardwareFrame[2]
    BY <1>1, <1>4, <2>1
  <2>3. (n + 2) + 1 = n + 3 /\ (n + 2) + 2 = n + 4
    OBVIOUS
  <2>4. /\ (a \o HardwareFrame)[n + 3] = Flags(iflag)
        /\ (a \o HardwareFrame)[n + 4] = KERNEL_CODE
    BY <1>1, <2>2, <2>3
  <2> QED
    BY <2>1, <2>2, <2>4, Zenon
<1>6. PICK c \in Seq(Words) :
        /\ c = b \o code /\ Len(c) = n + 6
        /\ \A j \in 1 .. (n + 5) : c[j] = b[j]
  <2>1. /\ b \o code \in Seq(Words) /\ Len(b \o code) = Len(b) + Len(code)
        /\ \A j \in 1 .. Len(b) : (b \o code)[j] = b[j]
    BY <1>2, Concatenated, Zenon
  <2>2. Len(b \o code) = n + 6 /\ \A j \in 1 .. (n + 5) : (b \o code)[j] = b[j]
    BY <1>2, <1>5, <2>1
  <2> QED
    BY <2>1, <2>2, Zenon
<1>7. PICK d \in Seq(Words) :
        /\ d = c \o RegsSave /\ Len(d) = n + 18
        /\ \A j \in 1 .. (n + 6) : d[j] = c[j]
  <2>1. /\ c \o RegsSave \in Seq(Words) /\ Len(c \o RegsSave) = Len(c) + Len(RegsSave)
        /\ \A j \in 1 .. Len(c) : (c \o RegsSave)[j] = c[j]
    BY <1>3, Concatenated, Zenon
  <2>2. /\ Len(c \o RegsSave) = n + 18
        /\ \A j \in 1 .. (n + 6) : (c \o RegsSave)[j] = c[j]
    BY <1>3, <1>6, <2>1
  <2> QED
    BY <2>1, <2>2, Zenon
<1>8. PICK e \in Seq(Words) :
        /\ e = d \o address /\ Len(e) = n + 19
        /\ \A j \in 1 .. (n + 18) : e[j] = d[j]
  <2>1. /\ d \o address \in Seq(Words) /\ Len(d \o address) = Len(d) + Len(address)
        /\ \A j \in 1 .. Len(d) : (d \o address)[j] = d[j]
    BY <1>2, Concatenated, Zenon
  <2>2. /\ Len(d \o address) = n + 19
        /\ \A j \in 1 .. (n + 18) : (d \o address)[j] = d[j]
    BY <1>2, <1>7, <2>1
  <2> QED
    BY <2>1, <2>2, Zenon
<1>9. e = FaultFrame(s)
  BY <1>4, <1>5, <1>6, <1>7, <1>8 DEF FaultFrame, below, code, address
<1>10. e[n + 3] = Flags(iflag) /\ e[n + 4] = KERNEL_CODE
  <2>1. \A j \in {n + 3, n + 4} : j \in 1 .. (n + 5) /\ j \in 1 .. (n + 6) /\ j \in 1 .. (n + 18)
    OBVIOUS
  <2>2. \A j \in {n + 3, n + 4} : e[j] = b[j]
    BY <2>1, <1>6, <1>7, <1>8
  <2> QED
    BY <2>2, <1>5
<1> QED
  BY <1>8, <1>9, <1>10

LEMMA RestoredTypes ==
    ASSUME NEW s \in Seq(Words), Len(s) >= 12
    PROVE  RegsRestore(s) \in [Regs -> Words]
<1>1. \A k \in 1 .. 12 : At(s, k) \in Words
  <2>1. PICK n \in Nat : n = Len(s)
    OBVIOUS
  <2>2. \A k \in 1 .. 12 : n - k + 1 \in 1 .. n
    BY <2>1
  <2>3. \A j \in 1 .. n : s[j] \in Words
    BY <2>1
  <2> QED
    BY <2>1, <2>2, <2>3 DEF At
<1> QED
  BY <1>1 DEF RegsRestore, Regs, General, Segments

LEMMA PageFaultKeeps ==
    ASSUME Inv, PageFault
    PROVE  Inv' /\ Back
<1> DEFINE e == FaultFrame(stack[cur])
           p == Drop(e, 3)
           r == Rotated(p)
           f == Drop(r, 12)
<1>1. /\ TypeOK /\ NoIrqStuck /\ cur \in Thread /\ stack[cur] \in Seq(Words) /\ InThread
  BY DEF Inv, TypeOK, PageFault
<1>2. PICK n \in Nat : n = Len(stack[cur])
  BY <1>1
<1>3. /\ e \in Seq(Words) /\ Len(e) = n + 19
      /\ e[n + 3] = Flags(iflag) /\ e[n + 4] = KERNEL_CODE
  BY <1>1, <1>2, FrameOfFault
<1>4. /\ regs' = RegsRestore(r) /\ eip' = At(f, 1) /\ iflag' = (At(f, 3) = Flags(TRUE))
      /\ stack' = [stack EXCEPT ![cur] = Drop(f, 3)]
      /\ inService' = Eoi(inService) /\ UNCHANGED <<cur, esp0, dump, shadow>>
  BY DEF PageFault, RestoreAndIret, FaultFrame
<1> HIDE DEF e
<1>5. /\ p \in Seq(Words) /\ Len(p) = n + 16
      /\ p[n + 3] = Flags(iflag) /\ p[n + 4] = KERNEL_CODE
  <2>1. p = SubSeq(e, 1, n + 16)
    <3>1. Len(e) = (n + 16) + 3 /\ n + 16 \in Nat
      BY <1>3
    <3> QED
      BY <1>3, <3>1, DropIsPrefix
  <2>2. n + 16 \in 0 .. Len(e)
    BY <1>3
  <2> HIDE DEF p
  <2>3. /\ p \in Seq(Words) /\ Len(p) = n + 16
        /\ \A j \in 1 .. (n + 16) : p[j] = e[j]
    BY <1>3, <2>1, <2>2, Prefix
  <2>4. n + 3 \in 1 .. (n + 16) /\ n + 4 \in 1 .. (n + 16)
    OBVIOUS
  <2> QED
    BY <1>3, <2>3, <2>4
<1> HIDE DEF p
<1>6. /\ r \in Seq(Words) /\ Len(r) = n + 16
      /\ r[n + 4] = p[n + 3] /\ r[n + 2] = p[n + 4]
  <2>1. Len(p) - 12 = n + 4
    BY <1>5
  <2>2. /\ r = [k \in 1 .. (n + 16) |->
                  CASE k = n + 4     -> p[(n + 4) - 1]
                    [] k = (n + 4) - 1 -> p[(n + 4) - 2]
                    [] k = (n + 4) - 2 -> p[n + 4]
                    [] OTHER -> p[k]]
    BY <1>5, <2>1 DEF Rotated
  <2>3. \A k \in 1 .. (n + 16) : p[k] \in Words
    BY <1>5
  <2>4. /\ (n + 4) - 1 = n + 3 /\ (n + 4) - 2 = n + 2
        /\ n + 3 \in 1 .. (n + 16) /\ n + 4 \in 1 .. (n + 16) /\ n + 2 \in 1 .. (n + 16)
        /\ n + 4 # n + 2 /\ n + 3 # n + 2
    OBVIOUS
  <2> HIDE DEF r
  <2>5. \A k \in 1 .. (n + 16) : r[k] \in Words
    BY <2>2, <2>3, <2>4
  <2>6. r \in [1 .. (n + 16) -> Words]
    BY <2>2, <2>5
  <2>7. r[n + 4] = p[n + 3] /\ r[n + 2] = p[n + 4]
    BY <2>2, <2>4
  <2>8. n + 16 \in Nat
    OBVIOUS
  <2> QED
    BY <2>6, <2>7, <2>8
<1> HIDE DEF r
<1>7. /\ f \in Seq(Words) /\ Len(f) = n + 4
      /\ f[n + 4] = Flags(iflag) /\ f[n + 2] = KERNEL_CODE
  <2>1. f = SubSeq(r, 1, n + 4)
    <3>1. Len(r) = (n + 4) + 12 /\ n + 4 \in Nat
      BY <1>6
    <3> QED
      BY <1>6, <3>1, DropIsPrefix
  <2>2. n + 4 \in 0 .. Len(r)
    BY <1>6
  <2>3. /\ f \in Seq(Words) /\ Len(f) = n + 4
        /\ \A j \in 1 .. (n + 4) : f[j] = r[j]
    BY <1>6, <2>1, <2>2, Prefix
  <2>4. n + 4 \in 1 .. (n + 4) /\ n + 2 \in 1 .. (n + 4)
    OBVIOUS
  <2> QED
    BY <1>5, <1>6, <2>3, <2>4
<1> HIDE DEF f
<1>8. eip' = Flags(iflag) /\ iflag' = FALSE
  <2>1. (n + 4) - 1 + 1 = n + 4 /\ (n + 4) - 3 + 1 = n + 2
    OBVIOUS
  <2>2. At(f, 1) = Flags(iflag) /\ At(f, 3) = KERNEL_CODE
    BY <1>7, <2>1 DEF At
  <2>3. KERNEL_CODE # Flags(TRUE)
    BY DEF KERNEL_CODE, Flags, Word
  <2> QED
    BY <1>4, <2>2, <2>3
<1>9. Drop(f, 3) \in Seq(Words)
  <2>1. Len(f) = (n + 1) + 3 /\ n + 1 \in Nat /\ n + 1 \in 0 .. Len(f)
    BY <1>7
  <2> QED
    BY <1>7, <2>1, DropIsPrefix, Prefix
<1>10. inService' = {}
  BY <1>1, <1>4 DEF Eoi, NoIrqStuck, TypeOK
<1>11. TypeOK'
  <2>1. regs' \in [Regs -> Words]
    BY <1>4, <1>6, RestoredTypes
  <2>2. eip' \in Words
    BY <1>1, <1>8, ConstantWords DEF TypeOK
  <2>3. stack' \in [Thread -> Seq(Words)]
    BY <1>1, <1>4, <1>9 DEF TypeOK
  <2> QED
    BY <1>1, <1>4, <1>8, <1>10, <2>1, <2>2, <2>3 DEF TypeOK
<1>12. ~InCode'
  BY <1>1, <1>8, DistinctWords DEF InCode, TypeOK
<1>13. Back
  <2>1. \A t \in Thread : Len(shadow[t]) \in Nat
    BY <1>1 DEF TypeOK
  <2> QED
    BY <1>4, <2>1 DEF Back
<1> QED
  BY <1>8, <1>10, <1>11, <1>12, <1>13 DEF Inv, NoIrqStuck

-----------------------------------------------------------------------------
(* The invariant. *)

LEMMA InitInv == Init => Inv
<1> SUFFICES ASSUME Init PROVE Inv
  OBVIOUS
<1> DEFINE hw == <<Flags(TRUE), KERNEL_CODE, Code("entry")>>
           general == [k \in 1 .. 8 |-> Zero]
           segments == [k \in 1 .. 4 |-> KERNEL_DATA]
<1>1. /\ Flags(TRUE) \in Words /\ KERNEL_CODE \in Words /\ KERNEL_DATA \in Words
      /\ Zero \in Words /\ Code("entry") \in Words
  BY ConstantWords DEF Places
<1>2. /\ hw \in Seq(Words) /\ Len(hw) = 3 /\ hw[1] = Flags(TRUE) /\ hw[3] = Code("entry")
      /\ general \in Seq(Words) /\ Len(general) = 8
      /\ \A k \in 1 .. 8 : general[k] = Zero
      /\ segments \in Seq(Words) /\ Len(segments) = 4
      /\ \A k \in 1 .. 4 : segments[k] = KERNEL_DATA
  <2>1. hw \in Seq(Words) /\ Len(hw) = 3 /\ hw[1] = Flags(TRUE) /\ hw[3] = Code("entry")
    <3>1. \A x, y, z \in Words :
             /\ <<x, y, z>> \in Seq(Words) /\ Len(<<x, y, z>>) = 3
             /\ <<x, y, z>>[1] = x /\ <<x, y, z>>[3] = z
      OBVIOUS
    <3> QED
      BY <3>1, <1>1, Zenon
  <2>2. /\ general \in Seq(Words) /\ Len(general) = 8
        /\ \A k \in 1 .. 8 : general[k] = Zero
    <3>1. general \in [1 .. 8 -> Words]
      BY <1>1
    <3> QED
      BY <3>1
  <2>3. /\ segments \in Seq(Words) /\ Len(segments) = 4
        /\ \A k \in 1 .. 4 : segments[k] = KERNEL_DATA
    <3>1. segments \in [1 .. 4 -> Words]
      BY <1>1
    <3> QED
      BY <3>1
  <2> QED
    BY <2>1, <2>2, <2>3, Zenon
<1>3. Len(hw) = 3 /\ Len(general) = 8 /\ Len(segments) = 4
  BY <1>2
<1> HIDE DEF hw, general, segments
<1>4. PICK a \in Seq(Words) : a = hw \o general
  BY <1>2, Concatenated, Zenon
<1>5. PICK b \in Seq(Words) : b = a \o segments
  BY <1>2, Concatenated, Zenon
<1>6. /\ Len(a) = 11
      /\ \A j \in 1 .. 3 : a[j] = hw[j]
      /\ \A j \in 1 .. 8 : a[3 + j] = general[j]
  <2>1. /\ Len(a) = Len(hw) + Len(general)
        /\ \A j \in 1 .. Len(hw) : a[j] = hw[j]
        /\ \A j \in 1 .. Len(general) : a[Len(hw) + j] = general[j]
    <3>1. /\ Len(hw \o general) = Len(hw) + Len(general)
          /\ \A j \in 1 .. Len(hw) : (hw \o general)[j] = hw[j]
          /\ \A j \in 1 .. Len(general) : (hw \o general)[Len(hw) + j] = general[j]
      BY <1>2, Concatenated, Zenon
    <3> QED
      BY <1>4, <3>1, Zenon
  <2> QED
    BY <1>3, <2>1
<1>7. /\ Len(b) = 15
      /\ \A j \in 1 .. 11 : b[j] = a[j]
      /\ \A j \in 1 .. 4 : b[11 + j] = segments[j]
  <2>1. /\ Len(b) = Len(a) + Len(segments)
        /\ \A j \in 1 .. Len(a) : b[j] = a[j]
        /\ \A j \in 1 .. Len(segments) : b[Len(a) + j] = segments[j]
    <3>1. /\ Len(a \o segments) = Len(a) + Len(segments)
          /\ \A j \in 1 .. Len(a) : (a \o segments)[j] = a[j]
          /\ \A j \in 1 .. Len(segments) : (a \o segments)[Len(a) + j] = segments[j]
      BY <1>2, Concatenated, Zenon
    <3> QED
      BY <1>5, <3>1, Zenon
  <2> QED
    BY <1>3, <1>6, <2>1
<1>8. CreatedFrame = b
  BY <1>4, <1>5 DEF CreatedFrame, hw, general, segments
<1>9. /\ b[1] = Flags(TRUE) /\ b[3] = Code("entry")
      /\ \A j \in 4 .. 11 : b[j] = Zero
      /\ \A j \in 12 .. 15 : b[j] = KERNEL_DATA
  <2>1. b[1] = Flags(TRUE) /\ b[3] = Code("entry")
    <3>1. b[1] = a[1] /\ b[3] = a[3]
      BY <1>7
    <3>2. a[1] = hw[1] /\ a[3] = hw[3]
      BY <1>6
    <3> QED
      BY <3>1, <3>2, <1>2, Zenon
  <2>2. ASSUME NEW j \in 4 .. 11 PROVE b[j] = Zero
    <3>1. PICK i \in 1 .. 8 : 3 + i = j
      <4>1. j - 3 \in 1 .. 8 /\ 3 + (j - 3) = j
        OBVIOUS
      <4> QED
        BY <4>1, Zenon
    <3>2. j \in 1 .. 11
      OBVIOUS
    <3>3. b[j] = a[j] /\ a[3 + i] = general[i]
      BY <3>2, <1>6, <1>7
    <3>4. general[i] = Zero
      BY <1>2, Zenon
    <3> QED
      BY <3>1, <3>3, <3>4, Zenon
  <2>3. ASSUME NEW j \in 12 .. 15 PROVE b[j] = KERNEL_DATA
    <3>1. PICK i \in 1 .. 4 : 11 + i = j
      <4>1. j - 11 \in 1 .. 4 /\ 11 + (j - 11) = j
        OBVIOUS
      <4> QED
        BY <4>1, Zenon
    <3>2. b[11 + i] = segments[i]
      BY <1>7
    <3>3. segments[i] = KERNEL_DATA
      BY <1>2, Zenon
    <3> QED
      BY <3>1, <3>2, <3>3, Zenon
  <2> QED
    BY <2>1, <2>2, <2>3
<1>10. /\ CreatedContext \in Contexts /\ CreatedContext.iflag = TRUE
       /\ CreatedContext.eip = Code("entry")
       /\ \A r \in Segments : CreatedContext.regs[r] = KERNEL_DATA
       /\ \A r \in General : CreatedContext.regs[r] = Zero
  BY <1>1 DEF CreatedContext, Contexts, Regs, Segments, General
<1>11. Saved(b, 0, CreatedContext)
  <2>1. /\ b[1] = Flags(CreatedContext.iflag) /\ b[3] = CreatedContext.eip
    BY <1>9, <1>10
  <2>2. /\ b[4] = CreatedContext.regs["eax"] /\ b[5] = CreatedContext.regs["ecx"]
        /\ b[6] = CreatedContext.regs["edx"] /\ b[7] = CreatedContext.regs["ebx"]
        /\ b[9] = CreatedContext.regs["ebp"] /\ b[10] = CreatedContext.regs["esi"]
        /\ b[11] = CreatedContext.regs["edi"]
    <3>1. \A r \in {"eax", "ecx", "edx", "ebx", "ebp", "esi", "edi"} :
             CreatedContext.regs[r] = Zero
      BY DEF CreatedContext, Regs, General, Segments
    <3>2. /\ b[4] = Zero /\ b[5] = Zero /\ b[6] = Zero /\ b[7] = Zero
          /\ b[9] = Zero /\ b[10] = Zero /\ b[11] = Zero
      BY <1>9
    <3> QED
      BY <3>1, <3>2
  <2>3. /\ b[12] = CreatedContext.regs["gs"] /\ b[13] = CreatedContext.regs["fs"]
        /\ b[14] = CreatedContext.regs["es"] /\ b[15] = CreatedContext.regs["ds"]
    <3>1. \A r \in {"gs", "fs", "es", "ds"} : CreatedContext.regs[r] = KERNEL_DATA
      BY <1>10 DEF Segments
    <3>2. /\ b[12] = KERNEL_DATA /\ b[13] = KERNEL_DATA
          /\ b[14] = KERNEL_DATA /\ b[15] = KERNEL_DATA
      BY <1>9
    <3> QED
      BY <3>1, <3>2
  <2> QED
    BY <2>1, <2>2, <2>3 DEF Saved
<1>12. /\ cur = First /\ cur \in Thread /\ eip = Code("entry") /\ inService = {} /\ iflag = TRUE
       /\ stack[cur] = <<>> /\ shadow[cur] = <<>>
       /\ \A t \in Thread \ {cur} : /\ stack[t] = b /\ esp0[t] = 15
                                   /\ shadow[t] = <<CreatedContext>>
  BY <1>8, <1>7, InterruptEntryAssumption DEF Init
<1>13. TypeOK
  <2>1. regs \in [Regs -> Words]
    BY <1>12, ComputedWords DEF Init
  <2>2. /\ stack \in [Thread -> Seq(Words)] /\ esp0 \in [Thread -> Nat]
        /\ shadow \in [Thread -> Seq(Contexts)]
    <3>1. <<CreatedContext>> \in Seq(Contexts) /\ <<>> \in Seq(Contexts) /\ <<>> \in Seq(Words)
      BY <1>10
    <3> QED
      BY <3>1, <1>5, <1>8 DEF Init
  <2>3. dump \in [num : Words, eip : Words, raised : Words]
    BY <1>1 DEF Init, NoDump
  <2> QED
    BY <2>1, <2>2, <2>3, <1>1, <1>12 DEF TypeOK
<1>14. NoIrqStuck
  BY <1>12 DEF NoIrqStuck
<1>15. Code("entry") \in {Code(q) : q \in Places} /\ InCode
  BY <1>12 DEF InCode, Places
<1>16. ASSUME NEW t \in Thread PROVE ThreadInv(t)
  <2>1. CASE t = cur
    <3>1. Lost(<<>>, eip) = 0
      BY DEF Lost
    <3>2. Holds(<<>>, 0, <<>>, 0)
      BY DEF Holds
    <3>3. AtLevel(eip, 0)
      BY <1>12, <1>15, CodesDiffer DEF AtLevel
    <3> QED
      BY <2>1, <3>1, <3>2, <3>3, <1>12 DEF ThreadInv, Top, Runs
  <2>2. CASE t # cur
    <3>1. Lost(<<CreatedContext>>, Zero) = 0
      BY CodesDiffer DEF Lost
    <3>2. Holds(b, 15, <<CreatedContext>>, 0)
      <4>1. \A k \in 1 .. 1 : k = 1 /\ 15 - 15 * (1 - k + 1) = 0
        OBVIOUS
      <4>2. Len(<<CreatedContext>>) = 1 /\ <<CreatedContext>>[1] = CreatedContext
        OBVIOUS
      <4>3. 15 <= Len(b) /\ 15 >= 15 * 1 /\ 15 = 15 * 1 /\ 0 + 1 = 1
        BY <1>7
      <4> QED
        BY <4>1, <4>2, <4>3, <1>11 DEF Holds
    <3>3. AtLevel(CreatedContext.eip, 0)
      BY <1>10, <1>15, CodesDiffer DEF AtLevel
    <3>4. \A k \in 1 .. Len(<<CreatedContext>>) : AtLevel(<<CreatedContext>>[k].eip, k - 1)
      BY <3>3
    <3>5. /\ stack[t] = b /\ shadow[t] = <<CreatedContext>> /\ Len(shadow[t]) > 0
          /\ Top(t) = 15 /\ Runs(t) = Zero
      <4>1. /\ stack[t] = b /\ shadow[t] = <<CreatedContext>>
            /\ Top(t) = 15 /\ Runs(t) = Zero
        BY <2>2, <1>12 DEF Top, Runs
      <4>2. Len(<<CreatedContext>>) > 0
        OBVIOUS
      <4> QED
        BY <4>1, <4>2
    <3>6. /\ Holds(stack[t], Top(t), shadow[t], Lost(shadow[t], Runs(t)))
          /\ \A k \in 1 .. Len(shadow[t]) : AtLevel(shadow[t][k].eip, k - 1)
          /\ Lost(shadow[t], Runs(t)) = 0
      BY <3>1, <3>2, <3>4, <3>5, Zenon
    <3> QED
      BY <2>2, <3>5, <3>6 DEF ThreadInv
  <2> QED
    BY <2>1, <2>2
<1> QED
  BY <1>13, <1>14, <1>15, <1>16 DEF Inv

(***************************************************************************)
(* Whichever interrupt comes, the stacks still hold what they have to, and *)
(* a context that is returned to is the one that was interrupted.          *)
(***************************************************************************)
LEMMA NextInv ==
    ASSUME Inv, [Next]_vars
    PROVE  Inv' /\ Back
<1>1. CASE Work
  BY <1>1, WhoRuns, WorkKeeps DEF Work
<1>2. ASSUME NEW u \in Thread, NEW served \in SUBSET {0, 1},
             1 \in served => 1 \in inService, TimerStub(u, served),
             iflag \/ InThread
      PROVE  Inv' /\ Back
  <2>1. \A t \in Thread : ThreadInv(t) /\ InCode
    BY <1>2, WhoRuns
  <2>2. InCode
    BY <1>2, WhoRuns
  <2> QED
    BY <1>2, <2>1, <2>2, TimerSwitches, TimerReturns
<1>3. ASSUME NEW u \in Thread, TimerIrq(u) PROVE Inv' /\ Back
  <2>1. inService \cup {0} \in SUBSET {0, 1}
    BY DEF Inv, TypeOK
  <2>2. 1 \in inService \cup {0} => 1 \in inService
    OBVIOUS
  <2> QED
    BY <1>2, <1>3, <2>1, <2>2 DEF TimerIrq
<1>4. ASSUME NEW u \in Thread, YieldInt(u) PROVE Inv' /\ Back
  <2>1. inService \in SUBSET {0, 1}
    BY DEF Inv, TypeOK
  <2> QED
    BY <1>2, <1>4, <2>1 DEF YieldInt
<1>5. CASE KbdIrq
  BY <1>5, WhoRuns, KbdIrqKeeps DEF KbdIrq
<1>6. CASE KbdSti
  BY <1>6, WhoRuns, KbdStiKeeps DEF KbdSti
<1>7. CASE KbdEoi
  BY <1>7, WhoRuns, KbdEoiKeeps DEF KbdEoi
<1>8. CASE KbdIret
  BY <1>8, WhoRuns, KbdIretKeeps DEF KbdIret
<1>9. CASE Syscall
  BY <1>9, WhoRuns, SyscallReturns DEF Syscall
<1>10. ASSUME NEW x \in Exceptions, Raise(x) PROVE Inv' /\ Back
  BY <1>10, RaiseKeeps
<1>11. CASE PageFault
  BY <1>11, PageFaultKeeps
<1>12. CASE UNCHANGED vars
  <2>1. \A t \in Thread : Len(shadow[t]) \in Nat
    BY DEF Inv, TypeOK
  <2> QED
    BY <1>12, <2>1 DEF vars, Back, Inv, TypeOK, NoIrqStuck, InCode, ThreadInv, Top, Runs,
                        Code, NoDump, Zero, Word
<1> QED
  BY <1>1, <1>3, <1>4, <1>5, <1>6, <1>7, <1>8, <1>9, <1>10, <1>11, <1>12 DEF Next

(***************************************************************************)
(* What a thread interrupted by a stub that switches nothing sees of it.   *)
(***************************************************************************)
LEMMA NothingSeen ==
    ASSUME Inv, Syscall \/ TimerIrq(cur) \/ YieldInt(cur)
    PROVE  UNCHANGED <<regs, eip, iflag>>
<1>1. InCode /\ \A t \in Thread : ThreadInv(t)
  BY WhoRuns DEF Syscall, TimerIrq, YieldInt
<1>2. inService \in SUBSET {0, 1} /\ inService \cup {0} \in SUBSET {0, 1}
  BY DEF Inv, TypeOK
<1>3. CASE Syscall
  BY <1>1, <1>3, SyscallReturns
<1>4. CASE TimerIrq(cur)
  <2>1. 1 \in inService \cup {0} => 1 \in inService
    OBVIOUS
  <2> QED
    BY <1>1, <1>2, <1>4, <2>1, TimerReturns DEF TimerIrq
<1>5. CASE YieldInt(cur)
  BY <1>1, <1>2, <1>5, TimerReturns DEF YieldInt
<1> QED
  BY <1>3, <1>4, <1>5

LEMMA AlwaysInv == Spec => []Inv
<1>1. Inv /\ [Next]_vars => Inv'
  BY NextInv
<1> QED
  BY <1>1, InitInv, PTL DEF Spec

(***************************************************************************)
(* The state has its types, whatever is popped off whichever stack.        *)
(***************************************************************************)
THEOREM TypeCorrectness == Spec => []TypeOK
<1>1. Inv => TypeOK
  BY DEF Inv
<1> QED
  BY <1>1, AlwaysInv, PTL

(***************************************************************************)
(* No IRQ waits for an EOI that nobody will send, however deep the timer,  *)
(* the keyboard and the exceptions nest and whichever thread's stack the   *)
(* EOI is sent from (the EOIs of kernel/isr.s).                            *)
(***************************************************************************)
THEOREM NoIrqIsStuck == Spec => []NoIrqStuck
<1>1. Inv => NoIrqStuck
  BY DEF Inv
<1> QED
  BY <1>1, AlwaysInv, PTL

(***************************************************************************)
(* The stubs of kernel/isr.s leave nothing on a stack: at any depth of     *)
(* nesting each stack holds 15 words for each context interrupted on it.   *)
(***************************************************************************)
THEOREM NothingPilesUp == Spec => []StackIsContexts
<1>1. ASSUME Inv PROVE StackIsContexts
  <2> SUFFICES ASSUME InCode, dump = NoDump
               PROVE  /\ Len(stack[cur]) = 15 * Len(shadow[cur])
                      /\ \A t \in Thread \ {cur} : esp0[t] = 15 * Len(shadow[t])
    BY DEF StackIsContexts
  <2>1. \A t \in Thread : Top(t) = 15 * Len(shadow[t])
    BY <1>1, LostIsNat DEF Inv, ThreadInv, Holds
  <2>2. cur \in Thread
    BY <1>1 DEF Inv, TypeOK
  <2> QED
    BY <2>1, <2>2 DEF Top
<1> QED
  BY <1>1, AlwaysInv, PTL

(***************************************************************************)
(* Every context comes back as it was interrupted, and system calls and    *)
(* switches to the same thread are not seen: MACRO_REGS_RESTORE and iret   *)
(* undo MACRO_REGS_SAVE and the interrupt on whatever stack they run.      *)
(***************************************************************************)
THEOREM EveryContextComesBack == Spec => ContextsComeBack
<1>1. Inv /\ [Next]_vars
        => [/\ \A t \in Thread :
                 Len(shadow'[t]) < Len(shadow[t])
                   => [regs |-> regs', eip |-> eip', iflag |-> iflag'] = Last(shadow[t])
            /\ Syscall \/ TimerIrq(cur) \/ YieldInt(cur)
                 => UNCHANGED <<regs, eip, iflag>>]_vars
  BY NextInv, NothingSeen DEF Back
<1> QED
  BY <1>1, AlwaysInv, PTL DEF Spec, ContextsComeBack

-----------------------------------------------------------------------------
(* InterruptRouting.                                                       *)

(***************************************************************************)
(* Every field keeps its type: the boot order and every toggle keep the    *)
(* masks within eight bits and the status within 0 and 1.                  *)
(***************************************************************************)
THEOREM RoutingTypeCorrectness == RoutingSpec => []RoutingTypeOK
<1> USE DEF IRQ0_INT, IRQ8_INT, MAX_IRQ_IMP, IRQ_TIMER, IRQ_KEYBOARD, IRQ_CASCADE,
            Bits, AllBits
<1>1. RoutingInit => RoutingTypeOK
  BY DEF RoutingInit, RoutingTypeOK, Vectors, Handlers, EMPTY
<1>2. RoutingTypeOK /\ [RoutingNext]_routingVars => RoutingTypeOK'
  <2> SUFFICES ASSUME RoutingTypeOK, [RoutingNext]_routingVars
               PROVE  RoutingTypeOK'
    OBVIOUS
  <2> USE DEF RoutingTypeOK
  <2>1. CASE InitInterrupts
    <3>1. PICK beyond \in [IRQS .. (MAX_IRQ_IMP - 1) -> {Unimp, Garbage}] :
             IDT' = FilledTable(beyond)
      BY <2>1 DEF InitInterrupts
    <3>2. ASSUME NEW v \in Vectors
          PROVE  FilledTable(beyond)[v] \in Handlers
      <4> USE DEF Vectors, IRQS, INT_SYSCALL, NUM_STD_EXP, NUM_INTS
      <4>1. WithExceptions(DefaultTable) \in [Vectors -> Handlers]
        BY DEF WithExceptions, DefaultTable, idtExceptionList, Handlers, EMPTY, Unimp
      <4>2. \A i \in 0 .. 15 : idtIRQList(i) \in Handlers
        BY DEF idtIRQList, Handlers, Unimp
      <4>3. \A i \in 16 .. 20 : beyond[i] \in Handlers
        BY DEF Handlers, Unimp, Garbage
      <4>4. WithIrqs(WithExceptions(DefaultTable), IRQ0_INT, beyond)[v] \in Handlers
        <5>1. CASE v \in 32 .. 47
          BY <4>2, <5>1 DEF WithIrqs
        <5>2. CASE v \in 48 .. 52
          BY <4>3, <5>2 DEF WithIrqs
        <5>3. CASE v \notin 32 .. 52
          BY <4>1, <5>3 DEF WithIrqs
        <5> QED
          BY <5>1, <5>2, <5>3
      <4> QED
        BY <4>4 DEF FilledTable, WithIrqs, Handlers
    <3>3. IDT' \in [Vectors -> Handlers]
      BY <3>1, <3>2 DEF FilledTable, WithIrqs
    <3> QED
      BY <2>1, <3>3 DEF InitInterrupts
  <2>2. CASE InitPic
    BY <2>2 DEF InitPic, RemapPics, SetIrqs
  <2>3. CASE EnableKeyboard
    BY <2>3 DEF EnableKeyboard, EnableIrq
  <2>4. CASE StartScheduler
    BY <2>4 DEF StartScheduler, EnableIrq
  <2>5. ASSUME NEW difference \in {-1, 0, 1}, ProcessCommand(difference)
        PROVE  RoutingTypeOK'
    BY <2>5 DEF ProcessCommand, ToggleIrq, EnableIrq, DisableIrq
  <2>6. ASSUME NEW n \in Drivers, DriverEnable(n)
        PROVE  RoutingTypeOK'
    BY <2>6, InterruptRoutingAssumption DEF DriverEnable, EnableIrq
  <2>7. ASSUME NEW n \in Drivers, DriverDisable(n)
        PROVE  RoutingTypeOK'
    BY <2>7, InterruptRoutingAssumption DEF DriverDisable, DisableIrq
  <2>8. CASE UNCHANGED routingVars
    BY <2>8 DEF routingVars
  <2> QED
    BY <2>1, <2>2, <2>3, <2>4, <2>5, <2>6, <2>7, <2>8 DEF RoutingNext
<1> QED
  BY <1>1, <1>2, PTL DEF RoutingSpec

-----------------------------------------------------------------------------
(***************************************************************************)
(* What every boot step leaves behind for the next: the table, then the    *)
(* vectors and the second mask, which no later step touches.               *)
(***************************************************************************)
TableFilled ==
    pc # "init_interrupts" =>
      /\ \A v \in 0 .. (NUM_STD_EXP - 1) \ {14, 15} : IDT[v] = "exception"
      /\ IDT[14] = "page_fault"
      /\ IDT[INT_SYSCALL] = "syscall"
      /\ \A n \in 0 .. (IRQS - 1) : IDT[IRQ0_INT + n] = idtIRQList(n)

ControllersSet ==
    IF_On =>
      /\ vectorBase = <<IRQ0_INT, IRQ8_INT>>
      /\ masked2 = AllBits

RoutingInv == RoutingTypeOK /\ TableFilled /\ ControllersSet /\ StatusMatchesMask

(***************************************************************************)
(* A change of one IRQ's mask bit keeps the status in step with the mask,  *)
(* and leaves the second controller alone.                                 *)
(***************************************************************************)
LEMMA MaskStep ==
    ASSUME RoutingTypeOK, StatusMatchesMask, NEW n \in 0 .. (MAX_IRQ_IMP - 1),
           EnableIrq(n) \/ DisableIrq(n), IF_On
    PROVE  /\ \A m \in Bits \ {IRQ_CASCADE} : irqStatus'[m] = 1 <=> m \notin masked1'
           /\ masked2' = masked2
BY DEF RoutingTypeOK, IF_On, StatusMatchesMask, EnableIrq, DisableIrq, Bits, IRQ_CASCADE, MAX_IRQ_IMP

(***************************************************************************)
(* What the loops of init_interrupts leave in the table, whatever lies     *)
(* beyond the array of the IRQs.                                           *)
(***************************************************************************)
LEMMA TableEntries ==
    ASSUME NEW beyond
    PROVE  /\ \A v \in 0 .. (NUM_STD_EXP - 1) \ {14, 15} :
                 FilledTable(beyond)[v] = "exception"
           /\ FilledTable(beyond)[14] = "page_fault"
           /\ FilledTable(beyond)[INT_SYSCALL] = "syscall"
           /\ \A n \in 0 .. (IRQS - 1) :
                 FilledTable(beyond)[IRQ0_INT + n] = idtIRQList(n)
<1> USE DEF Vectors, IRQS, IRQ0_INT, MAX_IRQ_IMP, INT_SYSCALL, NUM_STD_EXP, NUM_INTS
<1>1. /\ \A v \in 0 .. (NUM_STD_EXP - 1) \ {14, 15} :
            FilledTable(beyond)[v] = "exception"
      /\ FilledTable(beyond)[14] = "page_fault"
  BY DEF FilledTable, WithIrqs, WithExceptions, idtExceptionList
<1>2. FilledTable(beyond)[INT_SYSCALL] = "syscall"
  BY DEF FilledTable, WithIrqs
<1>3. ASSUME NEW n \in 0 .. (IRQS - 1)
      PROVE  FilledTable(beyond)[IRQ0_INT + n] = idtIRQList(n)
  <2>1. IRQ0_INT + n - IRQ0_INT = n
    OBVIOUS
  <2>2. FilledTable(beyond)[IRQ0_INT + n] = idtIRQList(IRQ0_INT + n - IRQ0_INT)
    BY DEF FilledTable, WithIrqs
  <2> QED
    BY <2>1, <2>2
<1> QED
  BY <1>1, <1>2, <1>3

LEMMA RoutingInvariant == RoutingSpec => []RoutingInv
<1>1. RoutingInit => RoutingInv
  BY DEF RoutingInit, RoutingInv, RoutingTypeOK, TableFilled, ControllersSet, StatusMatchesMask,
         IF_On, Vectors, Handlers, EMPTY, Bits, AllBits
<1>2. RoutingTypeOK /\ RoutingTypeOK' /\ RoutingInv /\ [RoutingNext]_routingVars => RoutingInv'
  <2> SUFFICES ASSUME RoutingTypeOK, RoutingTypeOK', RoutingInv, [RoutingNext]_routingVars
               PROVE  TableFilled' /\ ControllersSet' /\ StatusMatchesMask'
    BY DEF RoutingInv
  <2> USE DEF RoutingInv, TableFilled, ControllersSet, StatusMatchesMask, IF_On
  <2>1. CASE InitInterrupts
    <3>1. PICK beyond \in [IRQS .. (MAX_IRQ_IMP - 1) -> {Unimp, Garbage}] :
             IDT' = FilledTable(beyond)
      BY <2>1 DEF InitInterrupts
    <3> QED
      BY <2>1, <3>1, TableEntries DEF InitInterrupts
  <2>2. CASE InitPic
    BY <2>2 DEF InitPic, RemapPics, SetIrqs, AllBits, Bits, IRQ_CASCADE, MAX_IRQ_IMP
  <2>3. CASE EnableKeyboard
    BY <2>3, MaskStep DEF EnableKeyboard, IRQ_KEYBOARD, MAX_IRQ_IMP
  <2>4. CASE StartScheduler
    BY <2>4, MaskStep DEF StartScheduler, IRQ_TIMER, MAX_IRQ_IMP
  <2>5. ASSUME NEW difference \in {-1, 0, 1}, ProcessCommand(difference)
        PROVE  TableFilled' /\ ControllersSet' /\ StatusMatchesMask'
    BY <2>5, MaskStep DEF ProcessCommand, ToggleIrq, IRQ_TIMER, MAX_IRQ_IMP
  <2>6. ASSUME NEW n \in Drivers, DriverEnable(n) \/ DriverDisable(n)
        PROVE  TableFilled' /\ ControllersSet' /\ StatusMatchesMask'
    BY <2>6, MaskStep, InterruptRoutingAssumption DEF DriverEnable, DriverDisable
  <2>7. CASE UNCHANGED routingVars
    BY <2>7 DEF routingVars
  <2> QED
    BY <2>1, <2>2, <2>3, <2>4, <2>5, <2>6, <2>7 DEF RoutingNext
<1> QED
  BY <1>1, <1>2, RoutingTypeCorrectness, PTL DEF RoutingSpec

(***************************************************************************)
(* irqStatus agrees with the first controller's mask, whatever drivers do. *)
(***************************************************************************)
THEOREM StatusMatchesMaskTheorem == RoutingSpec => []StatusMatchesMask
BY RoutingInvariant, PTL DEF RoutingInv

(***************************************************************************)
(* An IRQ that can arrive finds its own stub in the table.                 *)
(***************************************************************************)
THEOREM DeliveredIsServedTheorem == RoutingSpec => []DeliveredIsServed
<1>1. RoutingInv => DeliveredIsServed
  <2> SUFFICES ASSUME RoutingInv, IF_On, NEW n \in Deliverable
               PROVE  IDT[VectorOf(n)] = CASE n = IRQ_TIMER    -> "timer"
                                           [] n = IRQ_KEYBOARD -> "keyboard"
                                           [] OTHER            -> Unimp
    BY DEF DeliveredIsServed
  <2>1. n \in 0 .. 7
    BY DEF Deliverable, IF_On, RoutingInv, ControllersSet, AllBits, Bits
  <2>2. VectorOf(n) = IRQ0_INT + n
    BY <2>1 DEF VectorOf, RoutingInv, ControllersSet
  <2>3. IDT[VectorOf(n)] = idtIRQList(n)
    BY <2>1, <2>2 DEF IF_On, RoutingInv, TableFilled, IRQS
  <2> QED
    BY <2>1, <2>3 DEF idtIRQList, IRQ_TIMER, IRQ_KEYBOARD
<1> QED
  BY <1>1, RoutingInvariant, PTL

(***************************************************************************)
(* Exceptions, the timer's vector and system calls keep their stubs.       *)
(***************************************************************************)
THEOREM ExceptionsServedTheorem == RoutingSpec => []ExceptionsServed
<1>1. RoutingInv => ExceptionsServed
  <2> SUFFICES ASSUME RoutingInv, idtInitialized
               PROVE  ExceptionsServed
    BY DEF ExceptionsServed
  <2>1. pc # "init_interrupts"
    BY DEF RoutingInv, RoutingTypeOK
  <2>2. IDT[IRQ0_INT + 0] = idtIRQList(0)
    BY <2>1 DEF RoutingInv, TableFilled, IRQS
  <2>3. IDT[IRQ0_INT] = "timer"
    BY <2>2 DEF idtIRQList, IRQ0_INT
  <2> QED
    BY <2>1, <2>3 DEF RoutingInv, TableFilled, ExceptionsServed
<1> QED
  BY <1>1, RoutingInvariant, PTL

(***************************************************************************)
(* Unless a driver owns IRQ 1, nothing the timer command or the drivers do *)
(* masks the keyboard.                                                     *)
(***************************************************************************)
THEOREM KeyboardStaysTheorem == RoutingSpec => []KeyboardStays
<1> USE DEF KeyboardStays, Deliverable, IRQ_KEYBOARD, IRQ_CASCADE, Bits
<1>1. RoutingInit => KeyboardStays
  BY DEF RoutingInit
<1>2. RoutingTypeOK /\ KeyboardStays /\ [RoutingNext]_routingVars => KeyboardStays'
  <2> SUFFICES ASSUME RoutingTypeOK, KeyboardStays, [RoutingNext]_routingVars, IRQ_KEYBOARD \notin Drivers,
                      pc' \in {"start_scheduler", "running"}
               PROVE  IRQ_KEYBOARD \notin masked1'
    OBVIOUS
  <2>1. CASE InitInterrupts \/ InitPic
    BY <2>1 DEF InitInterrupts, InitPic
  <2>2. CASE EnableKeyboard
    BY <2>2 DEF EnableKeyboard, EnableIrq
  <2>3. CASE StartScheduler
    BY <2>3 DEF StartScheduler, EnableIrq, IRQ_TIMER
  <2>4. ASSUME NEW difference \in {-1, 0, 1}, ProcessCommand(difference)
        PROVE  IRQ_KEYBOARD \notin masked1'
    BY <2>4 DEF ProcessCommand, ToggleIrq, EnableIrq, DisableIrq, IRQ_TIMER
  <2>5. ASSUME NEW n \in Drivers, DriverEnable(n) \/ DriverDisable(n)
        PROVE  IRQ_KEYBOARD \notin masked1'
    BY <2>5, InterruptRoutingAssumption
       DEF DriverEnable, DriverDisable, EnableIrq, DisableIrq, MAX_IRQ_IMP
  <2>6. CASE UNCHANGED routingVars
    BY <2>6 DEF routingVars
  <2> QED
    BY <2>1, <2>2, <2>3, <2>4, <2>5, <2>6 DEF RoutingNext
<1> QED
  BY <1>1, <1>2, RoutingTypeCorrectness, PTL DEF RoutingSpec
=============================================================================
