-------------------------- MODULE KernelMainProofs --------------------------
(***************************************************************************)
(* The start of the kernel and its interrupts, for every volume, every     *)
(* place of the TSS and every order of interrupts: the descriptors decode, *)
(* the idle loop is left and entered clean, the screen shows what was      *)
(* written, and the numbers on it read back.                               *)
(***************************************************************************)
EXTENDS KernelMain, Numbers

IdtTable ==
  [v \in {0, 32, 33, 118} |->
     IF v = 0 THEN "idt_zero" ELSE IF v = 33 THEN "int21h" ELSE "no_interrupt"]

(* What kernel_main has set up when it is at a statement.                  *)
SetUp ==
  /\ pc \in {"terminal", "gdt", "panic"} => gdt = << >> /\ tr = 0
  /\ pc \notin {"terminal", "gdt", "panic"} => gdt = structured_gdt_to_gdt(structured_gdt)
  /\ pc \notin {"terminal", "gdt", "panic", "idt"} => idt = IdtTable
  /\ tr \in {0, TSS_SELECTOR}
  /\ tss \in TssBases

\* Where a handler may be.
Places == {"idt_zero", "int21h", "no_interrupt", "int21h_handler",
           "no_interrupt_handler", "iret"}

\* Exactly one handler runs.
OneFrame ==
  /\ frames # << >> /\ frames = <<frames[1]>>
  /\ frames[1] \in [vector : Int, at : Places]

(* Before the idle loop interrupts are off, and the only handler is that   *)
(* of a division by zero; from there no step leads to the idle loop.       *)
Booting ==
  pc # "idle" =>
    /\ ~IF_flag
    /\ isr = {}
    /\ frames # << >> => DividesByZero /\ OneFrame /\ frames[1].at = "idt_zero"
    /\ esp # 0 => DividesByZero \/ pc = "astray"

(* In the idle loop at most one handler runs, with interrupts off; what it *)
(* has pushed, and the line in service, follow from where it is.           *)
InHandler ==
  /\ ~IF_flag
  /\ OneFrame
  /\ \/ frames[1].at \in {"int21h", "no_interrupt"} /\ esp = 3
     \/ frames[1].at \in {"int21h_handler", "no_interrupt_handler", "iret"} /\ esp = 11
  /\ IF frames[1].at = "iret" THEN isr = {}
     ELSE \E line \in {TIMER, KEYBOARD, CASCADE} : isr = {line}

Quiescent == frames = << >> /\ IF_flag /\ isr = {} /\ esp = 0

Inv == SetUp /\ Booting /\ (pc = "idle" => Quiescent \/ InHandler)

----------------------------------------------------------------------------
(* Digits.                                                                 *)

(* A number of at most three digits, the highest below N, is put together  *)
(* from its digits.                                                        *)
LEMMA ThreeDigits ==
  ASSUME NEW B \in Nat \ {0}, NEW N \in Nat \ {0}, NEW k \in Nat, k < N * (B * B)
  PROVE  (k % B) + ((k \div B) % B) * B + ((k \div (B * B)) % N) * (B * B) = k
<1> DEFINE q1 == k \div B
           q2 == k \div (B * B)
           r0 == k % B
           r1 == q1 % B
<1>1. q1 \in Nat /\ k = q1 * B + r0 /\ r0 \in Nat
  BY DivModNat
<1>2. q2 = q1 \div B
  BY DivDiv
<1>3. q2 \in Nat /\ q1 = q2 * B + r1 /\ r1 \in Nat
  <2> HIDE DEF q1, q2
  <2>1. q1 \in Nat
    BY <1>1
  <2>2. QED
    BY <1>2, <2>1, DivModNat
<1>4. q2 < N
  BY Positive, DivLess
<1>5. q2 % N = q2
  <2> HIDE DEF q2
  <2>1. QED
    BY <1>3, <1>4
<1> HIDE DEF q1, q2, r0, r1
<1>6. q1 * B = q2 * (B * B) + r1 * B
  BY <1>3
<1>7. q2 * (B * B) \in Nat /\ r1 * B \in Nat
  BY <1>3
<1>8. r0 + r1 * B + (q2 % N) * (B * B) = k
  BY <1>1, <1>5, <1>6, <1>7
<1>9. QED
  BY <1>8 DEF q1, q2, r0, r1

(* The same for four digits.                                               *)
LEMMA FourDigits ==
  ASSUME NEW B \in Nat \ {0}, NEW k \in Nat, k < B * B * B * B
  PROVE  (k % B) + ((k \div B) % B) * B + ((k \div (B * B)) % B) * (B * B)
           + ((k \div (B * B * B)) % B) * (B * B * B) = k
<1> DEFINE q2 == k \div (B * B)
           q3 == k \div (B * B * B)
           low == k % (B * B)
<1>1. B * B \in Nat \ {0} /\ B * B * B \in Nat \ {0}
  BY Positive
<1>2. q2 \in Nat /\ low \in 0 .. (B * B - 1) /\ k = q2 * (B * B) + low
  BY <1>1, DivModNat
<1>3. q3 = q2 \div B
  BY <1>1, DivDiv
<1>4. (k % B) + ((k \div B) % B) * B = low
  <2> DEFINE q1 == k \div B
             r0 == k % B
             r1 == q1 % B
  <2>1. q1 \in Nat /\ k = q1 * B + r0 /\ r0 \in 0 .. (B - 1)
    BY DivModNat
  <2>2. q2 = q1 \div B
    BY DivDiv
  <2>3. q1 = q2 * B + r1 /\ r1 \in 0 .. (B - 1)
    <3> HIDE DEF q1, q2
    <3>1. q1 \in Nat
      BY <2>1
    <3>2. QED
      BY <2>2, <3>1, DivModNat
  <2> HIDE DEF q1, q2, r0, r1, low
  <2>4. q1 * B = q2 * (B * B) + r1 * B
    BY <1>2, <2>3
  <2>5. q2 * (B * B) \in Nat /\ r1 * B \in Nat
    BY <1>2, <2>3
  <2>6. r0 + r1 * B = low
    BY <1>2, <2>1, <2>4, <2>5
  <2>7. QED
    BY <2>6 DEF q1, r0, r1
<1>5. q3 \in Nat /\ q2 = q3 * B + (q2 % B) /\ q2 % B \in Nat
  <2> HIDE DEF q2, q3
  <2>1. q2 \in Nat
    BY <1>2
  <2>2. QED
    BY <1>3, <2>1, DivModNat
<1>6. q3 < B
  <2>1. B * B * B * B = B * (B * B * B)
    OBVIOUS
  <2>2. k < B * (B * B * B)
    BY <2>1
  <2>3. QED
    BY <1>1, <2>2, DivLess
<1>7. q3 % B = q3
  <2> HIDE DEF q3
  <2>1. QED
    BY <1>5, <1>6
<1> HIDE DEF q2, q3, low
<1>8. q2 * (B * B) = q3 * (B * B * B) + (q2 % B) * (B * B)
  <2> DEFINE r2 == q2 % B
  <2>1. q2 = q3 * B + r2 /\ r2 \in Nat
    BY <1>5
  <2> HIDE DEF r2
  <2>2. q2 * (B * B) = q3 * (B * B * B) + r2 * (B * B)
    BY <1>5, <2>1
  <2>3. QED
    BY <2>2 DEF r2
<1>9. q3 * (B * B * B) \in Nat /\ (q2 % B) * (B * B) \in Nat
  BY <1>1, <1>5
<1>10. low + (q2 % B) * (B * B) + (q3 % B) * (B * B * B) = k
  BY <1>2, <1>7, <1>8, <1>9
<1>11. QED
  BY <1>4, <1>10 DEF q2, q3

----------------------------------------------------------------------------
(* Descriptors.                                                            *)

LEMMA Sizes ==
  /\ Nibble \in Nat \ {0} /\ Byte \in Nat \ {0}
  /\ Byte * Byte \in Nat \ {0} /\ Byte * Byte * Byte \in Nat \ {0}
  /\ Byte * Byte * Byte * Byte \in Nat \ {0}
  /\ LowMask + 1 = Nibble * Byte /\ LowMask + 1 \in Nat \ {0} /\ LowMask \in Nat
  /\ UINT16_MAX \in Nat /\ UINT16_MAX + 1 = Byte * Byte
  /\ UINT32_MAX \in Nat /\ UINT32_MAX + 1 = Byte * Byte * Byte * Byte
<1>1. Nibble \in Nat \ {0}
  BY NibbleAssumption
<1>2. Byte \in Nat \ {0}
  BY <1>1, Positive DEF Byte
<1>3. Byte * Byte \in Nat \ {0} /\ Nibble * Byte \in Nat \ {0}
  BY <1>1, <1>2, Positive
<1>4. Byte * Byte * Byte \in Nat \ {0}
  BY <1>2, <1>3, Positive
<1>5. Byte * Byte * Byte * Byte \in Nat \ {0}
  BY <1>2, <1>4, Positive
<1>6. QED
  BY <1>1, <1>2, <1>3, <1>4, <1>5 DEF LowMask, UINT16_MAX, UINT32_MAX

(* encode_gdt_entry loses nothing of a descriptor whose limit it accepts:  *)
(* a limit above UINT16_MAX ends in LowMask and is stored in pages.        *)
LEMMA EncodeDecode ==
  ASSUME NEW base \in 0 .. UINT32_MAX, NEW limit \in 0 .. UINT32_MAX, NEW access,
         NEW source, source = [base |-> base, limit |-> limit, access |-> access],
         ~invalid_limit(source)
  PROVE  DecodeEntry(encode_gdt_entry(source)) = source
<1> DEFINE B == Byte
           L == LowMask + 1
           large == limit > UINT16_MAX
           pages == IF large THEN limit \div L ELSE limit
           e == encode_gdt_entry(source)
           raw == (pages % B) + ((pages \div B) % B) * B
                    + ((pages \div (B * B)) % Nibble) * (B * B)
<1>1. source.base = base /\ source.limit = limit /\ source.access = access
  OBVIOUS
<1>2. base \in Nat /\ limit \in Nat /\ base < B * B * B * B /\ limit < B * B * B * B
  BY Sizes
<1>3. e = [segment0    |-> pages % B,
           segment1    |-> (pages \div B) % B,
           high_flags  |-> [granularity |-> large, limit |-> (pages \div (B * B)) % Nibble],
           base_low0   |-> base % B,
           base_low1   |-> (base \div B) % B,
           base_middle |-> (base \div (B * B)) % B,
           base_high   |-> (base \div (B * B * B)) % B,
           access      |-> access]
  BY <1>1, Sizes DEF encode_gdt_entry
<1>4. DecodeEntry(e)
        = [base   |-> (base % B) + ((base \div B) % B) * B + ((base \div (B * B)) % B) * (B * B)
                        + ((base \div (B * B * B)) % B) * (B * B * B),
           limit  |-> IF large THEN raw * L + LowMask ELSE raw,
           access |-> access]
  <2> HIDE DEF e, large, pages
  <2>1. QED
    BY <1>3 DEF DecodeEntry
<1>5. (base % B) + ((base \div B) % B) * B + ((base \div (B * B)) % B) * (B * B)
        + ((base \div (B * B * B)) % B) * (B * B * B) = base
  <2> HIDE DEF B
  <2>1. B \in Nat \ {0}
    BY Sizes DEF B
  <2>2. QED
    BY <1>2, <2>1, FourDigits
<1>6. pages \in Nat /\ pages < Nibble * (B * B)
  <2>1. CASE large
    <3>1. limit < (Nibble * (B * B)) * L
      <4>1. B * B * B * B = (Nibble * (B * B)) * L
        <5>1. L = Nibble * B /\ B = Nibble * Nibble /\ Nibble \in Nat
          BY Sizes DEF Byte
        <5> HIDE DEF L, B
        <5>2. QED
          BY <5>1
      <4>2. QED
        BY <1>2, <4>1
    <3>2. L \in Nat \ {0} /\ Nibble * (B * B) \in Nat
      BY Sizes
    <3> HIDE DEF L, B
    <3>3. limit \div L \in Nat /\ limit \div L < Nibble * (B * B)
      BY <1>2, <3>1, <3>2, DivModNat, DivLess
    <3>4. QED
      BY <2>1, <3>3
  <2>2. CASE ~large
    <3>1. limit < B * B
      BY <1>2, <2>2, Sizes
    <3>2. B * B <= Nibble * (B * B)
      BY Sizes, Positive
    <3>3. B * B \in Nat /\ Nibble * (B * B) \in Nat
      BY Sizes
    <3>4. QED
      BY <1>2, <2>2, <3>1, <3>2, <3>3
  <2>3. QED
    BY <2>1, <2>2
<1>7. raw = pages
  <2> HIDE DEF B, pages
  <2>1. B \in Nat \ {0} /\ Nibble \in Nat \ {0}
    BY Sizes DEF B
  <2>2. QED
    BY <1>6, <2>1, ThreeDigits
<1>8. (IF large THEN raw * L + LowMask ELSE raw) = limit
  <2>1. CASE large
    <3>1. limit % L = LowMask
      BY <1>1, <2>1 DEF invalid_limit
    <3>2. limit = (limit \div L) * L + LowMask
      BY <1>2, <3>1, Sizes, DivModNat
    <3> HIDE DEF raw, L
    <3>3. QED
      BY <1>7, <2>1, <3>2
  <2>2. CASE ~large
    <3> HIDE DEF raw
    <3>1. QED
      BY <1>7, <2>2
  <2>3. QED
    BY <2>1, <2>2
<1>9. QED
  BY <1>4, <1>5, <1>8

(* The descriptors that kernel.cpp writes down have limits that are        *)
(* accepted, so load_gdt does not panic.                                   *)
LEMMA DescriptorsAccepted ==
  ASSUME tss \in TssBases, NEW entry \in 0 .. 5
  PROVE  /\ ~invalid_limit(structured_gdt[entry])
         /\ DecodeEntry(encode_gdt_entry(structured_gdt[entry])) = structured_gdt[entry]
<1> DEFINE s == structured_gdt[entry]
<1>1. PICK base \in 0 .. UINT32_MAX, limit \in {0, sizeof_tss, UINT32_MAX}, access \in Nat :
        s = [base |-> base, limit |-> limit, access |-> access]
  <2>1. tss \in 0 .. UINT32_MAX /\ 0 \in 0 .. UINT32_MAX
    BY BootAssumption, Sizes
  <2>2. \/ s = [base |-> 0, limit |-> 0, access |-> 0]
        \/ s = [base |-> 0, limit |-> UINT32_MAX, access |-> 154]
        \/ s = [base |-> 0, limit |-> UINT32_MAX, access |-> 146]
        \/ s = [base |-> 0, limit |-> UINT32_MAX, access |-> 248]
        \/ s = [base |-> 0, limit |-> UINT32_MAX, access |-> 242]
        \/ s = [base |-> tss, limit |-> sizeof_tss, access |-> 233]
    BY DEF structured_gdt
  <2> HIDE DEF s
  <2>3. QED
    BY <2>1, <2>2
<1>2. UINT16_MAX <= UINT32_MAX
  <2>1. Byte * Byte <= (Byte * Byte) * (Byte * Byte)
    BY Sizes, Positive
  <2>2. (Byte * Byte) * (Byte * Byte) = Byte * Byte * Byte * Byte
    BY Sizes
  <2>3. QED
    BY <2>1, <2>2, Sizes
<1>3. UINT32_MAX % (LowMask + 1) = LowMask
  <2> DEFINE N == Nibble
             L == LowMask + 1
             q == N * (Byte * Byte) - 1
  <2>1. N * (Byte * Byte) \in Nat \ {0}
    BY Sizes, Positive
  <2>2. q \in Nat /\ L \in Nat \ {0} /\ LowMask \in 0 .. (L - 1)
    BY <2>1, Sizes
  <2>3. Byte * Byte * Byte * Byte = (N * (Byte * Byte)) * L
    <3> DEFINE B == Byte
    <3>1. L = N * B /\ B = N * N /\ N \in Nat
      BY Sizes DEF Byte
    <3> HIDE DEF L, B, N
    <3>2. B * B * B * B = (N * (B * B)) * L
      BY <3>1
    <3>3. QED
      BY <3>2 DEF B
  <2>4. (N * (Byte * Byte)) * L = q * L + L
    <3> DEFINE m == N * (Byte * Byte)
    <3> HIDE DEF m, L
    <3>1. m \in Nat /\ q = m - 1 /\ L \in Nat
      BY <2>1, <2>2 DEF m
    <3>2. m * L = (m - 1) * L + L
      BY <3>1
    <3>3. QED
      BY <3>1, <3>2 DEF m
  <2>5. UINT32_MAX = q * L + LowMask
    <3>1. UINT32_MAX = Byte * Byte * Byte * Byte - 1
      BY DEF UINT32_MAX
    <3> DEFINE p == q * L
    <3>2. Byte * Byte * Byte * Byte = p + L
      BY <2>3, <2>4
    <3>3. p \in Nat
      BY <2>2
    <3> HIDE DEF p
    <3>4. QED
      BY <2>2, <3>1, <3>2, <3>3 DEF p
  <2> HIDE DEF q, L
  <2>6. (q * L + LowMask) % L = LowMask
    BY <2>2, DivModOfSum
  <2>7. QED
    BY <2>5, <2>6 DEF L
<1>4. limit \in 0 .. UINT32_MAX
  BY <1>1, <1>2, BootAssumption, Sizes DEF sizeof_tss
<1>5. ~invalid_limit(s)
  <2>1. s.limit = limit
    BY <1>1
  <2>2. limit > UINT16_MAX => limit = UINT32_MAX
    BY <1>1, BootAssumption, Sizes DEF sizeof_tss
  <2>3. QED
    BY <1>3, <2>1, <2>2 DEF invalid_limit
<1> HIDE DEF s
<1>6. DecodeEntry(encode_gdt_entry(s)) = s
  BY <1>1, <1>4, <1>5, EncodeDecode
<1>7. QED
  BY <1>5, <1>6 DEF s

LEMMA SelectorsLead ==
  ASSUME SetUp
  PROVE  SelectorsDecode
<1> DEFINE D == {KERNEL_CODE_SELECTOR, KERNEL_DATA_SELECTOR, USER_CODE_SEGMENT,
                 USER_DATA_SEGMENT, TSS_SELECTOR}
           g == structured_gdt_to_gdt(structured_gdt)
<1>1. \A entry \in 0 .. 5 : DecodeEntry(g[entry]) = structured_gdt[entry]
  <2>1. DOMAIN structured_gdt = 0 .. 5
    BY DEF structured_gdt
  <2>2. \A entry \in 0 .. 5 : g[entry] = encode_gdt_entry(structured_gdt[entry])
    BY <2>1 DEF structured_gdt_to_gdt
  <2>3. QED
    BY <2>2, DescriptorsAccepted DEF SetUp
<1> HIDE DEF g
<1>2. \A selector \in D : selector \div 8 \in 0 .. 5
  BY DEF KERNEL_CODE_SELECTOR, KERNEL_DATA_SELECTOR, USER_CODE_SEGMENT,
         USER_DATA_SEGMENT, TSS_SELECTOR
<1>3. gdt # << >> => gdt = g
  BY DEF SetUp, g
<1>4. gdt # << >> => \A selector \in D : Segment(gdt, selector) = structured_gdt[selector \div 8]
  BY <1>1, <1>2, <1>3 DEF Segment
<1>5. ASSUME tr # 0 PROVE gdt # << >> /\ Segment(gdt, tr).base = tss
  <2>1. tr = TSS_SELECTOR /\ TSS_SELECTOR \div 8 = 5
    BY <1>5 DEF SetUp, TSS_SELECTOR
  <2>2. gdt = g
    BY <1>5 DEF SetUp, g
  <2>3. DOMAIN g = 0 .. 5
    BY DEF g, structured_gdt_to_gdt, structured_gdt
  <2>4. gdt # << >>
    <3>1. 0 \in DOMAIN g /\ DOMAIN << >> = {}
      BY <2>3
    <3>2. QED
      BY <2>2, <3>1
  <2>5. structured_gdt[5].base = tss
    BY DEF structured_gdt
  <2>6. QED
    BY <1>1, <2>1, <2>2, <2>4, <2>5 DEF Segment
<1>6. QED
  BY <1>4, <1>5 DEF SelectorsDecode

----------------------------------------------------------------------------
(* The steps.                                                              *)

LEMMA InitInv == Init => Inv
BY DEF Init, Inv, SetUp, Booting, TSS_SELECTOR

(* kernel_main goes on to a statement with what the statement needs.       *)
LEMMA BootSteps ==
  ASSUME Inv, kernel_main
  PROVE  Inv'
<1>1. /\ frames = << >> /\ pc # "idle" /\ pc # "panic"
      /\ UNCHANGED <<pic, found, esp, frames>>
  BY DEF kernel_main, At, start_terminal, load_gdt, idt_init, tss_load, fs_init, use_disk,
         open_root_file, open_dir_file, read_dir_file, enable_interrupts, read_root_file, cpu
<1>2. isr' = isr /\ volume' = volume /\ tss' = tss /\ structured_gdt' = structured_gdt
  BY <1>1 DEF pic, found, structured_gdt
<1>3. CASE start_terminal
  BY <1>1, <1>2, <1>3 DEF start_terminal, At, Inv, SetUp, Booting, DividesByZero, Divides, cpu
<1>4. CASE load_gdt
  <2>1. /\ pc = "gdt" /\ UNCHANGED <<tr, idt, cpu>>
        /\ \/ pc' = "panic" /\ gdt' = gdt
           \/ pc' = "idt" /\ gdt' = structured_gdt_to_gdt(structured_gdt)
    BY <1>4 DEF load_gdt, At, panic
  <2>2. QED
    BY <1>1, <1>2, <2>1 DEF Inv, SetUp, Booting, DividesByZero, Divides, cpu
<1>5. CASE idt_init
  <2>1. /\ pc = "idt" /\ pc' = "tss" /\ idt' = IdtTable /\ UNCHANGED <<gdt, tr, cpu>>
    BY <1>5 DEF idt_init, At, IdtTable
  <2>2. QED
    BY <1>1, <1>2, <2>1 DEF Inv, SetUp, Booting, DividesByZero, Divides, cpu, IdtTable
<1>6. CASE tss_load
  <2>1. pc = "tss" /\ pc' = "fs" /\ tr' = TSS_SELECTOR /\ UNCHANGED <<gdt, idt, cpu>>
    BY <1>6 DEF tss_load, At
  <2>2. QED
    BY <1>1, <1>2, <2>1 DEF Inv, SetUp, Booting, DividesByZero, Divides, cpu, IdtTable
<1>7. CASE \/ fs_init \/ use_disk \/ open_root_file \/ open_dir_file \/ read_dir_file
           \/ \E byte \in StackBytes : read_root_file(byte)
  <2>1. /\ pc \in {"fs", "disk", "root file", "dir file", "read root file", "read dir file"}
        /\ pc' \in {"disk", "root file", "read root file", "dir file", "read dir file",
                    "enable interrupts"}
        /\ ~DividesByZero
        /\ UNCHANGED <<gdt, tr, idt, cpu>>
    BY <1>7 DEF fs_init, use_disk, open_root_file, open_dir_file, read_dir_file,
                read_root_file, At, DividesByZero, Divides
  <2>2. esp = 0
    BY <1>1, <2>1 DEF Inv, Booting
  <2>3. QED
    BY <1>1, <1>2, <2>1, <2>2 DEF Inv, SetUp, Booting, cpu, IdtTable
<1>8. CASE enable_interrupts
  <2>1. /\ pc = "enable interrupts" /\ pc' = "idle" /\ IF_flag' = TRUE
        /\ UNCHANGED <<gdt, tr, idt, esp, frames>>
    BY <1>8 DEF enable_interrupts, At
  <2>2. esp = 0 /\ isr = {}
    BY <1>1, <2>1 DEF Inv, Booting, DividesByZero, Divides
  <2>3. Quiescent'
    BY <1>1, <1>2, <2>1, <2>2 DEF Quiescent
  <2>4. QED
    BY <1>1, <1>2, <2>1, <2>3 DEF Inv, SetUp, Booting, IdtTable
<1>9. QED
  BY <1>3, <1>4, <1>5, <1>6, <1>7, <1>8 DEF kernel_main

\* A step of an interrupt leaves what kernel_main has set up.
LEMMA SetUpStays ==
  ASSUME SetUp, UNCHANGED <<pc, gdt, tr, idt, found>>
  PROVE  SetUp' /\ (DividesByZero' <=> DividesByZero)
<1>1. structured_gdt' = structured_gdt /\ tss' = tss
  BY DEF found, structured_gdt
<1>2. QED
  BY <1>1 DEF SetUp, found, IdtTable, DividesByZero, Divides

\* One handler: entering, going on and leaving.
LEMMA OneElement ==
  ASSUME NEW f, NEW at
  PROVE  /\ Append(<< >>, f) = <<f>>
         /\ Last(<<f>>) = f
         /\ Front(<<f>>) = << >>
         /\ [<<f>> EXCEPT ![Len(<<f>>)].at = at] = <<[f EXCEPT !.at = at]>>
BY DEF Last, Front

\* What runs is the one handler of the invariant.
LEMMA RunningFrame ==
  ASSUME Inv, NEW at, Running(at)
  PROVE  /\ OneFrame /\ frames[1].at = at /\ Front(frames) = << >>
         /\ pc # "idle" => at = "idt_zero"
         /\ pc = "idle" => InHandler
<1>1. frames # << >>
  BY DEF Running
<1>2. OneFrame
  BY <1>1 DEF Inv, Booting, Quiescent, InHandler
<1>3. Last(frames) = frames[1] /\ Front(frames) = << >>
  BY <1>2, OneElement DEF OneFrame
<1>4. frames[1].at = at
  BY <1>3 DEF Running
<1>5. QED
  BY <1>1, <1>2, <1>3, <1>4 DEF Inv, Booting, Quiescent

LEMMA Entered ==
  ASSUME NEW v, frames = << >>, Enter(v), v \in {0, 32, 33, 118}, idt = IdtTable
  PROVE  OneFrame' /\ frames'[1].at = idt[v] /\ ~IF_flag'
<1>1. frames' = <<[vector |-> v, at |-> idt[v]]>>
  BY OneElement DEF Enter
<1>2. idt[v] \in Places /\ v \in Int
  BY DEF IdtTable, Places
<1>3. frames' # << >>
  <2>1. Len(frames') = 1
    BY <1>1
  <2>2. QED
    BY <2>1
<1>4. QED
  BY <1>1, <1>2, <1>3 DEF OneFrame, Enter

LEMMA Proceeded ==
  ASSUME OneFrame, NEW at \in Places, Proceed(at)
  PROVE  OneFrame' /\ frames'[1].at = at
<1>1. frames' = <<[frames[1] EXCEPT !.at = at]>>
  BY OneElement DEF OneFrame, Proceed
<1>2. [frames[1] EXCEPT !.at = at] \in [vector : Int, at : Places]
      /\ [frames[1] EXCEPT !.at = at].at = at
  BY DEF OneFrame
<1>3. frames' # << >>
  <2>1. Len(frames') = 1
    BY <1>1
  <2>2. QED
    BY <2>1
<1>4. QED
  BY <1>1, <1>2, <1>3 DEF OneFrame

(* A division by zero enters and leaves its handler before the idle loop.  *)
LEMMA DivisionSteps == ASSUME Inv, DivideError \/ idt_zero PROVE Inv'
<1>1. CASE DivideError
  <2>1. SetUp' /\ (DividesByZero' <=> DividesByZero) /\ pc' = pc /\ isr' = isr
    BY <1>1, SetUpStays DEF Inv, DivideError, pic
  <2>2. frames = << >> /\ DividesByZero /\ Enter(0) /\ pc # "idle"
    BY <1>1 DEF DivideError, DividesByZero, Divides
  <2>3. idt = IdtTable
    BY <2>2 DEF Inv, SetUp, DividesByZero, Divides
  <2>4. OneFrame' /\ frames'[1].at = "idt_zero" /\ ~IF_flag'
    BY <2>2, <2>3, Entered DEF IdtTable
  <2>5. Booting'
    BY <2>1, <2>2, <2>4 DEF Inv, Booting
  <2>6. QED
    BY <2>1, <2>2, <2>5 DEF Inv
<1>2. CASE idt_zero
  <2>1. /\ Running("idt_zero") /\ frames' = Front(frames) /\ IF_flag' = IF_flag
        /\ pc' \in {pc, "astray"} /\ UNCHANGED <<gdt, tr, idt, found, isr>>
    BY <1>2 DEF idt_zero, pic
  <2>2. frames # << >> /\ frames' = << >> /\ frames[1].at = "idt_zero"
        /\ (pc = "idle" => InHandler)
    BY <2>1, RunningFrame DEF Running
  <2>3. pc # "idle" /\ DividesByZero
    <3>1. pc # "idle"
      BY <2>2 DEF InHandler
    <3>2. QED
      BY <2>2, <3>1 DEF Inv, Booting
  <2>4. pc \notin {"terminal", "gdt", "panic", "idt", "astray"}
    BY <2>3 DEF DividesByZero, Divides
  <2>5. SetUp'
    <3>1. structured_gdt' = structured_gdt /\ tss' = tss
      BY <2>1 DEF found, structured_gdt
    <3>2. QED
      BY <2>1, <2>4, <3>1 DEF Inv, SetUp, IdtTable
  <2>6. DividesByZero' \/ pc' = "astray"
    BY <2>1, <2>3 DEF DividesByZero, Divides, found
  <2>7. Booting' /\ pc' # "idle"
    BY <2>1, <2>2, <2>3, <2>6 DEF Inv, Booting
  <2>8. QED
    BY <2>5, <2>7 DEF Inv
<1>3. QED
  BY <1>1, <1>2

(* An interrupt is accepted only in the idle loop, and only when no other  *)
(* handler runs.                                                           *)
LEMMA Accepted ==
  ASSUME Inv, NEW line \in {TIMER, KEYBOARD, CASCADE}, Accept(line)
  PROVE  Inv'
<1>1. IF_flag /\ isr' = isr \cup {line} /\ Enter(Vector(line)) /\ pc' = pc
  BY DEF Accept
<1>2. SetUp'
  BY SetUpStays DEF Inv, Accept
<1>3. pc = "idle" /\ Quiescent
  BY <1>1 DEF Inv, Booting, InHandler
<1>4. Vector(line) \in {32, 33, 118} /\ idt = IdtTable
  BY <1>3 DEF Vector, TIMER, KEYBOARD, CASCADE, Inv, SetUp
<1>5. OneFrame' /\ frames'[1].at = idt[Vector(line)] /\ ~IF_flag'
  BY <1>1, <1>3, <1>4, Entered DEF Quiescent
<1>6. frames'[1].at \in {"int21h", "no_interrupt"} /\ frames'[1].at # "iret"
  BY <1>4, <1>5 DEF IdtTable
<1>7. esp' = 3
  <2>1. esp' = Min({esp + 3, MaxStack}) /\ esp = 0
    BY <1>1, <1>3 DEF Enter, Quiescent
  <2>2. 3 \in {3, MaxStack} /\ \A y \in {3, MaxStack} : 3 <= y
    BY BootAssumption
  <2>3. \A x \in {3, MaxStack} : (\A y \in {3, MaxStack} : x <= y) => x = 3
    BY BootAssumption
  <2>4. Min({3, MaxStack}) = 3
    BY <2>2, <2>3 DEF Min
  <2>5. QED
    BY <2>1, <2>4
<1>8. isr' = {line}
  BY <1>1, <1>3 DEF Quiescent
<1>9. InHandler'
  BY <1>5, <1>6, <1>7, <1>8 DEF InHandler
<1>10. QED
  BY <1>1, <1>2, <1>3, <1>9 DEF Inv, Booting

(* The stub of a handler saves the registers.                              *)
LEMMA StubEntered ==
  ASSUME Inv, \/ isr_entry("int21h", "int21h_handler")
              \/ isr_entry("no_interrupt", "no_interrupt_handler")
  PROVE  Inv'
<1>1. PICK stub \in {"int21h", "no_interrupt"},
           handler \in {"int21h_handler", "no_interrupt_handler"} :
        isr_entry(stub, handler)
  OBVIOUS
<1>2. Running(stub) /\ ~IF_flag' /\ esp' = esp + 8 /\ Proceed(handler) /\ pc' = pc /\ isr' = isr
  BY <1>1 DEF isr_entry, pushad, pic
<1>3. SetUp'
  BY <1>1, SetUpStays DEF Inv, isr_entry
<1>4. OneFrame /\ frames[1].at = stub /\ pc = "idle" /\ InHandler
  BY <1>2, RunningFrame
<1>5. OneFrame' /\ frames'[1].at = handler
  <2>1. handler \in Places
    BY DEF Places
  <2>2. QED
    BY <1>2, <1>4, <2>1, Proceeded
<1>6. esp' = 11
  BY <1>2, <1>4 DEF InHandler
<1>7. InHandler'
  BY <1>2, <1>4, <1>5, <1>6 DEF InHandler
<1>8. QED
  BY <1>2, <1>3, <1>4, <1>7 DEF Inv, Booting

(* A handler ends the interrupt at the master PIC.                         *)
LEMMA HandlerRuns ==
  ASSUME Inv, int21h_handler \/ no_interrupt_handler
  PROVE  Inv'
<1>1. PICK at \in {"int21h_handler", "no_interrupt_handler"} : Running(at)
  BY DEF int21h_handler, no_interrupt_handler
<1>2. EOI /\ Proceed("iret") /\ pc' = pc /\ esp' = esp /\ IF_flag' = IF_flag
  BY DEF int21h_handler, no_interrupt_handler
<1>3. SetUp'
  BY SetUpStays DEF Inv, int21h_handler, no_interrupt_handler
<1>4. OneFrame /\ frames[1].at = at /\ pc = "idle" /\ InHandler
  BY <1>1, RunningFrame
<1>5. OneFrame' /\ frames'[1].at = "iret"
  <2>1. "iret" \in Places
    BY DEF Places
  <2>2. QED
    BY <1>2, <1>4, <2>1, Proceeded
<1>6. isr' = {}
  <2>1. PICK line \in {TIMER, KEYBOARD, CASCADE} : isr = {line}
    BY <1>4 DEF InHandler
  <2>2. line \in Int
    BY DEF TIMER, KEYBOARD, CASCADE
  <2>3. QED
    BY <1>2, <2>1, <2>2 DEF EOI
<1>7. InHandler'
  BY <1>2, <1>4, <1>5, <1>6 DEF InHandler
<1>8. QED
  BY <1>2, <1>3, <1>4, <1>7 DEF Inv, Booting

(* iret takes off the stack what the interrupt and the stub have pushed.   *)
LEMMA HandlerLeft == ASSUME Inv, isr_exit PROVE Inv'
<1>1. /\ Running("iret") /\ IF_flag' /\ esp' = esp - 8 - 3 /\ frames' = Front(frames)
      /\ pc' = pc /\ isr' = isr
  BY DEF isr_exit, pushad, pic
<1>2. SetUp'
  BY SetUpStays DEF Inv, isr_exit
<1>3. frames[1].at = "iret" /\ pc = "idle" /\ InHandler /\ frames' = << >>
  BY <1>1, RunningFrame
<1>4. esp' = 0 /\ isr = {}
  BY <1>1, <1>3 DEF InHandler
<1>5. Quiescent'
  BY <1>1, <1>3, <1>4 DEF Quiescent
<1>6. QED
  BY <1>1, <1>2, <1>3, <1>5 DEF Inv, Booting

(* A request alone changes nothing of this.                                *)
LEMMA Requested ==
  ASSUME Inv, UNCHANGED <<pc, gdt, tr, idt, cpu, isr, found>>
  PROVE  Inv'
<1>1. SetUp' /\ (DividesByZero' <=> DividesByZero)
  BY SetUpStays DEF Inv
<1>2. UNCHANGED <<pc, esp, frames, IF_flag, isr>>
  BY DEF cpu
<1>3. OneFrame' <=> OneFrame
  BY <1>2 DEF OneFrame
<1>4. Booting' /\ (pc' = "idle" => (Quiescent \/ InHandler)')
  BY <1>1, <1>2, <1>3 DEF Inv, Booting, Quiescent, InHandler
<1>5. QED
  BY <1>1, <1>4 DEF Inv

LEMMA NextInv == Inv /\ [Next]_vars => Inv'
<1> SUFFICES ASSUME Inv, [Next]_vars PROVE Inv'
  OBVIOUS
<1>1. CASE kernel_main
  BY <1>1, BootSteps
<1>2. CASE DivideError
  BY <1>2, DivisionSteps
<1>3. CASE Handlers
  BY <1>3, DivisionSteps, StubEntered, HandlerRuns, HandlerLeft DEF Handlers
<1>4. CASE \E line \in {TIMER, KEYBOARD, CASCADE} : Accept(line)
  BY <1>4, Accepted
<1>5. CASE (\E line \in {TIMER, KEYBOARD} : Raise(line)) \/ RaiseDrive
  BY <1>5, Requested DEF Raise, RaiseDrive
<1>6. CASE Astray \/ UNCHANGED vars
  BY <1>6, Requested DEF Astray, vars, pic
<1>7. QED
  BY <1>1, <1>2, <1>3, <1>4, <1>5, <1>6 DEF Next

LEMMA BootInvariant == Spec => []Inv
BY InitInv, NextInv, PTL DEF Spec

(* Every selector of the kernel and of its tasks leads, through the bytes  *)
(* that encode_gdt_entry writes, to the segment kernel.cpp describes, and  *)
(* the task register to the TSS, for every base of the TSS below 2^32.     *)
THEOREM BootSelectorsDecode == Spec => []SelectorsDecode
<1>1. Inv => SelectorsDecode
  BY SelectorsLead DEF Inv
<1>2. QED
  BY BootInvariant, <1>1, PTL

(* Interrupts do not nest, every handler that was entered from the idle    *)
(* loop ends its interrupt at the master PIC and leaves the stack as it    *)
(* was: each time the idle loop goes on, nothing is left over.             *)
THEOREM BootIdleIsClean == Spec => []IdleIsClean
<1>1. Inv => IdleIsClean
  BY DEF Inv, Quiescent, InHandler, OneFrame, IdleIsClean
<1>2. QED
  BY BootInvariant, <1>1, PTL

----------------------------------------------------------------------------
(* The screen.  What shows in the first i cells of a buffer.               *)

Size == VGA_WIDTH * VGA_HEIGHT

Buffers == [Cells -> [char : Int, colour : Int]]

Shown(b) ==
  CHOOSE shown : shown = [i \in 0 .. Size |->
    IF i = 0 THEN << >>
    ELSE IF b[i - 1].char = Space THEN shown[i - 1]
         ELSE Append(shown[i - 1], b[i - 1].char)]

LEMMA ScreenSize == Size \in Nat /\ Cells = 0 .. (Size - 1)
<1>1. Size \in Nat
  BY TerminalAssumption DEF Size
<1>2. QED
  BY <1>1 DEF Cells, Size

LEMMA ShownSteps ==
  ASSUME NEW b \in Buffers
  PROVE  /\ Shown(b)[0] = << >>
         /\ \A i \in Cells : Shown(b)[i + 1] = IF b[i].char = Space THEN Shown(b)[i]
                                               ELSE Append(Shown(b)[i], b[i].char)
         /\ \A i \in 0 .. Size : Shown(b)[i] \in Seq(Int)
<1> DEFINE D == 0 .. Size
           S == Seq(Int)
           body(s) == [i \in D |-> IF i = 0 THEN << >>
                                   ELSE IF b[i - 1].char = Space THEN s[i - 1]
                                        ELSE Append(s[i - 1], b[i - 1].char)]
           g == [p \in Nat \X S |-> IF p[1] \in Cells /\ b[p[1]].char # Space
                                    THEN Append(p[2], b[p[1]].char) ELSE p[2]]
<1>1. /\ Size \in Nat /\ Cells = 0 .. (Size - 1)
      /\ \A i \in Cells : b[i].char \in Int
  BY ScreenSize DEF Buffers
<1>2. << >> \in S /\ g \in Steps(S)
  <2>1. ASSUME NEW p \in Nat \X S PROVE g[p] \in S
    BY <1>1
  <2>2. QED
    BY <2>1 DEF Steps
<1>3. PICK h : IsIteration(h, S, << >>, g)
  <2> HIDE DEF g, S
  <2>1. QED
    BY <1>2, IterationExists
<1>4. /\ h[0] = << >>
      /\ \A j \in Nat : h[j] \in S
      /\ \A j \in Nat : j # 0 => h[j] = g[<<j - 1, h[j - 1]>>]
  <2> HIDE DEF g, S
  <2>1. 0 \in Nat
    OBVIOUS
  <2>2. QED
    BY <1>3, <2>1 DEF IsIteration
<1> DEFINE t == [i \in D |-> h[i]]
<1>5. t = body(t)
  <2>1. ASSUME NEW i \in D
        PROVE  t[i] = IF i = 0 THEN << >>
                      ELSE IF b[i - 1].char = Space THEN t[i - 1]
                           ELSE Append(t[i - 1], b[i - 1].char)
    <3>1. i \in Nat /\ t[i] = h[i]
      BY <1>1
    <3>2. CASE i = 0
      <4> HIDE DEF t, g, S
      <4>1. QED
        BY <1>4, <3>1, <3>2
    <3>3. CASE i # 0
      <4> DEFINE k == i - 1
                 x == h[k]
      <4>1. k \in Nat /\ k \in D /\ k \in Cells /\ t[k] = x
        BY <1>1, <3>3
      <4>2. h[i] = g[<<k, x>>] /\ x \in S
        <5> HIDE DEF g, S
        <5>1. QED
          BY <1>4, <3>1, <3>3, <4>1
      <4> HIDE DEF k, x
      <4>3. <<k, x>> \in Nat \X S
        BY <4>1, <4>2
      <4>4. g[<<k, x>>] = IF b[k].char # Space THEN Append(x, b[k].char) ELSE x
        BY <4>1, <4>3
      <4> HIDE DEF g, t
      <4>5. t[i] = IF b[k].char = Space THEN t[k] ELSE Append(t[k], b[k].char)
        BY <3>1, <4>1, <4>2, <4>4
      <4>6. QED
        BY <3>3, <4>5 DEF k
    <3>4. QED
      BY <3>2, <3>3
  <2>2. QED
    BY <2>1
<1> HIDE DEF t
<1> DEFINE w == Shown(b)
<1>6. w = body(w)
  BY <1>5 DEF Shown
<1> HIDE DEF w
<1>7. \A i \in D : w[i] = IF i = 0 THEN << >>
                          ELSE IF b[i - 1].char = Space THEN w[i - 1]
                               ELSE Append(w[i - 1], b[i - 1].char)
  BY <1>6
<1>8. w[0] = << >> /\ \A i \in Cells : w[i + 1] = IF b[i].char = Space THEN w[i]
                                                  ELSE Append(w[i], b[i].char)
  <2>1. 0 \in D /\ \A i \in Cells : i + 1 \in D /\ i + 1 # 0 /\ (i + 1) - 1 = i
    BY <1>1
  <2>2. QED
    BY <1>7, <2>1
<1> DEFINE A == {i \in Nat : i <= Size => w[i] \in Seq(Int)}
<1> HIDE DEF g
<1>9. 0 \in A
  <2>1. << >> \in Seq(Int)
    OBVIOUS
  <2>2. QED
    BY <1>8, <2>1
<1>10. ASSUME NEW i \in A PROVE i + 1 \in A
  <2> SUFFICES ASSUME i + 1 <= Size PROVE w[i + 1] \in Seq(Int)
    OBVIOUS
  <2>1. i \in Cells /\ w[i] \in Seq(Int) /\ b[i].char \in Int
    BY <1>1
  <2>2. Append(w[i], b[i].char) \in Seq(Int)
    BY <2>1
  <2>3. w[i + 1] = IF b[i].char = Space THEN w[i] ELSE Append(w[i], b[i].char)
    BY <1>8, <2>1
  <2>4. QED
    BY <2>1, <2>2, <2>3
<1>11. A \in SUBSET Nat
  OBVIOUS
<1>12. A = Nat
  <2> HIDE DEF A
  <2>1. QED
    BY <1>9, <1>10, <1>11, SetInduction
<1>13. \A i \in 0 .. Size : w[i] \in Seq(Int)
  BY <1>1, <1>12
<1>14. QED
  BY <1>8, <1>13 DEF w

(* Blank cells show nothing.                                               *)
LEMMA BlankEnd ==
  ASSUME NEW b \in Buffers, NEW p \in 0 .. Size,
         \A i \in Cells : i >= p => b[i].char = Space
  PROVE  Shown(b)[Size] = Shown(b)[p]
<1> DEFINE w == Shown(b)
           A == {j \in Nat : p + j <= Size => w[p + j] = w[p]}
<1>1. /\ Size \in Nat /\ Cells = 0 .. (Size - 1) /\ p \in Nat /\ p <= Size
      /\ \A i \in Cells : w[i + 1] = IF b[i].char = Space THEN w[i]
                                     ELSE Append(w[i], b[i].char)
  BY ScreenSize, ShownSteps
<1> HIDE DEF w
<1>2. 0 \in A
  BY <1>1
<1>3. ASSUME NEW j \in A PROVE j + 1 \in A
  <2> SUFFICES ASSUME p + (j + 1) <= Size PROVE w[p + (j + 1)] = w[p]
    OBVIOUS
  <2> DEFINE k == p + j
  <2>1. j \in Nat /\ k \in Cells /\ k >= p /\ k + 1 = p + (j + 1) /\ w[k] = w[p]
    BY <1>1
  <2>2. w[k + 1] = w[k]
    BY <1>1, <2>1
  <2>3. QED
    BY <2>1, <2>2
<1>4. A \in SUBSET Nat
  OBVIOUS
<1>5. A = Nat
  <2> HIDE DEF A
  <2>1. QED
    BY <1>2, <1>3, <1>4, SetInduction
<1>6. Size - p \in Nat /\ p + (Size - p) = Size
  BY <1>1
<1>7. Size - p \in A
  <2> HIDE DEF A
  <2>1. QED
    BY <1>5, <1>6
<1>8. QED
  BY <1>1, <1>6, <1>7 DEF w

(* Buffers that agree up to a cell show the same up to it.                 *)
LEMMA SamePrefix ==
  ASSUME NEW b \in Buffers, NEW c \in Buffers, NEW p \in 0 .. Size,
         \A i \in Cells : i < p => c[i] = b[i]
  PROVE  Shown(c)[p] = Shown(b)[p]
<1> DEFINE w == Shown(b)
           v == Shown(c)
           A == {j \in Nat : j <= p => v[j] = w[j]}
<1>1. /\ Size \in Nat /\ Cells = 0 .. (Size - 1) /\ p \in Nat /\ p <= Size
      /\ w[0] = << >> /\ v[0] = << >>
      /\ \A i \in Cells : w[i + 1] = IF b[i].char = Space THEN w[i]
                                     ELSE Append(w[i], b[i].char)
      /\ \A i \in Cells : v[i + 1] = IF c[i].char = Space THEN v[i]
                                     ELSE Append(v[i], c[i].char)
  BY ScreenSize, ShownSteps
<1> HIDE DEF w, v
<1>2. 0 \in A
  BY <1>1
<1>3. ASSUME NEW j \in A PROVE j + 1 \in A
  <2> SUFFICES ASSUME j + 1 <= p PROVE v[j + 1] = w[j + 1]
    OBVIOUS
  <2>1. j \in Cells /\ v[j] = w[j] /\ j < p
    BY <1>1
  <2>2. c[j] = b[j]
    BY <2>1
  <2>3. QED
    BY <1>1, <2>1, <2>2
<1>4. A \in SUBSET Nat
  OBVIOUS
<1>5. A = Nat
  <2> HIDE DEF A
  <2>1. QED
    BY <1>2, <1>3, <1>4, SetInduction
<1>6. p \in A
  <2> HIDE DEF A
  <2>1. QED
    BY <1>1, <1>5
<1>7. QED
  BY <1>1, <1>6 DEF v, w

----------------------------------------------------------------------------
(* A terminal between two characters: the cursor is on the screen, from it *)
(* on all is blank, and what shows is what was written.                    *)

Position(row, column) == row * VGA_WIDTH + column

BlankFrom(b, p) == \A i \in Cells : i >= p => b[i].char = Space

Screens ==
  {t \in [row : 0 .. (VGA_HEIGHT - 1), column : 0 .. (VGA_WIDTH - 1), colour : Int,
          buffer : Buffers, text : Seq(Int)] :
     /\ BlankFrom(t.buffer, Position(t.row, t.column))
     /\ Shown(t.buffer)[Size] = t.text}

LEMMA IsScreen ==
  ASSUME NEW row \in 0 .. (VGA_HEIGHT - 1), NEW column \in 0 .. (VGA_WIDTH - 1),
         NEW colour \in Int, NEW b \in Buffers, NEW text,
         BlankFrom(b, Position(row, column)), Shown(b)[Size] = text
  PROVE  [row |-> row, column |-> column, colour |-> colour, buffer |-> b, text |-> text]
           \in Screens
<1>1. text \in Seq(Int)
  BY ScreenSize, ShownSteps
<1>2. QED
  BY <1>1 DEF Screens

LEMMA ScreenFields ==
  ASSUME NEW t \in Screens
  PROVE  /\ t.row \in 0 .. (VGA_HEIGHT - 1) /\ t.column \in 0 .. (VGA_WIDTH - 1)
         /\ t.colour \in Int /\ t.buffer \in Buffers /\ t.text \in Seq(Int)
         /\ BlankFrom(t.buffer, Position(t.row, t.column))
         /\ Shown(t.buffer)[Size] = t.text
         /\ t = [row |-> t.row, column |-> t.column, colour |-> t.colour,
                 buffer |-> t.buffer, text |-> t.text]
  BY DEF Screens

(* The rows of the screen follow each other.                               *)
LEMMA Positions ==
  ASSUME NEW row \in 0 .. (VGA_HEIGHT - 1), NEW column \in 0 .. (VGA_WIDTH - 1)
  PROVE  /\ Position(row, column) \in Cells
         /\ Position(row, column) \in Nat
         /\ Position(row + 1, 0) = Position(row, VGA_WIDTH)
         /\ Position(row + 1, 0) >= Position(row, column)
         /\ Position(row, column + 1) = Position(row, column) + 1
         /\ Position(row + 1, 0) \in Nat
<1> DEFINE W == VGA_WIDTH
           H == VGA_HEIGHT
<1>1. W \in Nat \ {0} /\ H \in Nat \ {0}
  BY TerminalAssumption
<1>2. row \in Nat /\ column \in Nat /\ column < W /\ row <= H - 1 /\ H - 1 \in Nat
  BY <1>1
<1>3. row * W <= (H - 1) * W
  BY <1>1, <1>2, MulMono
<1>4. (H - 1) * W + W = W * H /\ (row + 1) * W = row * W + W /\ row * W \in Nat
      /\ (H - 1) * W \in Nat /\ W * H \in Nat
  BY <1>1, <1>2
<1>5. Size = W * H
  BY DEF Size
<1> DEFINE rw == row * W
           hw == (H - 1) * W
<1>6. /\ rw <= hw /\ hw + W = Size /\ (row + 1) * W = rw + W /\ rw \in Nat /\ hw \in Nat
      /\ Position(row, column) = rw + column /\ Position(row + 1, 0) = (rw + W) + 0
      /\ Position(row, W) = rw + W /\ Position(row, column + 1) = rw + (column + 1)
  BY <1>3, <1>4, <1>5 DEF Position
<1> HIDE DEF rw, hw
<1>7. QED
  BY <1>1, <1>2, <1>6, ScreenSize

LEMMA InitialScreen == terminal_initialise \in Screens
<1> DEFINE b == [i \in Cells |-> vga_entry(Space, VGA_COLOUR_LIGHT_GREY)]
<1>1. b \in Buffers /\ \A i \in Cells : b[i].char = Space
  BY DEF Buffers, vga_entry, Space, VGA_COLOUR_LIGHT_GREY
<1>2. 0 \in 0 .. (VGA_HEIGHT - 1) /\ 0 \in 0 .. (VGA_WIDTH - 1)
  BY TerminalAssumption
<1>3. terminal_initialise = [row |-> 0, column |-> 0, colour |-> VGA_COLOUR_LIGHT_GREY,
                             buffer |-> b, text |-> << >>]
  BY DEF terminal_initialise
<1> HIDE DEF b
<1>4. BlankFrom(b, Position(0, 0))
  BY <1>1 DEF BlankFrom
<1>5. Shown(b)[Size] = << >>
  <2>1. 0 \in 0 .. Size
    BY ScreenSize
  <2>2. Shown(b)[Size] = Shown(b)[0]
    BY <1>1, <2>1, BlankEnd
  <2>3. QED
    BY <1>1, <2>2, ShownSteps
<1>6. VGA_COLOUR_LIGHT_GREY \in Int
  BY DEF VGA_COLOUR_LIGHT_GREY
<1>7. QED
  BY <1>1, <1>2, <1>3, <1>4, <1>5, <1>6, IsScreen

LEMMA ColourScreen ==
  ASSUME NEW t \in Screens, NEW colour \in Int
  PROVE  terminal_set_colour(t, colour) \in Screens
<1>1. terminal_set_colour(t, colour)
        = [row |-> t.row, column |-> t.column, colour |-> colour, buffer |-> t.buffer,
           text |-> t.text]
  BY ScreenFields DEF terminal_set_colour
<1>2. QED
  BY <1>1, ScreenFields, IsScreen

(* A character put at the cursor is the next that shows.                   *)
LEMMA PutShows ==
  ASSUME NEW b \in Buffers, NEW p \in Cells, NEW ch \in Int, NEW colour \in Int,
         BlankFrom(b, p), NEW c, c = [b EXCEPT ![p] = vga_entry(ch, colour)]
  PROVE  /\ c \in Buffers
         /\ BlankFrom(c, p + 1)
         /\ Shown(c)[Size] = IF ch = Space THEN Shown(b)[Size]
                             ELSE Append(Shown(b)[Size], ch)
<1>1. /\ c \in Buffers /\ c[p].char = ch
      /\ \A i \in Cells : i # p => c[i] = b[i]
  BY DEF Buffers, vga_entry
<1>2. /\ Size \in Nat /\ Cells = 0 .. (Size - 1) /\ p \in 0 .. Size
      /\ p + 1 \in 0 .. Size /\ p \in Nat
  BY ScreenSize
<1>3. BlankFrom(c, p + 1)
  BY <1>1, <1>2 DEF BlankFrom
<1>4. Shown(c)[Size] = Shown(c)[p + 1]
  BY <1>1, <1>2, <1>3, BlankEnd DEF BlankFrom
<1>5. Shown(c)[p] = Shown(b)[p]
  <2>1. \A i \in Cells : i < p => c[i] = b[i]
    BY <1>1, <1>2
  <2>2. QED
    BY <1>1, <1>2, <2>1, SamePrefix
<1>6. Shown(b)[Size] = Shown(b)[p]
  BY <1>2, BlankEnd DEF BlankFrom
<1>7. Shown(c)[p + 1] = IF ch = Space THEN Shown(c)[p] ELSE Append(Shown(c)[p], ch)
  BY <1>1, ShownSteps
<1>8. QED
  BY <1>1, <1>3, <1>4, <1>5, <1>6, <1>7

\* How the fields of a terminal are set.
TerminalOf(r, c, k, b, x) ==
  [row |-> r, column |-> c, colour |-> k, buffer |-> b, text |-> x]
SetCursor(t, c, r) == [t EXCEPT !.column = c, !.row = r]
SetText(t, p, e, x) == [t EXCEPT !.buffer[p] = e, !.text = x]

LEMMA CursorSet ==
  ASSUME NEW r, NEW c, NEW k, NEW b, NEW x, NEW r2, NEW c2
  PROVE  SetCursor(TerminalOf(r, c, k, b, x), c2, r2) = TerminalOf(r2, c2, k, b, x)
<1>1. ASSUME NEW t, t = [row |-> r, column |-> c, colour |-> k, buffer |-> b, text |-> x],
             NEW d, d = [t EXCEPT !.column = c2, !.row = r2]
      PROVE  d = [row |-> r2, column |-> c2, colour |-> k, buffer |-> b, text |-> x]
  BY <1>1
<1>2. QED
  BY <1>1 DEF TerminalOf, SetCursor

LEMMA TextSet ==
  ASSUME NEW r, NEW c, NEW k, NEW b, NEW x, NEW p, NEW e, NEW x2
  PROVE  SetText(TerminalOf(r, c, k, b, x), p, e, x2) = TerminalOf(r, c, k, [b EXCEPT ![p] = e], x2)
<1>1. ASSUME NEW t, t = [row |-> r, column |-> c, colour |-> k, buffer |-> b, text |-> x],
             NEW d, d = [t EXCEPT !.buffer[p] = e, !.text = x2]
      PROVE  d = [row |-> r, column |-> c, colour |-> k, buffer |-> [b EXCEPT ![p] = e],
                  text |-> x2]
  BY <1>1
<1>2. QED
  BY <1>1 DEF TerminalOf, SetText

LEMMA CharScreen ==
  ASSUME NEW t \in Screens, NEW ch \in Int
  PROVE  terminal_write_char(t, ch) \in Screens
<1> DEFINE W == VGA_WIDTH
           H == VGA_HEIGHT
           p == Position(t.row, t.column)
           b == [t.buffer EXCEPT ![p] = vga_entry(ch, t.colour)]
           text == IF ch = Space THEN t.text ELSE Append(t.text, ch)
           After(row, column, buffer, tx) == TerminalOf(row, column, t.colour, buffer, tx)
<1>1. W \in Nat \ {0} /\ H \in Nat \ {0}
  BY TerminalAssumption
<1>2. /\ t.row \in 0 .. (H - 1) /\ t.column \in 0 .. (W - 1) /\ t.colour \in Int
      /\ t.buffer \in Buffers /\ BlankFrom(t.buffer, p) /\ Shown(t.buffer)[Size] = t.text
  BY ScreenFields
<1>3. t.row \in Nat /\ t.column \in Nat /\ t.row + 1 <= H /\ t.column + 1 <= W
  BY <1>1, <1>2
<1>4. /\ p \in Cells /\ p \in Nat /\ Position(t.row + 1, 0) = Position(t.row, W)
      /\ Position(t.row + 1, 0) >= p /\ Position(t.row, t.column + 1) = p + 1
      /\ Position(t.row + 1, 0) \in Nat
  <2>1. t.row \in 0 .. (H - 1) /\ t.column \in 0 .. (W - 1)
    BY <1>2
  <2>2. QED
    BY <2>1, Positions
<1> HIDE DEF p
<1>5. b \in Buffers /\ BlankFrom(b, p + 1) /\ Shown(b)[Size] = text
  <2>1. b = [t.buffer EXCEPT ![p] = vga_entry(ch, t.colour)]
    OBVIOUS
  <2> HIDE DEF b
  <2>2. /\ b \in Buffers /\ BlankFrom(b, p + 1)
        /\ Shown(b)[Size] = IF ch = Space THEN Shown(t.buffer)[Size]
                            ELSE Append(Shown(t.buffer)[Size], ch)
    BY <1>2, <1>4, <2>1, PutShows
  <2>3. QED
    BY <1>2, <2>2
<1>6. ASSUME NEW row \in Nat, NEW column \in 0 .. (W - 1), NEW buffer \in Buffers, NEW tx,
             row <= H, BlankFrom(buffer, Position(row, column)), Shown(buffer)[Size] = tx
      PROVE  ClearIfFull(After(row, column, buffer, tx)) \in Screens
  <2>1. After(row, column, buffer, tx).row = row
    BY DEF TerminalOf
  <2>2. CASE row >= H
    BY <2>1, <2>2, InitialScreen DEF ClearIfFull
  <2>3. CASE ~(row >= H)
    <3>1. row \in 0 .. (H - 1)
      BY <1>1, <2>3
    <3>2. After(row, column, buffer, tx) \in Screens
      BY <1>2, <1>6, <3>1, IsScreen DEF TerminalOf
    <3>3. QED
      BY <2>1, <2>3, <3>2 DEF ClearIfFull
  <2>4. QED
    BY <2>2, <2>3
<1> HIDE DEF b, text
<1>7. t = TerminalOf(t.row, t.column, t.colour, t.buffer, t.text)
  BY ScreenFields DEF TerminalOf
<1>8. CASE ch = NewLine
  <2>1. SetCursor(t, 0, t.row + 1) = After(t.row + 1, 0, t.buffer, t.text)
    BY <1>7, CursorSet
  <2>2. terminal_write_char(t, ch) = ClearIfFull(SetCursor(t, 0, t.row + 1))
    BY <1>8 DEF terminal_write_char, SetCursor
  <2>3. BlankFrom(t.buffer, Position(t.row + 1, 0))
    <3>1. \A i \in Cells : i >= Position(t.row + 1, 0) => i >= p
      BY <1>4, ScreenSize
    <3>2. QED
      BY <1>2, <3>1 DEF BlankFrom
  <2>4. t.row + 1 \in Nat /\ 0 \in 0 .. (W - 1)
    BY <1>1, <1>3
  <2> HIDE DEF After
  <2>5. QED
    BY <1>2, <1>3, <1>6, <2>1, <2>2, <2>3, <2>4
<1>9. CASE ch # NewLine
  <2> DEFINE full == t.column + 1 >= W
             column == IF full THEN 0 ELSE t.column + 1
             row == IF full THEN t.row + 1 ELSE t.row
             put == terminal_write_char_at(t, ch)
  <2>1. put = After(t.row, t.column, b, text)
    <3>1. put = SetText(t, p, vga_entry(ch, t.colour), text)
      BY DEF terminal_write_char_at, SetText, text, p, Position
    <3> HIDE DEF put
    <3>2. QED
      BY <1>7, <3>1, TextSet DEF b
  <2>2. SetCursor(put, column, row) = After(row, column, b, text)
    <3> HIDE DEF put, row, column
    <3>1. QED
      BY <2>1, CursorSet
  <2>3. terminal_write_char(t, ch) = ClearIfFull(SetCursor(put, column, row))
    <3>1. put.row = t.row /\ put.column = t.column
      <4> HIDE DEF put
      <4>1. QED
        BY <2>1 DEF TerminalOf
    <3> HIDE DEF full
    <3>2. QED
      BY <1>9, <3>1 DEF terminal_write_char, SetCursor, full
  <2>4. /\ row \in Nat /\ column \in 0 .. (W - 1) /\ row <= H
    BY <1>1, <1>3
  <2>5. Position(row, column) = p + 1
    <3>1. CASE full
      <4>1. t.column + 1 = W
        BY <1>1, <1>3, <3>1
      <4>2. row = t.row + 1 /\ column = 0
        BY <3>1
      <4>3. QED
        BY <1>4, <4>1, <4>2
    <3>2. CASE ~full
      <4>1. row = t.row /\ column = t.column + 1
        BY <3>2
      <4>2. QED
        BY <1>4, <4>1
    <3>3. QED
      BY <3>1, <3>2
  <2> HIDE DEF After, row, column
  <2>6. QED
    BY <1>5, <1>6, <2>2, <2>3, <2>4, <2>5
<1>10. QED
  BY <1>8, <1>9

(* A text is written character by character.                               *)
LEMMA WriteScreen ==
  ASSUME NEW t \in Screens, NEW string \in Seq(Int)
  PROVE  terminal_write(t, string) \in Screens
<1> DEFINE L == Len(string)
           D == 0 .. L
           Put(before, ch) ==
             CHOOSE after \in {terminal_write_char(x, ch) : x \in {before}} : TRUE
           body(w) == [i \in D |-> IF i = 0 THEN t ELSE Put(w[i - 1], string[i])]
           g == [q \in Nat \X Screens |->
                   IF q[1] + 1 \in 1 .. L THEN terminal_write_char(q[2], string[q[1] + 1])
                   ELSE q[2]]
<1>1. L \in Nat /\ \A i \in 1 .. L : string[i] \in Int
  OBVIOUS
<1>2. \A before, ch : Put(before, ch) = terminal_write_char(before, ch)
  OBVIOUS
<1>3. g \in Steps(Screens)
  <2>1. ASSUME NEW q \in Nat \X Screens PROVE g[q] \in Screens
    <3> DEFINE k == q[1] + 1
               x == q[2]
    <3>1. x \in Screens /\ g[q] = IF k \in 1 .. L THEN terminal_write_char(x, string[k]) ELSE x
      OBVIOUS
    <3> HIDE DEF k, x, g
    <3>2. k \in 1 .. L => terminal_write_char(x, string[k]) \in Screens
      BY <1>1, <3>1, CharScreen
    <3>3. QED
      BY <3>1, <3>2
  <2>2. QED
    BY <2>1 DEF Steps
<1>4. PICK h : IsIteration(h, Screens, t, g)
  <2> HIDE DEF g
  <2>1. QED
    BY <1>3, IterationExists
<1>5. /\ h[0] = t
      /\ \A j \in Nat : h[j] \in Screens
      /\ \A j \in Nat : j # 0 => h[j] = g[<<j - 1, h[j - 1]>>]
  <2> HIDE DEF g
  <2>1. 0 \in Nat
    OBVIOUS
  <2>2. QED
    BY <1>4, <2>1 DEF IsIteration
<1> DEFINE z == [i \in D |-> h[i]]
<1> HIDE DEF Put
<1>6. z = body(z)
  <2>1. ASSUME NEW i \in D
        PROVE  z[i] = IF i = 0 THEN t ELSE Put(z[i - 1], string[i])
    <3>1. i \in Nat /\ z[i] = h[i]
      BY <1>1
    <3>2. CASE i = 0
      <4> HIDE DEF z, g
      <4>1. QED
        BY <1>5, <3>1, <3>2
    <3>3. CASE i # 0
      <4> DEFINE k == i - 1
                 x == h[k]
      <4>1. k \in Nat /\ k \in D /\ k + 1 = i /\ i \in 1 .. L /\ z[k] = x
        BY <1>1, <3>3
      <4>2. h[i] = g[<<k, x>>] /\ x \in Screens
        <5> HIDE DEF g
        <5>1. QED
          BY <1>5, <3>1, <3>3, <4>1
      <4> HIDE DEF k, x
      <4>3. <<k, x>> \in Nat \X Screens
        BY <4>1, <4>2
      <4>4. g[<<k, x>>] = terminal_write_char(x, string[i])
        BY <4>1, <4>3
      <4> HIDE DEF g, z
      <4>5. z[i] = Put(z[k], string[i])
        BY <1>2, <3>1, <4>1, <4>2, <4>4
      <4>6. QED
        BY <3>3, <4>5 DEF k
    <3>4. QED
      BY <3>2, <3>3
  <2>2. QED
    BY <2>1
<1> HIDE DEF z
<1> DEFINE w == CHOOSE w : w = body(w)
<1>7. w = body(w)
  BY <1>6
<1>8. terminal_write(t, string) = w[L]
  BY DEF terminal_write, Put
<1> HIDE DEF w, g
<1>9. \A i \in D : w[i] = IF i = 0 THEN t ELSE Put(w[i - 1], string[i])
  BY <1>7
<1> DEFINE A == {i \in Nat : i <= L => w[i] \in Screens}
<1>10. 0 \in A
  BY <1>1, <1>9
<1>11. ASSUME NEW i \in A PROVE i + 1 \in A
  <2> SUFFICES ASSUME i + 1 <= L PROVE w[i + 1] \in Screens
    OBVIOUS
  <2>1. i + 1 \in D /\ i + 1 \in 1 .. L /\ i + 1 # 0 /\ (i + 1) - 1 = i /\ w[i] \in Screens
    BY <1>1
  <2>2. w[i + 1] = terminal_write_char(w[i], string[i + 1])
    BY <1>2, <1>9, <2>1
  <2>3. QED
    BY <1>1, <2>1, <2>2, CharScreen
<1>12. A \in SUBSET Nat
  OBVIOUS
<1>13. A = Nat
  <2> HIDE DEF A
  <2>1. QED
    BY <1>10, <1>11, <1>12, SetInduction
<1>14. L \in A
  <2> HIDE DEF A
  <2>1. QED
    BY <1>1, <1>13
<1>15. QED
  BY <1>1, <1>8, <1>14

----------------------------------------------------------------------------
(* Numbers of at most two digits as text, in the bytes kernel_main has.    *)

Bytes == [0 .. 3 -> Int]

LEMMA LeftOf ==
  ASSUME NEW v \in 0 .. 99
  PROVE  left(v, 0) = v /\ left(v, 1) = v \div 10 /\ \A i \in 2 .. 10 : left(v, i) = 0
<1> DEFINE D == 0 .. 10
           body(r) == [k \in D |-> IF k = 0 THEN v ELSE r[k - 1] \div 10]
           t == [k \in D |-> IF k = 0 THEN v ELSE IF k = 1 THEN v \div 10 ELSE 0]
           rest == CHOOSE r : r = body(r)
<1>1. v \div 10 \in 0 .. 9 /\ (v \div 10) \div 10 = 0 /\ 0 \div 10 = 0
  OBVIOUS
<1>2. t = body(t)
  <2>1. ASSUME NEW k \in D PROVE t[k] = IF k = 0 THEN v ELSE t[k - 1] \div 10
    <3>1. CASE k = 0
      BY <3>1
    <3>2. CASE k = 1
      BY <3>2
    <3>3. CASE k = 2
      BY <1>1, <3>3
    <3>4. CASE k > 2
      BY <1>1, <3>4
    <3>5. QED
      BY <3>1, <3>2, <3>3, <3>4
  <2>2. QED
    BY <2>1
<1>3. \A i : left(v, i) = rest[i]
  BY DEF left
<1>4. rest = body(rest)
  <2> HIDE DEF t
  <2>1. QED
    BY <1>2
<1> HIDE DEF rest, t
<1>5. rest[0] = v /\ rest[1] = v \div 10
  BY <1>4
<1>6. \A k \in D : k # 0 => rest[k] = rest[k - 1] \div 10
  BY <1>4
<1> HIDE DEF D
<1>7. rest[2] = 0
  <2>1. 2 \in D /\ 2 # 0 /\ 2 - 1 = 1
    BY DEF D
  <2>2. rest[2] = rest[1] \div 10
    BY <1>6, <2>1
  <2>3. QED
    BY <1>1, <1>5, <2>2
<1>8. \A i \in 2 .. 10 : rest[i] = 0
  <2> DEFINE A == {j \in Nat : j + 2 <= 10 => rest[j + 2] = 0}
  <2>1. 0 \in A
    BY <1>7
  <2>2. ASSUME NEW j \in A PROVE j + 1 \in A
    <3> SUFFICES ASSUME (j + 1) + 2 <= 10 PROVE rest[(j + 1) + 2] = 0
      OBVIOUS
    <3> DEFINE k == (j + 1) + 2
    <3>1. k \in D /\ k # 0 /\ k - 1 = j + 2 /\ rest[j + 2] = 0
      BY DEF D
    <3>2. rest[k] = rest[k - 1] \div 10
      BY <1>6, <3>1
    <3>3. QED
      BY <1>1, <3>1, <3>2
  <2>3. A \in SUBSET Nat
    OBVIOUS
  <2>4. A = Nat
    <3> HIDE DEF A
    <3>1. QED
      BY <2>1, <2>2, <2>3, SetInduction
  <2>5. ASSUME NEW i \in 2 .. 10 PROVE rest[i] = 0
    <3>1. i - 2 \in Nat /\ (i - 2) + 2 = i /\ i <= 10
      OBVIOUS
    <3>2. i - 2 \in A
      <4> HIDE DEF A
      <4>1. QED
        BY <2>4, <3>1
    <3>3. QED
      BY <3>1, <3>2
  <2>6. QED
    BY <2>5
<1>9. QED
  BY <1>3, <1>5, <1>8

LEMMA DigitsOf ==
  ASSUME NEW v \in 1 .. 99
  PROVE  Digits(v) = IF v < 10 THEN 1 ELSE 2
<1> DEFINE S == {n \in 1 .. 10 : left(v, n) = 0}
<1>1. v \in 0 .. 99
  OBVIOUS
<1>2. left(v, 1) = v \div 10 /\ \A i \in 2 .. 10 : left(v, i) = 0
  BY <1>1, LeftOf
<1>3. 2 \in S /\ (1 \in S <=> v < 10)
  <2>1. v \div 10 = 0 <=> v < 10
    OBVIOUS
  <2>2. QED
    BY <1>2, <2>1
<1>4. S \in SUBSET Nat /\ \A n \in S : n >= 1
  OBVIOUS
<1>5. Digits(v) = Min(S)
  BY DEF Digits
<1> HIDE DEF S
<1>6. Min(S) \in S /\ \A n \in S : Min(S) <= n
  BY <1>3, <1>4, MinOfNats
<1>7. Min(S) = IF v < 10 THEN 1 ELSE 2
  <2> DEFINE m == Min(S)
  <2>1. m \in Nat /\ m >= 1 /\ m <= 2 /\ m \in S
    BY <1>3, <1>4, <1>6
  <2>2. 1 \in S => m <= 1
    BY <1>6
  <2> HIDE DEF m
  <2>3. m = 1 \/ m = 2
    BY <2>1
  <2>4. QED
    BY <1>3, <2>1, <2>2, <2>3 DEF m
<1>8. QED
  BY <1>5, <1>7

(* A string in four bytes of which the last is NUL.                        *)
LEMMA StrlenOf ==
  ASSUME NEW m \in Bytes, m[3] = NUL
  PROVE  /\ strlen(m) \in 0 .. 3 /\ m[strlen(m)] = NUL
         /\ \A i \in 0 .. 3 : m[i] = NUL => strlen(m) <= i
         /\ StringAt(m) \in Seq(Int)
<1> DEFINE S == {i \in DOMAIN m : m[i] = NUL}
<1>1. DOMAIN m = 0 .. 3 /\ 3 \in S /\ S \in SUBSET Nat
  BY DEF Bytes
<1>2. strlen(m) = Min(S)
  BY DEF strlen
<1>3. Min(S) \in S /\ \A i \in S : Min(S) <= i
  <2> HIDE DEF S
  <2>1. QED
    BY <1>1, MinOfNats
<1>4. /\ strlen(m) \in 0 .. 3 /\ m[strlen(m)] = NUL
      /\ \A i \in 0 .. 3 : m[i] = NUL => strlen(m) <= i
  BY <1>1, <1>2, <1>3
<1>5. StringAt(m) \in Seq(Int)
  <2> DEFINE n == strlen(m)
  <2>1. n \in Nat /\ \A i \in 1 .. n : m[i - 1] \in Int
    BY <1>4 DEF Bytes
  <2>2. StringAt(m) = [i \in 1 .. n |-> m[i - 1]]
    BY DEF StringAt
  <2> HIDE DEF n
  <2>3. QED
    BY <2>1, <2>2
<1>6. QED
  BY <1>4, <1>5

(* One digit and the NUL, or the two digits in order and the NUL.          *)
OneDigit(v, m)  == [i \in 0 .. 3 |-> IF i = 0 THEN Zero + v ELSE IF i = 1 THEN NUL ELSE m[i]]
TwoDigits(v, m) ==
  [i \in 0 .. 3 |-> IF i = 0 THEN Zero + (v \div 10)
                    ELSE IF i = 1 THEN Zero + (v % 10)
                         ELSE IF i = 2 THEN NUL ELSE m[i]]

LEMMA ItoaOf ==
  ASSUME NEW m \in Bytes, NEW v \in 1 .. 99
  PROVE  itoa(v, m) = IF v < 10 THEN OneDigit(v, m) ELSE TwoDigits(v, m)
<1> DEFINE n == Digits(v)
           q == populate(m, 0, v)
<1>1. v \in 0 .. 99 /\ v # 0 /\ ~(v < 0) /\ v \in Int
  OBVIOUS
<1>2. n = IF v < 10 THEN 1 ELSE 2
  BY DigitsOf
<1>3. DOMAIN m = 0 .. 3
  BY DEF Bytes
<1> HIDE DEF n
<1>4. 0 + n = n /\ itoa(v, m) = [reverse(q, 0, n) EXCEPT ![n] = NUL]
  <2>1. 0 + n = n
    BY <1>2
  <2>2. itoa(v, m) = [reverse(q, 0, 0 + n) EXCEPT ![0 + n] = NUL]
    BY <1>1 DEF itoa, n
  <2>3. QED
    BY <2>1, <2>2
<1>5. q = [i \in 0 .. 3 |-> IF i \in 0 .. (n - 1) THEN Zero + (left(v, i - 0) % 10) ELSE m[i]]
  <2>1. q = [i \in DOMAIN m |-> IF i \in 0 .. (0 + n - 1)
                                THEN Zero + (left(v, i - 0) % 10) ELSE m[i]]
    BY Zenon DEF populate, n
  <2> HIDE DEF q
  <2>2. 0 + n - 1 = n - 1
    BY <1>2
  <2>3. QED
    BY <1>3, <2>1, <2>2
<1> HIDE DEF q
<1>6. left(v, 0) = v /\ left(v, 1) = v \div 10
  BY <1>1, LeftOf
<1> DEFINE Swap(x, r) == [x EXCEPT ![r] = x[n - r - 1], ![n - r - 1] = x[r]]
           body(s) == [k \in 0 .. (n \div 2) |->
                         IF k = 0 THEN q ELSE Swap(s[k - 1], 0 + k - 1)]
           w == CHOOSE s : s = body(s)
<1>7. reverse(q, 0, n) = w[n \div 2]
  BY DEF reverse
<1>8. CASE v < 10
  <2>1. n = 1 /\ 1 \div 2 = 0
    BY <1>2, <1>8
  <2>2. \E s : s = body(s)
    <3>1. [k \in 0 .. 0 |-> q] = body([k \in 0 .. 0 |-> q])
      BY <2>1
    <3>2. QED
      BY <3>1
  <2>3. w = body(w)
    BY <2>2
  <2> HIDE DEF w
  <2>4. w[0] = q
    BY <2>1, <2>3
  <2>5. reverse(q, 0, n) = q
    BY <1>7, <2>1, <2>4
  <2>6. q = [i \in 0 .. 3 |-> IF i = 0 THEN Zero + v ELSE m[i]]
    <3>1. v % 10 = v
      BY <1>8
    <3>2. \A i \in 0 .. 3 : i \in 0 .. (1 - 1) <=> i = 0
      OBVIOUS
    <3>3. 0 - 0 = 0
      OBVIOUS
    <3>4. QED
      BY <1>5, <1>6, <2>1, <3>1, <3>2, <3>3
  <2>7. [q EXCEPT ![1] = NUL] = OneDigit(v, m)
    BY <2>6 DEF OneDigit
  <2>8. QED
    BY <1>4, <1>8, <2>1, <2>5, <2>7
<1>9. CASE ~(v < 10)
  <2>1. n = 2 /\ 2 \div 2 = 1
    BY <1>2, <1>9
  <2>2. q = [i \in 0 .. 3 |-> IF i = 0 THEN Zero + (v % 10)
                              ELSE IF i = 1 THEN Zero + (v \div 10) ELSE m[i]]
    <3>1. (v \div 10) % 10 = v \div 10
      OBVIOUS
    <3>2. \A i \in 0 .. 3 : i \in 0 .. (2 - 1) <=> i = 0 \/ i = 1
      OBVIOUS
    <3>3. 0 - 0 = 0 /\ 1 - 0 = 1
      OBVIOUS
    <3>4. \A i \in 0 .. 3 : q[i] = IF i = 0 THEN Zero + (v % 10)
                                   ELSE IF i = 1 THEN Zero + (v \div 10) ELSE m[i]
      BY <1>5, <1>6, <2>1, <3>1, <3>2, <3>3
    <3>5. QED
      BY <1>5, <3>4
  <2> DEFINE u == [q EXCEPT ![0] = q[1], ![1] = q[0]]
  <2>3. Swap(q, 0) = u
    <3>1. n - 0 - 1 = 1
      BY <2>1
    <3>2. QED
      BY <3>1
  <2>4. \E s : s = body(s)
    <3> DEFINE z == [k \in 0 .. 1 |-> IF k = 0 THEN q ELSE u]
    <3>1. ASSUME NEW k \in 0 .. 1
          PROVE  z[k] = IF k = 0 THEN q ELSE Swap(z[k - 1], 0 + k - 1)
      <4>1. CASE k = 0
        BY <4>1
      <4>2. CASE k = 1
        <5>1. 0 + k - 1 = 0 /\ k - 1 = 0 /\ z[0] = q /\ z[k] = u
          BY <4>2
        <5> HIDE DEF z, u
        <5>2. QED
          BY <2>3, <4>2, <5>1
      <4>3. QED
        BY <4>1, <4>2
    <3>2. z = body(z)
      BY <2>1, <3>1
    <3>3. QED
      BY <3>2
  <2>5. w = body(w)
    BY <2>4
  <2> HIDE DEF w
  <2>6. w[0] = q /\ w[1] = Swap(w[1 - 1], 0 + 1 - 1)
    BY <2>1, <2>5
  <2>7. w[1] = u
    <3>1. 1 - 1 = 0 /\ 0 + 1 - 1 = 0
      OBVIOUS
    <3>2. w[1] = Swap(q, 0)
      BY <2>6, <3>1
    <3>3. QED
      BY <2>3, <3>2
  <2>8. reverse(q, 0, n) = u
    BY <1>7, <2>1, <2>7
  <2>9. [u EXCEPT ![2] = NUL] = TwoDigits(v, m)
    BY <2>2 DEF TwoDigits
  <2>10. QED
    BY <1>4, <1>9, <2>1, <2>8, <2>9
<1>10. QED
  BY <1>8, <1>9

(* atoi of one or two digits.                                              *)
LEMMA AtoiOf ==
  ASSUME NEW m \in Bytes, NEW len \in 1 .. 2, strlen(m) = len
  PROVE  atoi(m) = IF len = 1 THEN m[0] - Zero
                   ELSE (m[1] - Zero) + 10 * (m[0] - Zero)
<1> DEFINE D == 0 .. len
           mbody(f) == [i \in D |-> IF i = 0 THEN 1 ELSE f[i - 1] * 10]
           mult == CHOOSE f : f = mbody(f)
           rbody(f) == [i \in D |-> IF i = 0 THEN 0
                                    ELSE f[i - 1] + mult[i - 1] * (m[len - i] - Zero)]
           res == CHOOSE f : f = rbody(f)
<1>1. \A i \in 0 .. 3 : m[i] \in Int
  BY DEF Bytes
<1>2. Zero \in Int
  BY DEF Zero
<1>3. atoi(m) = res[len]
  BY DEF atoi
<1>4. mult = mbody(mult)
  <2> DEFINE z == [i \in D |-> IF i = 0 THEN 1 ELSE IF i = 1 THEN 10 ELSE 100]
  <2>1. ASSUME NEW i \in D PROVE z[i] = IF i = 0 THEN 1 ELSE z[i - 1] * 10
    <3>1. i = 0 \/ i = 1 \/ i = 2
      OBVIOUS
    <3>2. CASE i = 0
      BY <3>2
    <3>3. CASE i = 1
      BY <3>3
    <3>4. CASE i = 2
      BY <3>4
    <3>5. QED
      BY <3>1, <3>2, <3>3, <3>4
  <2>2. z = mbody(z)
    BY <2>1
  <2> HIDE DEF z
  <2>3. QED
    BY <2>2
<1> HIDE DEF mult
<1>5. mult[0] = 1 /\ (len = 2 => mult[1] = 10)
  <2>1. mult[0] = 1
    BY <1>4
  <2>2. mult[1] = mult[0] * 10
    <3>1. 1 \in D /\ 1 # 0 /\ 1 - 1 = 0
      OBVIOUS
    <3>2. mult[1] = mult[1 - 1] * 10
      BY <1>4, <3>1
    <3>3. QED
      BY <3>1, <3>2
  <2>3. QED
    BY <2>1, <2>2
<1> DEFINE a == 1 * (m[len - 1] - Zero)
           b == 10 * (m[len - 2] - Zero)
<1>6. res = rbody(res)
  <2> DEFINE z == [i \in D |-> IF i = 0 THEN 0 ELSE IF i = 1 THEN 0 + a ELSE (0 + a) + b]
  <2>1. ASSUME NEW i \in D
        PROVE  z[i] = IF i = 0 THEN 0 ELSE z[i - 1] + mult[i - 1] * (m[len - i] - Zero)
    <3>1. i = 0 \/ i = 1 \/ (i = 2 /\ len = 2)
      OBVIOUS
    <3>2. CASE i = 0
      BY <3>2
    <3>3. CASE i = 1
      <4>1. i - 1 = 0 /\ z[0] = 0 /\ z[i] = 0 + a /\ mult[i - 1] = 1
        BY <1>5, <3>3
      <4> HIDE DEF z
      <4>2. QED
        BY <3>3, <4>1
    <3>4. CASE i = 2 /\ len = 2
      <4>1. i - 1 = 1 /\ z[1] = 0 + a /\ z[i] = (0 + a) + b /\ mult[i - 1] = 10
        BY <1>5, <3>4
      <4> HIDE DEF z, a
      <4>2. QED
        BY <3>4, <4>1
    <3>5. QED
      BY <3>1, <3>2, <3>3, <3>4
  <2>2. z = rbody(z)
    BY <2>1
  <2> HIDE DEF z
  <2>3. QED
    BY <2>2
<1> HIDE DEF res
<1>7. \A i \in D : i # 0 => res[i] = res[i - 1] + mult[i - 1] * (m[len - i] - Zero)
  BY <1>6
<1>8. res[0] = 0
  BY <1>6
<1>9. res[1] = a /\ a \in Int
  <2>1. 1 \in D /\ 1 # 0 /\ 1 - 1 = 0
    OBVIOUS
  <2>2. res[1] = res[1 - 1] + mult[1 - 1] * (m[len - 1] - Zero)
    BY <1>7, <2>1
  <2>3. m[len - 1] \in Int
    BY <1>1
  <2>4. QED
    BY <1>2, <1>5, <1>8, <2>1, <2>2, <2>3
<1>10. CASE len = 1
  BY <1>1, <1>2, <1>3, <1>9, <1>10
<1>11. CASE len = 2
  <2>1. 2 \in D /\ 2 # 0 /\ 2 - 1 = 1
    BY <1>11
  <2>2. res[2] = res[2 - 1] + mult[2 - 1] * (m[len - 2] - Zero)
    BY <1>7, <2>1
  <2>3. res[2] = a + 10 * (m[0] - Zero) /\ a = 1 * (m[1] - Zero)
    BY <1>5, <1>9, <1>11, <2>1, <2>2
  <2>4. m[0] \in Int /\ m[1] \in Int
    BY <1>1
  <2>5. QED
    BY <1>2, <1>3, <1>11, <2>3, <2>4
<1>12. QED
  BY <1>10, <1>11

(* What itoa writes into the buffer of kernel_main.                        *)
LEMMA Printed ==
  ASSUME NEW byte \in Int, NEW v \in 0 .. 99
  PROVE  /\ StringAt(itoa(v, Buffer(byte))) \in Seq(Int)
         /\ v # 0 => atoi(itoa(v, Buffer(byte))) = v
<1> DEFINE m == Buffer(byte)
           x == itoa(v, m)
<1>1. m \in Bytes /\ m[3] = NUL
  BY DEF Buffer, Bytes, NUL
<1>2. CASE v = 0
  <2>1. x = [m EXCEPT ![0] = Zero]
    BY <1>2 DEF itoa
  <2> HIDE DEF m, x
  <2>2. x \in Bytes /\ x[3] = NUL
    BY <1>1, <2>1 DEF Bytes, Zero
  <2>3. StringAt(x) \in Seq(Int)
    BY <2>2, StrlenOf
  <2>4. QED
    BY <1>2, <2>3 DEF x, m
<1>3. CASE v # 0
  <2>1. v \in 1 .. 99
    BY <1>3
  <2>2. x = IF v < 10 THEN OneDigit(v, m) ELSE TwoDigits(v, m)
    <3> HIDE DEF m
    <3>1. QED
      BY <1>1, <2>1, ItoaOf
  <2> HIDE DEF m, x
  <2>3. CASE v < 10
    <3>1. x \in Bytes /\ x[0] = Zero + v /\ x[1] = NUL /\ x[3] = NUL
      BY <1>1, <2>1, <2>2, <2>3 DEF OneDigit, Bytes, Zero, NUL
    <3>2. x[0] # NUL
      BY <2>1, <3>1 DEF Zero, NUL
    <3>3. /\ strlen(x) \in 0 .. 3 /\ x[strlen(x)] = NUL /\ strlen(x) <= 1
          /\ StringAt(x) \in Seq(Int)
      BY <3>1, StrlenOf
    <3>4. strlen(x) = 1
      <4> DEFINE n == strlen(x)
      <4>1. n \in 0 .. 3 /\ x[n] = NUL /\ n <= 1
        BY <3>3
      <4> HIDE DEF n
      <4>2. n = 1
        BY <3>2, <4>1
      <4>3. QED
        BY <4>2 DEF n
    <3>5. atoi(x) = x[0] - Zero
      <4>1. 1 \in 1 .. 2
        OBVIOUS
      <4>2. QED
        BY <3>1, <3>4, <4>1, AtoiOf
    <3>6. atoi(x) = v
      BY <2>1, <3>1, <3>5 DEF Zero
    <3>7. QED
      BY <3>3, <3>6 DEF x, m
  <2>4. CASE ~(v < 10)
    <3>1. /\ x \in Bytes /\ x[0] = Zero + (v \div 10) /\ x[1] = Zero + (v % 10)
          /\ x[2] = NUL /\ x[3] = NUL
      <4>1. v \div 10 \in Int /\ v % 10 \in Int
        BY <2>1
      <4>2. QED
        BY <1>1, <2>2, <2>4, <4>1 DEF TwoDigits, Bytes, Zero, NUL
    <3>2. x[0] # NUL /\ x[1] # NUL
      BY <2>1, <3>1 DEF Zero, NUL
    <3>3. /\ strlen(x) \in 0 .. 3 /\ x[strlen(x)] = NUL /\ strlen(x) <= 2
          /\ StringAt(x) \in Seq(Int)
      BY <3>1, StrlenOf
    <3>4. strlen(x) = 2
      <4> DEFINE n == strlen(x)
      <4>1. n \in 0 .. 3 /\ x[n] = NUL /\ n <= 2
        BY <3>3
      <4> HIDE DEF n
      <4>2. n = 2
        BY <3>2, <4>1
      <4>3. QED
        BY <4>2 DEF n
    <3>5. atoi(x) = (x[1] - Zero) + 10 * (x[0] - Zero)
      <4>1. 2 \in 1 .. 2 /\ 2 # 1
        OBVIOUS
      <4>2. QED
        BY <3>1, <3>4, <4>1, AtoiOf
    <3>6. atoi(x) = v
      BY <2>1, <3>1, <3>5 DEF Zero
    <3>7. QED
      BY <3>3, <3>6 DEF x, m
  <2>5. QED
    BY <2>3, <2>4
<1>4. QED
  BY <1>2, <1>3

----------------------------------------------------------------------------
(* What kernel_main and the handlers print.                                *)

ScreenInv ==
  /\ term \in Screens
  /\ filesize \in FileSizes /\ fileflags \in FileFlags
  /\ PrintedSizeReadsBack

LEMMA TextsAreStrings ==
  /\ Welcome \in Seq(Int) /\ FsName \in Seq(Int) /\ OpenedRoot \in Seq(Int)
  /\ OpenedDir \in Seq(Int) /\ Stat \in Seq(Int) /\ ClosedRoot \in Seq(Int)
  /\ ClosedDir \in Seq(Int) /\ KeyPressed \in Seq(Int) /\ DivideByZero \in Seq(Int)
  /\ InvalidLimit \in Seq(Int) /\ <<NewLine>> \in Seq(Int)
  /\ \A c \in Int : Content(c) \in Seq(Int)
  BY DEF Welcome, FsName, OpenedRoot, OpenedDir, Stat, ClosedRoot, ClosedDir, KeyPressed,
         DivideByZero, InvalidLimit, Content, Line, NewLine

LEMMA Joined == \A s \in Seq(Int), t \in Seq(Int) : s \o t \in Seq(Int)
  OBVIOUS

\* A step that prints, or not, and leaves the file and its size as they are.
LEMMA PrintStep ==
  ASSUME ScreenInv, UNCHANGED <<filesize, fileflags, fsizebuf>>, term' \in Screens
  PROVE  ScreenInv'
  BY DEF ScreenInv, PrintedSizeReadsBack

LEMMA ReadRootPrints ==
  ASSUME StatFits, ScreenInv, NEW byte \in StackBytes, read_root_file(byte)
  PROVE  ScreenInv'
<1> DEFINE size  == itoa(filesize, Buffer(byte))
           flags == itoa(fileflags, Buffer(byte))
           s1 == StringAt(size)
           s2 == StringAt(flags)
           text == Content(13) \o Stat \o s1 \o <<NewLine>> \o s2 \o <<NewLine>> \o ClosedRoot
<1>1. /\ fsizebuf' = size /\ term' = terminal_write(term, text)
      /\ filesize' = filesize /\ fileflags' = fileflags
  BY DEF read_root_file, found
<1>2. byte \in Int /\ filesize \in 0 .. 99 /\ filesize # 0 /\ fileflags \in 0 .. 99
  BY BootAssumption DEF StatFits, ScreenInv
<1>3. s1 \in Seq(Int) /\ atoi(size) = filesize
  BY <1>2, Printed
<1>4. s2 \in Seq(Int)
  BY <1>2, Printed
<1>5. text \in Seq(Int)
  <2> HIDE DEF s1, s2
  <2>1. Content(13) \in Seq(Int) /\ Stat \in Seq(Int) /\ <<NewLine>> \in Seq(Int)
        /\ ClosedRoot \in Seq(Int)
    BY TextsAreStrings
  <2>2. (Content(13) \o Stat) \o s1 \in Seq(Int)
    BY <1>3, <2>1, Joined
  <2>3. (((Content(13) \o Stat) \o s1) \o <<NewLine>>) \o s2 \in Seq(Int)
    BY <1>4, <2>1, <2>2, Joined
  <2>4. QED
    BY <2>1, <2>3, Joined
<1> HIDE DEF text, size
<1>6. term' \in Screens
  BY <1>1, <1>5, WriteScreen DEF ScreenInv
<1>7. PrintedSizeReadsBack'
  BY <1>1, <1>3 DEF PrintedSizeReadsBack
<1>8. QED
  BY <1>1, <1>6, <1>7 DEF ScreenInv

LEMMA ScreenStep ==
  ASSUME StatFits, ScreenInv, [Next]_vars
  PROVE  ScreenInv'
<1>1. term \in Screens
  BY DEF ScreenInv
<1>2. ASSUME NEW string \in Seq(Int) PROVE terminal_write(term, string) \in Screens
  BY <1>1, WriteScreen
<1>3. CASE \E byte \in StackBytes : read_root_file(byte)
  BY <1>3, ReadRootPrints
<1>4. CASE start_terminal
  <2> DEFINE t == terminal_set_colour(terminal_initialise, VGA_COLOUR_LIGHT_GREEN)
  <2>1. VGA_COLOUR_LIGHT_GREEN \in Int
    BY DEF VGA_COLOUR_LIGHT_GREEN
  <2>2. t \in Screens
    BY <2>1, InitialScreen, ColourScreen
  <2>3. term' = terminal_write(t, Welcome) /\ UNCHANGED <<filesize, fileflags, fsizebuf>>
    BY <1>4 DEF start_terminal, found
  <2> HIDE DEF t
  <2>4. term' \in Screens
    BY <2>2, <2>3, WriteScreen, TextsAreStrings
  <2>5. QED
    BY <2>3, <2>4, PrintStep
<1>5. CASE load_gdt
  <2> DEFINE t == terminal_set_colour(term, VGA_COLOUR_RED)
  <2>1. VGA_COLOUR_RED \in Int
    BY DEF VGA_COLOUR_RED
  <2>2. t \in Screens
    BY <1>1, <2>1, ColourScreen
  <2>3. /\ term' = terminal_write(t, InvalidLimit) \/ term' = term
        /\ UNCHANGED <<filesize, fileflags, fsizebuf>>
    BY <1>5 DEF load_gdt, panic, found
  <2> HIDE DEF t
  <2>4. term' \in Screens
    BY <1>1, <2>2, <2>3, WriteScreen, TextsAreStrings
  <2>5. QED
    BY <2>3, <2>4, PrintStep
<1>6. CASE fs_init \/ open_root_file \/ open_dir_file \/ idt_zero \/ int21h_handler
  <2>1. /\ \/ term' = terminal_write(term, FsName) \/ term' = terminal_write(term, OpenedRoot)
           \/ term' = terminal_write(term, OpenedDir) \/ term' = term
           \/ term' = terminal_write(term, DivideByZero)
           \/ term' = terminal_write(term, KeyPressed)
        /\ UNCHANGED <<filesize, fileflags, fsizebuf>>
    BY <1>6 DEF fs_init, open_root_file, open_dir_file, idt_zero, int21h_handler, found
  <2>2. term' \in Screens
    BY <1>1, <1>2, <2>1, TextsAreStrings
  <2>3. QED
    BY <2>1, <2>2, PrintStep
<1>7. CASE read_dir_file
  <2> DEFINE text == Content(14) \o Content(15) \o ClosedDir
  <2>1. term' = terminal_write(term, text) /\ UNCHANGED <<filesize, fileflags, fsizebuf>>
    BY <1>7 DEF read_dir_file, found
  <2>2. text \in Seq(Int)
    <3>1. 14 \in Int /\ 15 \in Int
      OBVIOUS
    <3>2. Content(14) \in Seq(Int) /\ Content(15) \in Seq(Int) /\ ClosedDir \in Seq(Int)
      BY <3>1, TextsAreStrings, Zenon
    <3>3. QED
      BY <3>2, Joined
  <2> HIDE DEF text
  <2>3. term' \in Screens
    BY <1>2, <2>1, <2>2
  <2>4. QED
    BY <2>1, <2>3, PrintStep
<1>8. CASE UNCHANGED <<term, filesize, fileflags, fsizebuf>>
  <2>1. term' \in Screens
    BY <1>1, <1>8
  <2>2. QED
    BY <1>8, <2>1, PrintStep
<1>9. CASE kernel_main
  <2>1. CASE idt_init \/ tss_load \/ use_disk \/ enable_interrupts
    BY <1>8, <2>1 DEF idt_init, tss_load, use_disk, enable_interrupts, found
  <2>2. QED
    BY <1>3, <1>4, <1>5, <1>6, <1>7, <1>9, <2>1 DEF kernel_main
<1>10. CASE Handlers
  <2>1. CASE \/ no_interrupt_handler \/ isr_exit \/ isr_entry("int21h", "int21h_handler")
             \/ isr_entry("no_interrupt", "no_interrupt_handler")
    BY <1>8, <2>1 DEF no_interrupt_handler, isr_exit, isr_entry, found
  <2>2. QED
    BY <1>6, <1>10, <2>1 DEF Handlers
<1>11. CASE \/ DivideError \/ RaiseDrive \/ Astray \/ UNCHANGED vars
            \/ \E line \in {TIMER, KEYBOARD, CASCADE} : Accept(line)
            \/ \E line \in {TIMER, KEYBOARD} : Raise(line)
  BY <1>8, <1>11 DEF DivideError, RaiseDrive, Astray, Accept, Raise, vars, found
<1>12. QED
  BY <1>9, <1>10, <1>11 DEF Next

LEMMA ScreenAlways ==
  ASSUME StatFits
  PROVE  Spec => []ScreenInv
<1>1. Init => ScreenInv
  BY InitialScreen DEF Init, ScreenInv, PrintedSizeReadsBack
<1>2. ScreenInv /\ [Next]_vars => ScreenInv'
  BY ScreenStep
<1>3. QED
  BY <1>1, <1>2, PTL DEF Spec

(* On a screen of any size the cursor stays on it, and it shows all that   *)
(* was written since it was cleared, in order, whatever kernel_main and    *)
(* the interrupts print, as long as the numbers fit their buffers.         *)
THEOREM BootScreenShowsText ==
  ASSUME StatFits
  PROVE  Spec => []ScreenShowsText
<1>1. ScreenInv => ScreenShowsText
  <2> SUFFICES ASSUME term \in Screens PROVE ScreenShowsText
    BY DEF ScreenInv
  <2>1. /\ term.row \in 0 .. (VGA_HEIGHT - 1) /\ term.column \in 0 .. (VGA_WIDTH - 1)
        /\ Shown(term.buffer)[Size] = term.text
    BY ScreenFields
  <2>2. OnScreen(term) = Shown(term.buffer)[Size]
    BY DEF OnScreen, Shown, Size
  <2>3. QED
    BY <2>1, <2>2, TerminalAssumption DEF ScreenShowsText
<1>2. QED
  BY <1>1, ScreenAlways, PTL

(* Whatever the stack held, itoa into the three bytes of kernel_main gives *)
(* digits that atoi reads as the size, for every size of one or two digits.*)
THEOREM BootPrintedSizeReadsBack ==
  ASSUME StatFits
  PROVE  Spec => []PrintedSizeReadsBack
<1>1. ScreenInv => PrintedSizeReadsBack
  BY DEF ScreenInv
<1>2. QED
  BY <1>1, ScreenAlways, PTL

============================================================================
