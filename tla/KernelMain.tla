----------------------------- MODULE KernelMain -----------------------------
(***************************************************************************)
(* kernel/kernel.cpp from its first line to the idle loop of kernel.asm,   *)
(* and the interrupts that are taken there: idt.cpp, idt.asm, the          *)
(* interrupt flag and the interrupt controller (external).                 *)
(*                                                                         *)
(* The heap, the page directory, the disk and the files that kernel_main   *)
(* uses are the subject of the other modules; here a volume is what        *)
(* kernel_main finds on it.  A text is a short sequence of characters.     *)
(***************************************************************************)
EXTENDS Terminal, Gdt, LibC, FiniteSets

CONSTANTS
  Volumes,     \* [root, dir, sectors_per_cluster]: which files it has; dir is
               \* "absent" (no directory or an empty one), "no file" or "file"
  FileSizes,   \* sizes of the file in the root
  FileFlags,   \* what stat.flags may hold: it is set for a read-only file only
  StackBytes,  \* what an uninitialised byte of the stack may hold
  TssBases,    \* where the linker may put the tss
  MaxStack     \* bound on the counted words of the stack

sizeof_tss == 100

ASSUME BootAssumption ==
  /\ TssBases \subseteq 0 .. UINT32_MAX
  /\ sizeof_tss <= UINT16_MAX
  /\ MaxStack \in Nat /\ MaxStack >= 3
  /\ StackBytes \subseteq Int

VARIABLES
  pc,          \* the next statement of kernel_main
  term,
  gdt, tr, idt,
  esp,         \* words that interrupts have pushed
  frames,      \* the interrupt handlers in progress, innermost last
  IF_flag,     \* the interrupt flag
  irr, isr,    \* master PIC: lines requested, lines in service
  slave,       \* slave PIC, line 14: "quiet", "requested" or "in service"
  volume, filesize, fileflags,
  tss,         \* base of the TSS
  fsizebuf     \* the buffer of itoa and the byte behind it

cpu   == <<esp, frames, IF_flag>>
pic   == <<irr, isr, slave>>
found == <<volume, filesize, fileflags, tss>>
vars  == <<pc, term, gdt, tr, idt, cpu, pic, found, fsizebuf>>

----------------------------------------------------------------------------
(* Texts, shortened to a letter or a letter for each word.                 *)

Line(c) == <<c, NewLine>>

Welcome      == <<1, 16, 17, NewLine>>
FsName       == <<2>>
OpenedRoot   == Line(3)
OpenedDir    == Line(4)
Content(c)   == <<5, c, NewLine>>
Stat         == <<6>>
ClosedRoot   == Line(7)
ClosedDir    == Line(8)
KeyPressed   == <<9, 18, NewLine>>
DivideByZero == Line(11)
InvalidLimit == <<12>>

(* The lines of the master PIC.                                            *)
TIMER    == 0
KEYBOARD == 1
CASCADE  == 2

\* The master PIC starts at 0x20; the slave is where the BIOS put it, so
\* that its line 14 is 0x76.
Vector(line) == IF line = CASCADE THEN 118 ELSE 32 + line

KERNEL_CODE_SELECTOR == 8
KERNEL_DATA_SELECTOR == 16
USER_CODE_SEGMENT    == 27
USER_DATA_SEGMENT    == 35
TSS_SELECTOR         == 40

----------------------------------------------------------------------------
(* The stack is set up in _start, with interrupts off since the boot       *)
(* loader's cli.                                                           *)
Init ==
  /\ pc = "terminal"
  /\ term = terminal_initialise
  /\ gdt = << >>
  /\ tr = 0
  /\ idt = << >>
  /\ esp = 0
  /\ frames = << >>
  /\ IF_flag = FALSE
  /\ irr = {}
  /\ isr = {}
  /\ slave = "quiet"
  /\ volume \in Volumes
  /\ filesize \in FileSizes
  /\ fileflags \in FileFlags
  /\ tss \in TssBases
  /\ fsizebuf = << >>

At(here) == pc = here /\ frames = << >>

start_terminal ==
  /\ At("terminal")
  /\ term' = terminal_write(terminal_set_colour(terminal_initialise, VGA_COLOUR_LIGHT_GREEN),
                            Welcome)
  /\ pc' = "gdt"
  /\ UNCHANGED <<gdt, tr, idt, cpu, pic, found, fsizebuf>>

structured_gdt ==
  [entry \in 0 .. 5 |->
     CASE entry = 0 -> [base |-> 0, limit |-> 0, access |-> 0]
       [] entry = 1 -> [base |-> 0, limit |-> UINT32_MAX, access |-> 154]
       [] entry = 2 -> [base |-> 0, limit |-> UINT32_MAX, access |-> 146]
       [] entry = 3 -> [base |-> 0, limit |-> UINT32_MAX, access |-> 248]
       [] entry = 4 -> [base |-> 0, limit |-> UINT32_MAX, access |-> 242]
       [] entry = 5 -> [base |-> tss, limit |-> sizeof_tss, access |-> 233]]

panic(message) ==
  /\ term' = terminal_write(terminal_set_colour(term, VGA_COLOUR_RED), message)
  /\ pc' = "panic"

load_gdt ==
  /\ At("gdt")
  /\ IF \E entry \in 0 .. 5 : invalid_limit(structured_gdt[entry])
     THEN panic(InvalidLimit) /\ UNCHANGED gdt
     ELSE /\ gdt' = structured_gdt_to_gdt(structured_gdt)
          /\ pc' = "idt"
          /\ UNCHANGED term
  /\ UNCHANGED <<tr, idt, cpu, pic, found, fsizebuf>>

\* Only the vectors that occur are written down.
idt_init ==
  /\ At("idt")
  /\ idt' = [v \in {0, 32, 33, 118} |->
               IF v = 0 THEN "idt_zero" ELSE IF v = 33 THEN "int21h" ELSE "no_interrupt"]
  /\ pc' = "tss"
  /\ UNCHANGED <<term, gdt, tr, cpu, pic, found, fsizebuf>>

tss_load ==
  /\ At("tss")
  /\ tr' = TSS_SELECTOR
  /\ pc' = "fs"
  /\ UNCHANGED <<term, gdt, idt, cpu, pic, found, fsizebuf>>

\* kheap_init, then fs::init, which prints the name of the file system.
fs_init ==
  /\ At("fs")
  /\ term' = terminal_write(term, FsName)
  /\ pc' = "disk"
  /\ UNCHANGED <<gdt, tr, idt, cpu, pic, found, fsizebuf>>

\* Paging, and the first reads from the disk.
use_disk ==
  /\ At("disk")
  /\ pc' = "root file"
  /\ UNCHANGED <<term, gdt, tr, idt, cpu, pic, found, fsizebuf>>

open_root_file ==
  /\ At("root file")
  /\ IF volume.root
     THEN term' = terminal_write(term, OpenedRoot) /\ pc' = "read root file"
     ELSE UNCHANGED term /\ pc' = "dir file"
  /\ UNCHANGED <<gdt, tr, idt, cpu, pic, found, fsizebuf>>

\* Reading a file or the entries of a directory divides by the size of a cluster.
Divides ==
  \/ pc \in {"read root file", "read dir file"}
  \/ pc = "dir file" /\ volume.dir # "absent"

DividesByZero == Divides /\ volume.sectors_per_cluster = 0

\* Room for itoa: three bytes of a buffer and what follows it.
Buffer(byte) == [i \in 0 .. 3 |-> IF i < 3 THEN byte ELSE NUL]

read_root_file(byte) ==
  /\ At("read root file")
  /\ ~DividesByZero
  /\ \E size \in {itoa(filesize, Buffer(byte))}, flags \in {itoa(fileflags, Buffer(byte))} :
       /\ fsizebuf' = size
       /\ \E text \in {Content(13) \o Stat \o StringAt(size) \o <<NewLine>>
                          \o StringAt(flags) \o <<NewLine>> \o ClosedRoot} :
            term' = terminal_write(term, text)
  /\ pc' = "dir file"
  /\ UNCHANGED <<gdt, tr, idt, cpu, pic, found>>

open_dir_file ==
  /\ At("dir file")
  /\ ~DividesByZero
  /\ IF volume.dir = "file"
     THEN term' = terminal_write(term, OpenedDir) /\ pc' = "read dir file"
     ELSE UNCHANGED term /\ pc' = "enable interrupts"
  /\ UNCHANGED <<gdt, tr, idt, cpu, pic, found, fsizebuf>>

\* A part of the file, then the part one byte behind it.
read_dir_file ==
  /\ At("read dir file")
  /\ ~DividesByZero
  /\ term' = terminal_write(term, Content(14) \o Content(15) \o ClosedDir)
  /\ pc' = "enable interrupts"
  /\ UNCHANGED <<gdt, tr, idt, cpu, pic, found, fsizebuf>>

\* kernel_main returns to an endless jump.
enable_interrupts ==
  /\ At("enable interrupts")
  /\ IF_flag' = TRUE
  /\ pc' = "idle"
  /\ UNCHANGED <<term, gdt, tr, idt, esp, frames, pic, found, fsizebuf>>

kernel_main ==
  \/ start_terminal \/ load_gdt \/ idt_init \/ tss_load \/ fs_init \/ use_disk
  \/ open_root_file \/ open_dir_file \/ read_dir_file \/ enable_interrupts
  \/ \E byte \in StackBytes : read_root_file(byte)

----------------------------------------------------------------------------
(* Interrupts.                                                             *)

\* The gates are interrupt gates: the processor pushes eflags, cs and eip
\* and clears the flag.
Enter(vector) ==
  /\ frames' = Append(frames, [vector |-> vector, at |-> idt[vector]])
  /\ esp' = Min({esp + 3, MaxStack})
  /\ IF_flag' = FALSE

Proceed(at) == frames' = [frames EXCEPT ![Len(frames)].at = at]

Running(at) == frames # << >> /\ Last(frames).at = at

DivideError ==
  /\ frames = << >>
  /\ DividesByZero
  /\ Enter(0)
  /\ UNCHANGED <<pc, term, gdt, tr, idt, pic, found, fsizebuf>>

\* idt_zero is a function and returns with ret: of the three words only eip
\* leaves the stack, and the division is next.  It finds its operands by esp
\* and in registers that idt_zero has used, so it may fail again, or go on with
\* a stack that is not that of its function.
idt_zero ==
  /\ Running("idt_zero")
  /\ term' = terminal_write(term, DivideByZero)
  /\ frames' = Front(frames)
  /\ esp' = esp - 1
  /\ pc' \in {pc, "astray"}
  /\ UNCHANGED <<gdt, tr, idt, IF_flag, pic, found, fsizebuf>>

\* What the code does there is not modelled.
Astray == pc = "astray" /\ UNCHANGED vars

\* Line 2 is taken to the processor by the slave.
Accept(line) ==
  /\ IF_flag
  /\ line \in irr
  /\ \A other \in irr \cup isr : line <= other
  /\ line \notin isr
  /\ irr' = irr \ {line}
  /\ isr' = isr \cup {line}
  /\ slave' = IF line = CASCADE THEN "in service" ELSE slave
  /\ Enter(Vector(line))
  /\ UNCHANGED <<pc, term, gdt, tr, idt, found, fsizebuf>>

pushad == 8

isr_entry(stub, handler) ==
  /\ Running(stub)
  /\ IF_flag' = FALSE
  /\ esp' = esp + pushad
  /\ Proceed(handler)
  /\ UNCHANGED <<pc, term, gdt, tr, idt, pic, found, fsizebuf>>

\* The end-of-interrupt command goes to the master only and ends the line
\* of the highest priority in service.
EOI ==
  /\ isr' = isr \ {line \in isr : \A other \in isr : line <= other}
  /\ UNCHANGED <<irr, slave>>

int21h_handler ==
  /\ Running("int21h_handler")
  /\ term' = terminal_write(term, KeyPressed)
  /\ EOI
  /\ Proceed("iret")
  /\ UNCHANGED <<pc, gdt, tr, idt, esp, IF_flag, found, fsizebuf>>

\* A mutant does not end the interrupt.
no_interrupt_handler_noeoi ==
  /\ Running("no_interrupt_handler")
  /\ Proceed("iret")
  /\ UNCHANGED <<pc, term, gdt, tr, idt, esp, IF_flag, pic, found, fsizebuf>>

no_interrupt_handler ==
  /\ Running("no_interrupt_handler")
  /\ EOI
  /\ Proceed("iret")
  /\ UNCHANGED <<pc, term, gdt, tr, idt, esp, IF_flag, found, fsizebuf>>

\* A mutant returns as a function does.
isr_exit_ret ==
  /\ Running("iret")
  /\ IF_flag' = TRUE
  /\ esp' = esp - pushad - 1
  /\ frames' = Front(frames)
  /\ UNCHANGED <<pc, term, gdt, tr, idt, pic, found, fsizebuf>>

\* popad, sti and iret.  sti takes effect after the instruction that follows.
isr_exit ==
  /\ Running("iret")
  /\ IF_flag' = TRUE
  /\ esp' = esp - pushad - 3
  /\ frames' = Front(frames)
  /\ UNCHANGED <<pc, term, gdt, tr, idt, pic, found, fsizebuf>>

Handlers ==
  \/ idt_zero \/ int21h_handler \/ no_interrupt_handler \/ isr_exit
  \/ isr_entry("int21h", "int21h_handler")
  \/ isr_entry("no_interrupt", "no_interrupt_handler")

\* A tick comes later than the end of the handler of the tick before.
Raise(line) ==
  /\ line \notin irr
  /\ line = TIMER => \A i \in DOMAIN frames : frames[i].vector # Vector(TIMER)
  /\ irr' = irr \cup {line}
  /\ UNCHANGED <<pc, term, gdt, tr, idt, cpu, isr, slave, found, fsizebuf>>

\* A sector that has been read; the slave asks once, as it is never told of
\* the end of the interrupt.
RaiseDrive ==
  /\ pc \in {"root file", "read root file", "dir file", "read dir file"}
  /\ slave = "quiet"
  /\ slave' = "requested"
  /\ irr' = irr \cup {CASCADE}
  /\ UNCHANGED <<pc, term, gdt, tr, idt, cpu, isr, found, fsizebuf>>

Next ==
  \/ kernel_main
  \/ DivideError
  \/ Astray
  \/ Handlers
  \/ \E line \in {TIMER, KEYBOARD, CASCADE} : Accept(line)
  \/ \E line \in {TIMER, KEYBOARD} : Raise(line)
  \/ RaiseDrive

(* The processor goes on while it can.  A key is not overtaken by ticks    *)
(* for ever: between two of them it finds the flag set many times.         *)
Fairness ==
  /\ WF_vars(kernel_main)
  /\ WF_vars(Handlers)
  /\ WF_vars(Accept(TIMER))
  /\ SF_vars(Accept(KEYBOARD))

Spec == Init /\ [][Next]_vars /\ Fairness

----------------------------------------------------------------------------
(* Properties.                                                             *)

\* What kernel_main prints of a file fits the three bytes it prints it into:
\* two digits, and a size that is not zero, which itoa does not terminate.
StatFits == FileSizes \subseteq 1 .. 99 /\ FileFlags \subseteq 0 .. 99

(* The cursor of tty.cpp never leaves the screen, and the screen shows, in *)
(* order, all that was written since it was last cleared: no line wrap or  *)
(* new line overwrites or skips a character.                               *)
ScreenShowsText ==
  /\ term.row < VGA_HEIGHT /\ term.column < VGA_WIDTH
  /\ OnScreen(term) = term.text

(* Every selector the kernel and its tasks use leads, through the encoded  *)
(* table, to the segment that kernel.cpp describes, wherever the linker    *)
(* put the tss; the task register is loaded only with a TSS in the table.  *)
SelectorsDecode ==
  /\ gdt # << >> =>
       \A selector \in {KERNEL_CODE_SELECTOR, KERNEL_DATA_SELECTOR, USER_CODE_SEGMENT,
                        USER_DATA_SEGMENT, TSS_SELECTOR} :
         Segment(gdt, selector) = structured_gdt[selector \div 8]
  /\ tr # 0 => gdt # << >> /\ Segment(gdt, tr).base = tss

(* However interrupts come, the idle loop runs with interrupts on, no line *)
(* left in service at the master PIC and the stack as it was.              *)
IdleIsClean ==
  pc = "idle" /\ frames = << >> => IF_flag /\ isr = {} /\ esp = 0

(* itoa into the three bytes of kernel_main gives digits that atoi reads   *)
(* as the size of the file, whatever the bytes held before.                *)
PrintedSizeReadsBack == fsizebuf # << >> => atoi(fsizebuf) = filesize

Serving(line) == frames # << >> /\ Last(frames).vector = Vector(line)

(* The kernel boots and then serves every tick and every key, unless the   *)
(* volume makes it divide by zero.                                         *)
IrqServed ==
  \A line \in {TIMER, KEYBOARD} :
    (line \in irr /\ volume.sectors_per_cluster # 0) ~> Serving(line)

============================================================================
