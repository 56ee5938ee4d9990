------------------------------- MODULE Kernel -------------------------------
(***************************************************************************)
(* Boot and interrupt dispatch: kernel_setup (src/src/kernel.c) sets up    *)
(* descriptor tables, interrupt controller, file system and paging, loads  *)
(* the shell and enters user mode; from initialize_idt on, interrupts,     *)
(* exceptions and system calls enter through the stubs of intsetup.s and   *)
(* are dispatched by main_interrupt_handler (src/src/cpu/interrupt.c).     *)
(* What the handlers do to the keyboard ring, the screen and the disk is   *)
(* in Keyboard, Console and Ext2; here is who may interrupt whom.          *)
(***************************************************************************)
EXTENDS Integers, Sequences

CONSTANT Lines   \* interrupt request lines that devices raise, by priority

IRQ_TIMER == 0
IRQ_KEYBOARD == 1

ASSUME LinesAssumption == {IRQ_TIMER, IRQ_KEYBOARD} \subseteq Lines /\ Lines \subseteq 0 .. 15

VARIABLES
  pc,      \* next call of kernel_setup
  ready,   \* what is set up so far
  stack,   \* frames: the program at the bottom, what interrupted it above
  irr,     \* PIC: requests latched
  isr,     \* PIC: lines in service
  imr,     \* PIC: lines masked
  port,    \* the keyboard controller holds a scancode
  keyboard_input_on,
  raised   \* devices that raised their line and no instruction ran since

pic == <<irr, isr, imr>>
vars == <<pc, ready, stack, pic, port, keyboard_input_on, raised>>

(* The frame of a program or handler: where it is, the line it serves, and
   the interrupt flag while it runs.  "boot", "halt" (while(true)), "user" and
   "syscall" run programs; "stuck" is a program at an instruction that faults;
   "isr" and "ack" are an interrupt handler before and after its device
   handler; "fault" is an exception.                                        *)
NoLine == -1
Frame(at, line, enabled) == [at |-> at, line |-> line, enabled |-> enabled]
Programs == {"boot", "halt", "user", "syscall", "stuck"}
Handlers == {"isr", "ack", "fault"}

Top == Len(stack)
Running(at) == stack[Top].at = at

(* intsetup.s: the stub saves every register, iret restores them and the
   interrupt flag: the frame below goes on as it was.                       *)
Return == stack' = SubSeq(stack, 1, Top - 1)

Goto(at) == stack' = [stack EXCEPT ![Top].at = at]

(* The request the PIC passes on: not masked, and no line of the same or a
   higher priority is pending or in service.                                *)
Deliverable(i) ==
  /\ i \in irr \ imr
  /\ \A j \in Lines : (j \in isr => i < j) /\ (j \in irr \ imr => i <= j)

(* The processor looks for interrupts between two instructions.             *)
Executes(at) ==
  /\ Running(at)
  /\ ~(stack[Top].enabled /\ \E i \in Lines : Deliverable(i))
  /\ raised' = {}

-----------------------------------------------------------------------------
(* Fault: interrupts are switched on before the PIC is remapped.            *)
KernelSetupSwapped == <<"gdt", "idt", "pic", "keyboard", "timer", "sti", "filesystem",
                        "paging", "stack", "code", "shell", "user">>

(* kernel_setup, in its order.                                              *)
KernelSetup == <<"gdt", "pic", "idt", "keyboard", "timer", "sti", "filesystem",
                 "paging", "stack", "code", "shell", "user">>

Calls(step) ==
  /\ Executes("boot")
  /\ pc \in DOMAIN KernelSetup
  /\ KernelSetup[pc] = step
  /\ pc' = pc + 1
  /\ UNCHANGED <<port, keyboard_input_on>>

(* GRUB enters with interrupts off; the PIC is as the BIOS left it.         *)
Init ==
  /\ pc = 1 /\ ready = {}
  /\ stack = << Frame("boot", NoLine, FALSE) >>
  /\ irr \in SUBSET Lines /\ isr = {} /\ imr \in SUBSET Lines
  /\ port \in BOOLEAN /\ (port <=> IRQ_KEYBOARD \in irr)
  /\ keyboard_input_on = FALSE
  /\ raised = {}

(* load_gdt, segment registers, init_tss, set_kernel_stack, load_tss.       *)
load_gdt ==
  /\ Calls("gdt")
  /\ ready' = ready \cup {"gdt", "tss"}
  /\ UNCHANGED <<stack, pic>>

(* ICW1 forgets the requests latched; the last writes mask every line.      *)
pic_remap ==
  /\ Calls("pic")
  /\ ready' = ready \cup {"pic"}
  /\ irr' = {} /\ isr' = {} /\ imr' = Lines
  /\ UNCHANGED stack

EnableInterrupts == stack' = [stack EXCEPT ![Top].enabled = TRUE]

(* Its last instruction is sti.                                             *)
initialize_idt ==
  /\ Calls("idt")
  /\ ready' = ready \cup {"idt"}
  /\ EnableInterrupts
  /\ UNCHANGED pic

activate_keyboard_interrupt ==
  /\ Calls("keyboard")
  /\ imr' = imr \ {IRQ_KEYBOARD}
  /\ UNCHANGED <<ready, stack, irr, isr>>

activate_timer_interrupt ==
  /\ Calls("timer")
  /\ imr' = imr \ {IRQ_TIMER}
  /\ UNCHANGED <<ready, stack, irr, isr>>

Sti ==
  /\ Calls("sti")
  /\ EnableInterrupts
  /\ UNCHANGED <<ready, pic>>

(* A disk with a signature and no superblock is not mounted; boot goes on.  *)
initialize_filesystem_ext2 ==
  /\ Calls("filesystem")
  /\ \E found \in {{}, {"filesystem"}} : ready' = ready \cup found
  /\ UNCHANGED <<stack, pic>>

SwitchPaging ==
  /\ Calls("paging")
  /\ ready' = ready \cup {"paging"}
  /\ UNCHANGED <<stack, pic>>

(* Each step of the loader succeeds, or boot ends in while(true).           *)
AllocateOrHalt(step) ==
  /\ Calls(step)
  /\ \/ ready' = ready \cup {step} /\ UNCHANGED stack
     \/ Goto("halt") /\ UNCHANGED ready
  /\ UNCHANGED pic

(* read fails when nothing is mounted, and may fail otherwise.              *)
LoadShell ==
  /\ Calls("shell")
  /\ \/ "filesystem" \in ready /\ ready' = ready \cup {"shell"} /\ UNCHANGED stack
     \/ Goto("halt") /\ UNCHANGED ready
  /\ UNCHANGED pic

(* cli, then iret with the interrupt flag set in the flags it loads; the
   kernel's stack is empty again.                                           *)
enter_user_mode ==
  /\ Calls("user")
  /\ stack' = << Frame("user", NoLine, TRUE) >>
  /\ UNCHANGED <<ready, pic>>

Boot ==
  \/ load_gdt \/ pic_remap \/ initialize_idt
  \/ activate_keyboard_interrupt \/ activate_timer_interrupt \/ Sti
  \/ initialize_filesystem_ext2 \/ SwitchPaging
  \/ AllocateOrHalt("stack") \/ AllocateOrHalt("code") \/ LoadShell
  \/ enter_user_mode

-----------------------------------------------------------------------------
SYSCALL == 128

(* Fault: every gate is a trap gate.                                        *)
TrapGate(vector) == TRUE

(* Does a gate leave the interrupt flag as it is?  initialize_idt makes
   interrupt gates, which clear it, and a trap gate for int 0x80.           *)
KeepsInterrupts(vector) == vector = SYSCALL

PIC1_OFFSET == 32

Enter(vector, at, line, below) ==
  stack' = Append(below, Frame(at, line, below[Top].enabled /\ KeepsInterrupts(vector)))

(* An interrupt of line i enters; main_interrupt_handler gets its number.   *)
Interrupt(i) ==
  /\ stack[Top].enabled
  /\ Deliverable(i)
  /\ irr' = irr \ {i} /\ isr' = isr \cup {i}
  /\ Enter(PIC1_OFFSET + i, "isr", i, stack)
  /\ UNCHANGED <<pc, ready, imr, port, keyboard_input_on, raised>>

(* PIC_ACK, an end of interrupt that names no line: the line of the highest
   priority is no longer in service.                                        *)
pic_ack == isr' = {i \in isr : \E j \in isr : j < i}

(* Fault: a key pressed while the keyboard is off is left in the port.      *)
keyboard_isr_off ==
  port' = IF keyboard_input_on THEN FALSE ELSE port

(* Both branches read the port, which lets the controller go on.            *)
keyboard_isr == port' = FALSE

KeyboardInterrupt ==
  /\ Running("isr") /\ stack[Top].line = IRQ_KEYBOARD
  /\ keyboard_isr
  /\ Goto("ack")
  /\ UNCHANGED <<pc, ready, pic, keyboard_input_on, raised>>

KeyboardAcknowledged ==
  /\ Running("ack")
  /\ pic_ack /\ Return
  /\ UNCHANGED <<pc, ready, irr, imr, port, keyboard_input_on, raised>>

(* Fault: the timer is left to the default case.                            *)
TimerIgnored ==
  /\ Running("isr") /\ stack[Top].line = IRQ_TIMER
  /\ Return
  /\ UNCHANGED <<pc, ready, pic, port, keyboard_input_on, raised>>

TimerInterrupt ==
  /\ Running("isr") /\ stack[Top].line = IRQ_TIMER
  /\ pic_ack /\ Return
  /\ UNCHANGED <<pc, ready, irr, imr, port, keyboard_input_on, raised>>

(* The default case: an exception is not handled, its handler returns to the
   instruction that faulted.                                                *)
Exception ==
  /\ Running("fault")
  /\ Return
  /\ UNCHANGED <<pc, ready, pic, port, keyboard_input_on, raised>>

(* An instruction of the shell (the hlt of cmd_quit) or of a system call (an
   address the caller passed) faults, and again after each return.          *)
Faults(at) ==
  /\ Executes(at)
  /\ Enter(13, "fault", NoLine, [stack EXCEPT ![Top].at = "stuck"])
  /\ UNCHANGED <<pc, ready, pic, port, keyboard_input_on>>

(* int 0x80.                                                                *)
Syscall ==
  /\ Executes("user")
  /\ Enter(SYSCALL, "syscall", NoLine, stack)
  /\ UNCHANGED <<pc, ready, pic, port, keyboard_input_on>>

(* syscall_handler: ACTIVATE_KBD or another call, then iret.                *)
syscall_handler ==
  /\ Executes("syscall")
  /\ keyboard_input_on' \in {keyboard_input_on, TRUE}
  /\ Return
  /\ UNCHANGED <<pc, ready, pic, port>>

(* Instructions of a program that this model does not tell apart.           *)
Instruction ==
  /\ raised # {}
  /\ \E at \in {"halt", "user", "syscall"} : Executes(at)
  /\ UNCHANGED <<pc, ready, stack, pic, port, keyboard_input_on>>

Dispatch ==
  \/ \E i \in Lines : Interrupt(i)
  \/ KeyboardInterrupt \/ KeyboardAcknowledged \/ TimerInterrupt
  \/ Exception \/ syscall_handler

Program ==
  \/ Boot \/ Syscall \/ Instruction
  \/ \E at \in {"user", "syscall", "stuck"} : Faults(at)

-----------------------------------------------------------------------------
(* The devices (external).  Ticks and keys are further apart than a handler
   takes: the program gets to run between two of a kind.                    *)
Tick ==
  /\ IRQ_TIMER \notin raised
  /\ raised' = raised \cup {IRQ_TIMER}
  /\ irr' = irr \cup {IRQ_TIMER}
  /\ UNCHANGED <<pc, ready, stack, isr, imr, port, keyboard_input_on>>

(* The keyboard controller sends a byte when its last one has been read.    *)
KeyPressed ==
  /\ ~port /\ IRQ_KEYBOARD \notin raised
  /\ port' = TRUE
  /\ raised' = raised \cup {IRQ_KEYBOARD}
  /\ irr' = irr \cup {IRQ_KEYBOARD}
  /\ UNCHANGED <<pc, ready, stack, isr, imr, keyboard_input_on>>

(* Any other device; the disk raises its line at the end of each command.   *)
OtherDevice(i) ==
  /\ i \notin {IRQ_TIMER, IRQ_KEYBOARD}
  /\ irr' = irr \cup {i}
  /\ UNCHANGED <<pc, ready, stack, isr, imr, port, keyboard_input_on, raised>>

Devices == Tick \/ KeyPressed \/ \E i \in Lines : OtherDevice(i)

Next == Dispatch \/ Program \/ Devices

Spec == Init /\ [][Next]_vars

(* Handlers and system calls go on, the boot sequence too; a program is not
   kept from running (one processor, nothing but interrupts preempts).      *)
FairSpec ==
  /\ Spec
  /\ WF_vars(Dispatch)
  /\ WF_vars(Program)

-----------------------------------------------------------------------------
(* Every variable keeps its type.                                           *)
KernelTypeOK ==
  /\ pc \in Nat
  /\ ready \subseteq {"gdt", "tss", "pic", "idt", "filesystem", "paging",
                      "stack", "code", "shell"}
  /\ stack \in Seq([at : Programs \cup Handlers, line : Lines \cup {NoLine},
                    enabled : BOOLEAN])
  /\ stack # <<>>
  /\ irr \subseteq Lines /\ isr \subseteq Lines /\ imr \subseteq Lines
  /\ raised \subseteq Lines
  /\ port \in BOOLEAN /\ keyboard_input_on \in BOOLEAN

(* Nothing enters before its way in is built: interrupts are on only when the
   IDT is loaded and the PIC sends the numbers the IDT expects (initialize_idt
   ends with sti), and user mode runs only with a kernel stack in the TSS, its
   two pages mapped in the active directory and the shell loaded.           *)
EntriesReady ==
  /\ (\E k \in 1 .. Top : stack[k].enabled) => {"gdt", "tss", "pic", "idt"} \subseteq ready
  /\ stack[1].at \notin {"boot", "halt"} =>
       {"filesystem", "paging", "stack", "code", "shell"} \subseteq ready

(* The kernel stack holds at most one system call and one handler, however
   interrupts, calls and endless faults come: handlers are never interrupted
   (they enter through interrupt gates), and a fault loop does not grow it. *)
NestingBounded ==
  /\ Top <= 3
  /\ \A k \in 1 .. Top - 1 : stack[k].at \notin Handlers

(* The lines the PIC holds in service are those a running handler will
   acknowledge: no line is left blocked, and since an acknowledgement names no
   line, none is acknowledged for another.                                  *)
InServiceHandled ==
  isr = {stack[k].line : k \in {n \in 1 .. Top : stack[n].at \in {"isr", "ack"}}}

(* An unmasked request is served and acknowledged, also while the shell hangs
   in a fault it can never get past, or the boot in while(true).            *)
RequestsServed ==
  \A i \in {IRQ_TIMER, IRQ_KEYBOARD} :
    /\ ("pic" \in ready /\ i \in irr) ~> (i \in isr)
    /\ (i \in isr) ~> (i \notin isr)

(* A scancode that raised its interrupt is read, before the shell switches the
   keyboard on too: an unread one would keep the controller silent for ever. *)
ScancodesRead == ("pic" \in ready /\ IRQ_KEYBOARD \in irr) ~> ~port
=============================================================================
