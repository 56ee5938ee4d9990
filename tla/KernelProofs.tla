---------------------------- MODULE KernelProofs ----------------------------
(***************************************************************************)
(* For every set of interrupt lines: nothing enters before its way in is   *)
(* built, the kernel stack is bounded, and the PIC holds in service        *)
(* exactly the line whose handler runs.                                    *)
(***************************************************************************)
EXTENDS Kernel, TLAPS

Frames == [at : Programs \cup Handlers, line : Lines \cup {NoLine}, enabled : BOOLEAN]

(* What kernel_setup has done when it comes to a step, unless it gave up.   *)
Progress ==
  /\ pc \in 1 .. 13
  /\ pc > 1 => {"gdt", "tss"} \subseteq ready
  /\ pc > 2 => "pic" \in ready
  /\ pc > 3 => "idt" \in ready
  /\ pc > 8 => "paging" \in ready
  /\ stack[1].at # "halt" =>
       /\ pc > 9 => "stack" \in ready
       /\ pc > 10 => "code" \in ready
       /\ pc > 11 => {"filesystem", "shell"} \subseteq ready

(* The four forms of the stack: a program; a handler on it; a system call of
   the user program; a handler on that.                                     *)
Shape ==
  /\ Len(stack) \in 1 .. 3
  /\ stack[1].at \in {"boot", "halt", "user", "stuck"}
  /\ Len(stack) > 1 => stack[2].at \in Handlers \cup {"syscall", "stuck"}
  /\ Len(stack) > 1 /\ stack[2].at \in {"syscall", "stuck"} => stack[1].at = "user"
  /\ Len(stack) = 3 => stack[3].at \in Handlers /\ stack[2].at \in {"syscall", "stuck"}
  /\ stack[1].at \in {"user", "stuck"} => pc = 13

(* Interrupts are off in handlers, and everywhere until initialize_idt.     *)
Flags == \A k \in 1 .. Len(stack) :
           stack[k].enabled => pc > 3 /\ stack[k].at \notin Handlers

(* The line in service is that of the handler on top.                       *)
Serving == isr = IF stack[Len(stack)].at \in {"isr", "ack"}
                 THEN {stack[Len(stack)].line} ELSE {}

(* Neither part is inductive alone: that a handler is alone on the stack needs
   its flag to be off, that the flag is on late enough needs the order of the
   boot steps, and that an acknowledgement empties isr needs that the handler
   below none.                                                              *)
Inv == KernelTypeOK /\ Progress /\ Shape /\ Flags /\ Serving

(* The two lines with a handler, and where line numbers lie.                *)
LEMMA LineFacts ==
  /\ IRQ_TIMER \in Lines /\ IRQ_KEYBOARD \in Lines
  /\ \A i \in Lines : i \in 0 .. 15
  BY LinesAssumption

(* The place of each step in kernel_setup.                                  *)
LEMMA Places ==
  /\ DOMAIN KernelSetup = 1 .. 12
  /\ KernelSetup[1] = "gdt" /\ KernelSetup[2] = "pic" /\ KernelSetup[3] = "idt"
  /\ KernelSetup[4] = "keyboard" /\ KernelSetup[5] = "timer" /\ KernelSetup[6] = "sti"
  /\ KernelSetup[7] = "filesystem" /\ KernelSetup[8] = "paging"
  /\ KernelSetup[9] = "stack" /\ KernelSetup[10] = "code"
  /\ KernelSetup[11] = "shell" /\ KernelSetup[12] = "user"
  BY DEF KernelSetup

(* A boot step runs at its place, with nothing else on the stack.           *)
LEMMA CallFacts ==
  ASSUME Inv, NEW step, Calls(step)
  PROVE  /\ Len(stack) = 1 /\ stack[1].at = "boot"
         /\ pc \in 1 .. 12 /\ KernelSetup[pc] = step
         /\ pc' = pc + 1
         /\ port' = port /\ keyboard_input_on' = keyboard_input_on /\ raised' = {}
  <1>1. Running("boot") /\ pc \in DOMAIN KernelSetup
    BY DEF Calls, Executes
  <1>2. Len(stack) = 1
    <2>1. stack[Len(stack)].at = "boot" /\ Len(stack) \in 1 .. 3
      BY <1>1 DEF Inv, Shape, Running, Top
    <2>2. Len(stack) # 2
      BY <2>1 DEF Inv, Shape, Handlers
    <2>3. Len(stack) # 3
      BY <2>1 DEF Inv, Shape, Handlers
    <2>. QED  BY <2>1, <2>2, <2>3
  <1>3. stack[1].at = "boot"
    BY <1>1, <1>2 DEF Running, Top
  <1>. QED  BY <1>1, <1>2, <1>3, Places DEF Calls, Executes

(* A stack with another place or flag in its top frame, with one frame more,
   and with one less.                                                       *)
LEMMA WithAt ==
  ASSUME NEW g \in Frames, NEW at \in Programs \cup Handlers
  PROVE  /\ [g EXCEPT !.at = at] \in Frames
         /\ [g EXCEPT !.at = at] = [at |-> at, line |-> g.line, enabled |-> g.enabled]
  BY DEF Frames

(* A frame with its interrupt flag changed is a frame.                      *)
LEMMA WithFlag ==
  ASSUME NEW g \in Frames, NEW e \in BOOLEAN
  PROVE  /\ [g EXCEPT !.enabled = e] \in Frames
         /\ [g EXCEPT !.enabled = e] = [at |-> g.at, line |-> g.line, enabled |-> e]
  BY DEF Frames

(* A stack whose top frame has moved on.                                    *)
LEMMA AtFacts ==
  ASSUME stack \in Seq(Frames), stack # <<>>, NEW at \in Programs \cup Handlers,
         NEW t, t = [stack EXCEPT ![Len(stack)].at = at]
  PROVE  /\ t \in Seq(Frames) /\ Len(t) = Len(stack)
         /\ t[Len(stack)].at = at
         /\ t[Len(stack)].line = stack[Len(stack)].line
         /\ t[Len(stack)].enabled = stack[Len(stack)].enabled
         /\ \A k \in 1 .. Len(stack) - 1 : t[k] = stack[k]
  <1>. DEFINE g == stack[Len(stack)]
              f == [g EXCEPT !.at = at]
  <1>1. g \in Frames
    OBVIOUS
  <1>2. f \in Frames /\ f = [at |-> at, line |-> g.line, enabled |-> g.enabled]
    BY <1>1, WithAt, Zenon
  <1>3. t = [stack EXCEPT ![Len(stack)] = f]
    OBVIOUS
  <1>. HIDE DEF f
  <1>4. /\ t \in Seq(Frames) /\ Len(t) = Len(stack)
        /\ t[Len(stack)] = f
        /\ \A k \in 1 .. Len(stack) - 1 : t[k] = stack[k]
    BY <1>2, <1>3
  <1>. QED  BY <1>2, <1>4

(* Goto moves the top frame on and leaves the others.                       *)
LEMMA GotoFacts ==
  ASSUME stack \in Seq(Frames), stack # <<>>,
         NEW at \in Programs \cup Handlers, Goto(at)
  PROVE  /\ stack' \in Seq(Frames) /\ Len(stack') = Len(stack)
         /\ stack'[Len(stack)].at = at
         /\ stack'[Len(stack)].line = stack[Len(stack)].line
         /\ stack'[Len(stack)].enabled = stack[Len(stack)].enabled
         /\ \A k \in 1 .. Len(stack) - 1 : stack'[k] = stack[k]
  <1>1. stack' = [stack EXCEPT ![Len(stack)].at = at]
    BY DEF Goto, Top
  <1>. QED  BY <1>1, AtFacts

(* sti changes the flag of the top frame only.                              *)
LEMMA EnableFacts ==
  ASSUME stack \in Seq(Frames), stack # <<>>, EnableInterrupts
  PROVE  /\ stack' \in Seq(Frames) /\ Len(stack') = Len(stack)
         /\ stack'[Len(stack)].at = stack[Len(stack)].at
         /\ stack'[Len(stack)].line = stack[Len(stack)].line
         /\ \A k \in 1 .. Len(stack) - 1 : stack'[k] = stack[k]
  <1>. DEFINE g == stack[Len(stack)]
              f == [g EXCEPT !.enabled = TRUE]
  <1>1. g \in Frames
    OBVIOUS
  <1>2. f \in Frames /\ f = [at |-> g.at, line |-> g.line, enabled |-> TRUE]
    <2>1. TRUE \in BOOLEAN
      OBVIOUS
    <2>. QED  BY <1>1, <2>1, WithFlag, Zenon
  <1>3. f.at = g.at /\ f.line = g.line
    BY <1>2
  <1>4. stack' = [stack EXCEPT ![Len(stack)] = f]
    BY DEF EnableInterrupts, Top
  <1>f. f \in Frames
    BY <1>2
  <1>. HIDE DEF f
  <1>5. /\ stack' \in Seq(Frames) /\ Len(stack') = Len(stack)
        /\ stack'[Len(stack)] = f
        /\ \A k \in 1 .. Len(stack) - 1 : stack'[k] = stack[k]
    BY <1>f, <1>4
  <1>. QED  BY <1>3, <1>5

(* An entry puts a frame on top.                                            *)
LEMMA PushFacts ==
  ASSUME NEW s \in Seq(Frames), NEW f \in Frames, NEW t, t = Append(s, f)
  PROVE  /\ t \in Seq(Frames) /\ Len(t) = Len(s) + 1
         /\ t[Len(s) + 1] = f
         /\ \A k \in 1 .. Len(s) : t[k] = s[k]
  OBVIOUS

(* iret takes the top frame off.                                            *)
LEMMA PopFacts ==
  ASSUME NEW s \in Seq(Frames), Len(s) > 1, NEW t, t = SubSeq(s, 1, Len(s) - 1)
  PROVE  /\ t \in Seq(Frames) /\ Len(t) = Len(s) - 1
         /\ \A k \in 1 .. Len(s) - 1 : t[k] = s[k]
  OBVIOUS

(* GRUB's machine satisfies the invariant.                                  *)
LEMMA InitInv == Init => Inv
  <1>. SUFFICES ASSUME Init PROVE Inv
    OBVIOUS
  <1>1. Frame("boot", NoLine, FALSE) \in Frames
    BY DEF Frame, Frames, Programs
  <1>2. stack \in Seq(Frames) /\ Len(stack) = 1
        /\ stack[1] = [at |-> "boot", line |-> NoLine, enabled |-> FALSE]
    BY <1>1 DEF Init, Frame
  <1>3. pc = 1 /\ ready = {} /\ isr = {} /\ raised = {}
        /\ irr \subseteq Lines /\ imr \subseteq Lines
    BY DEF Init
  <1>4. port \in BOOLEAN /\ keyboard_input_on \in BOOLEAN
    BY DEF Init
  <1>a. stack # <<>> /\ pc \in Nat
    BY <1>2, <1>3
  <1>5. KernelTypeOK
    BY <1>a, <1>2, <1>3, <1>4 DEF KernelTypeOK, Frames
  <1>6. Progress /\ Shape
    BY <1>2, <1>3 DEF Progress, Shape
  <1>7. Flags /\ Serving
    BY <1>2, <1>3 DEF Flags, Serving
  <1>. QED  BY <1>5, <1>6, <1>7 DEF Inv

(* Boot steps keep it: each finds what the ones before it have set up.      *)
LEMMA BootInv == Inv /\ Boot => Inv'
  <1>. SUFFICES ASSUME Inv, Boot PROVE Inv'
    OBVIOUS
  <1>t. KernelTypeOK /\ Progress /\ Shape /\ Flags /\ Serving
    BY DEF Inv
  <1>s. stack \in Seq(Frames) /\ stack # <<>>
    BY <1>t DEF KernelTypeOK, Frames
  <1>1. CASE load_gdt
    <2>1. Calls("gdt")
      BY <1>1 DEF load_gdt
    <2>2. pc = 1 /\ Len(stack) = 1 /\ pc' = 2
      BY <2>1, CallFacts, Places
    <2>. QED  BY <1>1, <1>t, <2>1, <2>2, CallFacts
              DEF load_gdt, pic, Inv, KernelTypeOK, Progress, Shape, Flags, Serving
  <1>2. CASE pic_remap
    <2>1. Calls("pic")
      BY <1>2 DEF pic_remap
    <2>2. pc = 2 /\ Len(stack) = 1 /\ stack[1].at = "boot" /\ pc' = 3
      BY <2>1, CallFacts, Places
    <2>. QED  BY <1>2, <1>t, <2>1, <2>2, CallFacts
              DEF pic_remap, Inv, KernelTypeOK, Progress, Shape, Flags, Serving
  <1>3. CASE initialize_idt
    <2>1. Calls("idt")
      BY <1>3 DEF initialize_idt
    <2>2. pc = 3 /\ Len(stack) = 1 /\ stack[1].at = "boot" /\ pc' = 4
      BY <2>1, CallFacts, Places
    <2>3. EnableInterrupts
      BY <1>3 DEF initialize_idt
    <2>4. stack' \in Seq(Frames) /\ Len(stack') = 1 /\ stack'[1].at = "boot"
      BY <1>s, <2>2, <2>3, EnableFacts
    <2>. QED  BY <1>3, <1>t, <2>1, <2>2, <2>4, CallFacts
              DEF initialize_idt, pic, Inv, KernelTypeOK, Progress, Shape, Flags,
                  Serving, Handlers, Frames
  <1>4. CASE activate_keyboard_interrupt
    <2>1. Calls("keyboard")
      BY <1>4 DEF activate_keyboard_interrupt
    <2>2. pc = 4 /\ Len(stack) = 1 /\ stack[1].at = "boot" /\ pc' = 5
      BY <2>1, CallFacts, Places
    <2>. QED  BY <1>4, <1>t, <2>1, <2>2, CallFacts
              DEF activate_keyboard_interrupt, Inv, KernelTypeOK, Progress, Shape,
                  Flags, Serving
  <1>5. CASE activate_timer_interrupt
    <2>1. Calls("timer")
      BY <1>5 DEF activate_timer_interrupt
    <2>2. pc = 5 /\ Len(stack) = 1 /\ stack[1].at = "boot" /\ pc' = 6
      BY <2>1, CallFacts, Places
    <2>. QED  BY <1>5, <1>t, <2>1, <2>2, CallFacts
              DEF activate_timer_interrupt, Inv, KernelTypeOK, Progress, Shape,
                  Flags, Serving
  <1>6. CASE Sti
    <2>1. Calls("sti")
      BY <1>6 DEF Sti
    <2>2. pc = 6 /\ Len(stack) = 1 /\ stack[1].at = "boot" /\ pc' = 7
      BY <2>1, CallFacts, Places
    <2>3. EnableInterrupts
      BY <1>6 DEF Sti
    <2>4. stack' \in Seq(Frames) /\ Len(stack') = 1 /\ stack'[1].at = "boot"
      BY <1>s, <2>2, <2>3, EnableFacts
    <2>. QED  BY <1>6, <1>t, <2>1, <2>2, <2>4, CallFacts
              DEF Sti, pic, Inv, KernelTypeOK, Progress, Shape, Flags, Serving,
                  Handlers, Frames
  <1>7. CASE initialize_filesystem_ext2
    <2>1. Calls("filesystem")
      BY <1>7 DEF initialize_filesystem_ext2
    <2>2. pc = 7 /\ Len(stack) = 1 /\ stack[1].at = "boot" /\ pc' = 8
      BY <2>1, CallFacts, Places
    <2>3. PICK found \in {{}, {"filesystem"}} : ready' = ready \cup found
      BY <1>7 DEF initialize_filesystem_ext2
    <2>4. UNCHANGED <<stack, irr, isr, imr>>
      BY <1>7 DEF initialize_filesystem_ext2, pic
    <2>5. KernelTypeOK'
      BY <1>t, <2>1, <2>2, <2>3, <2>4, CallFacts DEF KernelTypeOK
    <2>6. Progress' /\ Shape'
      <3>1. ready \subseteq ready'
        BY <2>3
      <3>2. {"gdt", "tss", "pic", "idt"} \subseteq ready
        BY <1>t, <2>2 DEF Progress
      <3>3. Progress'
        BY <2>2, <3>1, <3>2 DEF Progress
      <3>4. Shape'
        BY <1>t, <2>2, <2>4 DEF Shape
      <3>. QED  BY <3>3, <3>4
    <2>7. Flags' /\ Serving'
      <3>1. UNCHANGED <<stack, isr>> /\ pc' > 3 /\ pc > 3
        BY <2>2, <2>4
      <3>2. Flags'
        BY <1>t, <3>1 DEF Flags
      <3>3. Serving'
        BY <1>t, <3>1 DEF Serving
      <3>. QED  BY <3>2, <3>3
    <2>. QED  BY <2>5, <2>6, <2>7 DEF Inv
  <1>8. CASE SwitchPaging
    <2>1. Calls("paging")
      BY <1>8 DEF SwitchPaging
    <2>2. pc = 8 /\ Len(stack) = 1 /\ stack[1].at = "boot" /\ pc' = 9
      BY <2>1, CallFacts, Places
    <2>. QED  BY <1>8, <1>t, <2>1, <2>2, CallFacts
              DEF SwitchPaging, pic, Inv, KernelTypeOK, Progress, Shape, Flags, Serving
  <1>9. ASSUME NEW step \in {"stack", "code"}, AllocateOrHalt(step)
        PROVE  Inv'
    <2>1. Calls(step)
      BY <1>9 DEF AllocateOrHalt
    <2>2. ((step = "stack" /\ pc = 9) \/ (step = "code" /\ pc = 10))
          /\ Len(stack) = 1 /\ stack[1].at = "boot" /\ pc' = pc + 1
      <3>1. CASE step = "stack"
        <4>1. KernelSetup[pc] = "stack" /\ pc \in 1 .. 12 /\ pc' = pc + 1
              /\ Len(stack) = 1 /\ stack[1].at = "boot"
          BY <2>1, <3>1, CallFacts
        <4>. QED  BY <3>1, <4>1, Places
      <3>2. CASE step = "code"
        BY <2>1, <3>2, CallFacts, Places
      <3>. QED  BY <3>1, <3>2
    <2>3. CASE ready' = ready \cup {step} /\ UNCHANGED stack
      <3>1. KernelTypeOK'
        BY <1>9, <1>t, <2>1, <2>3, CallFacts DEF AllocateOrHalt, pic, KernelTypeOK
      <3>2. Progress' /\ Shape'
        <4>1. ready \subseteq ready' /\ step \in ready'
          BY <2>3
        <4>2. {"gdt", "tss", "pic", "idt", "paging"} \subseteq ready
              /\ (pc = 10 => "stack" \in ready)
          BY <1>t, <2>2 DEF Progress
        <4>3. Progress'
          BY <2>2, <4>1, <4>2 DEF Progress
        <4>4. Shape'
          BY <1>t, <2>2, <2>3 DEF Shape
        <4>. QED  BY <4>3, <4>4
      <3>3. Flags' /\ Serving'
        <4>1. UNCHANGED <<irr, isr, imr>>
          BY <1>9 DEF AllocateOrHalt, pic
        <4>2. UNCHANGED <<stack, isr>> /\ pc' > 3 /\ pc > 3
          BY <2>2, <2>3, <4>1
        <4>. QED  BY <1>t, <4>2 DEF Flags, Serving
      <3>. QED  BY <3>1, <3>2, <3>3 DEF Inv
    <2>4. CASE Goto("halt") /\ UNCHANGED ready
      <3>0. Goto("halt") /\ "halt" \in Programs \cup Handlers
        BY <2>4 DEF Programs
      <3>1. stack' \in Seq(Frames) /\ Len(stack') = 1 /\ stack'[1].at = "halt"
            /\ stack'[1].enabled = stack[1].enabled
        BY <1>s, <2>2, <3>0, GotoFacts
      <3>. QED  BY <1>9, <1>t, <2>1, <2>2, <2>4, <3>1, CallFacts
                DEF AllocateOrHalt, pic, Inv, KernelTypeOK, Progress, Shape, Flags,
                    Serving, Handlers, Frames
    <2>. QED  BY <1>9, <2>3, <2>4 DEF AllocateOrHalt
  <1>10. CASE LoadShell
    <2>1. Calls("shell")
      BY <1>10 DEF LoadShell
    <2>2. pc = 11 /\ Len(stack) = 1 /\ stack[1].at = "boot" /\ pc' = 12
      BY <2>1, CallFacts, Places
    <2>3. CASE "filesystem" \in ready /\ ready' = ready \cup {"shell"} /\ UNCHANGED stack
      BY <1>10, <1>t, <2>1, <2>2, <2>3, CallFacts
      DEF LoadShell, pic, Inv, KernelTypeOK, Progress, Shape, Flags, Serving
    <2>4. CASE Goto("halt") /\ UNCHANGED ready
      <3>0. Goto("halt") /\ "halt" \in Programs \cup Handlers
        BY <2>4 DEF Programs
      <3>1. stack' \in Seq(Frames) /\ Len(stack') = 1 /\ stack'[1].at = "halt"
            /\ stack'[1].enabled = stack[1].enabled
        BY <1>s, <2>2, <3>0, GotoFacts
      <3>. QED  BY <1>10, <1>t, <2>1, <2>2, <2>4, <3>1, CallFacts
                DEF LoadShell, pic, Inv, KernelTypeOK, Progress, Shape, Flags,
                    Serving, Handlers, Frames
    <2>. QED  BY <1>10, <2>3, <2>4 DEF LoadShell
  <1>11. CASE enter_user_mode
    <2>1. Calls("user")
      BY <1>11 DEF enter_user_mode
    <2>2. pc = 12 /\ Len(stack) = 1 /\ stack[1].at = "boot" /\ pc' = 13
      BY <2>1, CallFacts, Places
    <2>3. Frame("user", NoLine, TRUE) \in Frames
      BY DEF Frame, Frames, Programs
    <2>4. stack' \in Seq(Frames) /\ Len(stack') = 1
          /\ stack'[1] = [at |-> "user", line |-> NoLine, enabled |-> TRUE]
      BY <1>11, <2>3 DEF enter_user_mode, Frame
    <2>5. UNCHANGED <<ready, irr, isr, imr>>
      BY <1>11 DEF enter_user_mode, pic
    <2>6. KernelTypeOK'
      BY <1>t, <2>1, <2>2, <2>4, <2>5, CallFacts DEF KernelTypeOK, Frames
    <2>7. Progress' /\ Shape'
      BY <1>t, <2>2, <2>4, <2>5 DEF Progress, Shape
    <2>8. Flags' /\ Serving'
      <3>0. isr = {}
        BY <1>t, <2>2 DEF Serving
      <3>1. isr' = {} /\ stack'[1].at = "user"
        BY <3>0, <2>4, <2>5
      <3>2. Serving'
        BY <2>4, <3>1 DEF Serving
      <3>3. Flags'
        BY <2>2, <2>4, <3>1 DEF Flags, Handlers
      <3>. QED  BY <3>2, <3>3
    <2>. QED  BY <2>6, <2>7, <2>8 DEF Inv
  <1>. QED  BY <1>1, <1>2, <1>3, <1>4, <1>5, <1>6, <1>7, <1>8, <1>9, <1>10, <1>11 DEF Boot

(* What Enter pushes: through an interrupt gate the flag is off.            *)
LEMMA EnterFacts ==
  ASSUME NEW below \in Seq(Frames), Len(stack) \in Nat \ {0}, Len(below) = Len(stack),
         NEW vector, NEW at \in Programs \cup Handlers, NEW line \in Lines \cup {NoLine},
         Enter(vector, at, line, below)
  PROVE  /\ stack' \in Seq(Frames) /\ Len(stack') = Len(stack) + 1
         /\ stack'[Len(stack) + 1].at = at
         /\ stack'[Len(stack) + 1].line = line
         /\ stack'[Len(stack) + 1].enabled => below[Len(stack)].enabled /\ vector = SYSCALL
         /\ \A k \in 1 .. Len(stack) : stack'[k] = below[k]
  <1>. DEFINE e == below[Len(stack)].enabled /\ KeepsInterrupts(vector)
              f == [at |-> at, line |-> line, enabled |-> e]
  <1>1. stack' = Append(below, f)
    BY DEF Enter, Frame, Top
  <1>2. e \in BOOLEAN
    BY DEF KeepsInterrupts
  <1>3. e => below[Len(stack)].enabled /\ vector = SYSCALL
    BY DEF KeepsInterrupts
  <1>. HIDE DEF e
  <1>4. f \in Frames /\ f.at = at /\ f.line = line /\ f.enabled = e
    BY <1>2 DEF Frames
  <1>. HIDE DEF f
  <1>5. /\ stack' \in Seq(Frames) /\ Len(stack') = Len(stack) + 1
        /\ stack'[Len(stack) + 1] = f
        /\ \A k \in 1 .. Len(stack) : stack'[k] = below[k]
    BY <1>1, <1>4, PushFacts
  <1>. QED  BY <1>3, <1>4, <1>5

(* Types, taken apart once.                                                 *)
LEMMA TypeFacts ==
  ASSUME Inv
  PROVE  /\ stack \in Seq(Frames) /\ stack # <<>> /\ Len(stack) \in 1 .. 3
         /\ irr \subseteq Lines /\ isr \subseteq Lines /\ imr \subseteq Lines
         /\ raised \subseteq Lines
         /\ port \in BOOLEAN /\ keyboard_input_on \in BOOLEAN
         /\ \A k \in 1 .. Len(stack) : stack[k] \in Frames
  <1>1. stack \in Seq(Frames) /\ stack # <<>> /\ Len(stack) \in 1 .. 3
    BY DEF Inv, KernelTypeOK, Shape, Frames
  <1>2. \A k \in 1 .. Len(stack) : stack[k] \in Frames
    BY <1>1
  <1>. QED  BY <1>1, <1>2 DEF Inv, KernelTypeOK

(* A program on top that is not a handler: nothing is in service, and there is
   room for a handler above it.                                             *)
LEMMA ProgramOnTop ==
  ASSUME Inv, stack[Len(stack)].at \notin Handlers
  PROVE  /\ isr = {} /\ Len(stack) \in 1 .. 2
         /\ Len(stack) = 2 => stack[2].at \in {"syscall", "stuck"}
  <1>1. Len(stack) # 3
    BY DEF Inv, Shape
  <1>. QED  BY <1>1 DEF Inv, Shape, Serving, Handlers

(* An interrupt finds the flag on: so no handler runs below it.             *)
LEMMA InterruptInv ==
  ASSUME Inv, NEW i \in Lines, Interrupt(i)
  PROVE  Inv'
  <1>t. KernelTypeOK /\ Progress /\ Shape /\ Flags /\ Serving
    BY DEF Inv
  <1>1. stack[Len(stack)].enabled /\ Enter(PIC1_OFFSET + i, "isr", i, stack)
    BY DEF Interrupt, Top
  <1>2. pc > 3 /\ stack[Len(stack)].at \notin Handlers
    BY <1>t, <1>1, TypeFacts DEF Flags
  <1>3. /\ isr = {} /\ Len(stack) \in 1 .. 2
        /\ Len(stack) = 2 => stack[2].at \in {"syscall", "stuck"}
    BY <1>2, ProgramOnTop
  <1>4. PIC1_OFFSET + i # SYSCALL /\ i \in Lines \cup {NoLine} /\ "isr" \in Programs \cup Handlers
    BY LineFacts DEF PIC1_OFFSET, SYSCALL, Handlers
  <1>5. /\ stack' \in Seq(Frames) /\ Len(stack') = Len(stack) + 1
        /\ stack'[Len(stack) + 1].at = "isr"
        /\ stack'[Len(stack) + 1].line = i
        /\ ~stack'[Len(stack) + 1].enabled
        /\ \A k \in 1 .. Len(stack) : stack'[k] = stack[k]
    BY <1>1, <1>3, <1>4, TypeFacts, EnterFacts
  <1>6. irr' \subseteq Lines /\ isr' = {i} /\ UNCHANGED <<pc, ready, imr, port, keyboard_input_on, raised>>
    BY <1>3, TypeFacts DEF Interrupt
  <1>7. KernelTypeOK'
    BY <1>t, <1>3, <1>5, <1>6 DEF KernelTypeOK, Frames
  <1>8. stack'[1] = stack[1] /\ Progress'
    BY <1>t, <1>3, <1>5, <1>6 DEF Progress
  <1>9. Shape'
    BY <1>t, <1>3, <1>5, <1>6, <1>8 DEF Shape, Handlers
  <1>10. Flags'
    BY <1>t, <1>3, <1>5, <1>6 DEF Flags
  <1>11. Serving'
    BY <1>3, <1>5, <1>6 DEF Serving
  <1>. QED  BY <1>7, <1>8, <1>9, <1>10, <1>11 DEF Inv

(* A handler, or a system call, that returns leaves a program on top.       *)
LEMMA ReturnInv ==
  ASSUME Inv, Return, stack[Len(stack)].at \in Handlers \cup {"syscall"},
         isr' = {}, UNCHANGED <<pc, ready, irr, imr>>,
         port' \in BOOLEAN, keyboard_input_on' \in BOOLEAN, raised' \subseteq Lines
  PROVE  Inv'
  <1>t. KernelTypeOK /\ Progress /\ Shape /\ Flags /\ Serving
    BY DEF Inv
  <1>1. Len(stack) \in 2 .. 3
    BY <1>t, TypeFacts DEF Shape, Handlers
  <1>2. /\ stack' \in Seq(Frames) /\ Len(stack') = Len(stack) - 1
        /\ \A k \in 1 .. Len(stack) - 1 : stack'[k] = stack[k]
    <2>1. stack' = SubSeq(stack, 1, Len(stack) - 1)
      BY DEF Return, Top
    <2>2. stack \in Seq(Frames)
      BY TypeFacts
    <2>3. Len(stack) > 1
      BY <1>1
    <2>. QED  BY <2>1, <2>2, <2>3, PopFacts
  <1>3. stack'[1] = stack[1] /\ Len(stack') \in 1 .. 2
    BY <1>1, <1>2
  <1>4. stack'[Len(stack')].at \notin Handlers
    <2>1. CASE Len(stack) = 2
      BY <1>t, <1>2, <1>3, <2>1 DEF Shape, Handlers
    <2>2. CASE Len(stack) = 3
      BY <1>t, <1>2, <1>3, <2>2 DEF Shape, Handlers
    <2>. QED  BY <1>1, <2>1, <2>2
  <1>5. KernelTypeOK'
    BY <1>t, <1>2, <1>3 DEF KernelTypeOK, Frames
  <1>6. Progress'
    BY <1>t, <1>3 DEF Progress
  <1>7. Shape'
    BY <1>t, <1>1, <1>2, <1>3 DEF Shape
  <1>8. Flags'
    BY <1>t, <1>1, <1>2 DEF Flags
  <1>9. Serving'
    BY <1>4 DEF Serving, Handlers
  <1>. QED  BY <1>5, <1>6, <1>7, <1>8, <1>9 DEF Inv

(* An acknowledgement ends the service of the only line in service.         *)
LEMMA AckFacts ==
  ASSUME Inv, pic_ack, stack[Len(stack)].at \in {"isr", "ack"}
  PROVE  isr' = {}
  <1>1. isr = {stack[Len(stack)].line}
    BY DEF Inv, Serving
  <1>2. stack[Len(stack)].line \in Int
    BY TypeFacts, LineFacts, <1>1
  <1>. QED  BY <1>1, <1>2 DEF pic_ack

(* Device handlers, exceptions and system calls.                            *)
LEMMA HandlerInv ==
  ASSUME Inv, \/ KeyboardInterrupt \/ KeyboardAcknowledged \/ TimerInterrupt
              \/ Exception \/ syscall_handler
  PROVE  Inv'
  <1>t. KernelTypeOK /\ Progress /\ Shape /\ Flags /\ Serving
    BY DEF Inv
  <1>1. CASE KeyboardInterrupt
    <2>1. stack[Len(stack)].at = "isr" /\ Goto("ack") /\ "ack" \in Programs \cup Handlers
      BY <1>1 DEF KeyboardInterrupt, Running, Top, Handlers
    <2>2. /\ stack' \in Seq(Frames) /\ Len(stack') = Len(stack)
          /\ stack'[Len(stack)].at = "ack"
          /\ stack'[Len(stack)].line = stack[Len(stack)].line
          /\ stack'[Len(stack)].enabled = stack[Len(stack)].enabled
          /\ \A k \in 1 .. Len(stack) - 1 : stack'[k] = stack[k]
      BY <2>1, TypeFacts, GotoFacts
    <2>3. UNCHANGED <<pc, ready, irr, isr, imr, keyboard_input_on, raised>>
          /\ port' \in BOOLEAN
      BY <1>1 DEF KeyboardInterrupt, keyboard_isr, pic
    <2>4. Len(stack) \in 2 .. 3
      BY <1>t, <2>1, TypeFacts DEF Shape
    <2>5. stack'[1] = stack[1] /\ (Len(stack) = 3 => stack'[2] = stack[2])
      <3>1. \A n \in 2 .. 3 : 1 \in 1 .. n - 1 /\ (n = 3 => 2 \in 1 .. n - 1)
        OBVIOUS
      <3>. QED  BY <2>2, <2>4, <3>1
    <2>6. KernelTypeOK'
      BY <1>t, <2>2, <2>3, <2>4 DEF KernelTypeOK, Frames
    <2>7. Progress'
      BY <1>t, <2>3, <2>5 DEF Progress
    <2>8. Shape'
      BY <1>t, <2>1, <2>2, <2>3, <2>4, <2>5 DEF Shape, Handlers
    <2>9. Flags'
      BY <1>t, <2>1, <2>2, <2>3, <2>4, <2>5 DEF Flags, Handlers
    <2>10. Serving'
      BY <1>t, <2>1, <2>2, <2>3 DEF Serving
    <2>. QED  BY <2>6, <2>7, <2>8, <2>9, <2>10 DEF Inv
  <1>2. CASE KeyboardAcknowledged
    <2>1. stack[Len(stack)].at = "ack" /\ pic_ack /\ Return
      BY <1>2 DEF KeyboardAcknowledged, Running, Top
    <2>2. isr' = {}
      BY <2>1, AckFacts
    <2>3. UNCHANGED <<pc, ready, irr, imr, port, keyboard_input_on, raised>>
      BY <1>2 DEF KeyboardAcknowledged
    <2>. QED  BY <2>1, <2>2, <2>3, TypeFacts, ReturnInv DEF Handlers
  <1>3. CASE TimerInterrupt
    <2>1. stack[Len(stack)].at = "isr" /\ pic_ack /\ Return
      BY <1>3 DEF TimerInterrupt, Running, Top
    <2>2. isr' = {}
      BY <2>1, AckFacts
    <2>3. UNCHANGED <<pc, ready, irr, imr, port, keyboard_input_on, raised>>
      BY <1>3 DEF TimerInterrupt
    <2>. QED  BY <2>1, <2>2, <2>3, TypeFacts, ReturnInv DEF Handlers
  <1>4. CASE Exception
    <2>1. stack[Len(stack)].at = "fault" /\ Return
      BY <1>4 DEF Exception, Running, Top
    <2>2. UNCHANGED <<pc, ready, irr, isr, imr, port, keyboard_input_on, raised>>
      BY <1>4 DEF Exception, pic
    <2>3. isr' = {}
      BY <1>t, <2>1, <2>2 DEF Serving
    <2>. QED  BY <2>1, <2>2, <2>3, TypeFacts, ReturnInv DEF Handlers
  <1>5. CASE syscall_handler
    <2>1. stack[Len(stack)].at = "syscall" /\ Return /\ raised' = {}
      BY <1>5 DEF syscall_handler, Executes, Running, Top
    <2>2. UNCHANGED <<pc, ready, irr, isr, imr, port>>
      BY <1>5 DEF syscall_handler, pic
    <2>3. keyboard_input_on' \in BOOLEAN
      BY <1>5, TypeFacts DEF syscall_handler
    <2>4. isr' = {}
      BY <1>t, <2>1, <2>2 DEF Serving
    <2>. QED  BY <2>1, <2>2, <2>3, <2>4, TypeFacts, ReturnInv
  <1>. QED  BY <1>1, <1>2, <1>3, <1>4, <1>5

(* The user program calls or faults; a program that faults stays where it is. *)
LEMMA ProgramInv ==
  ASSUME Inv, Syscall \/ \E at \in {"user", "syscall", "stuck"} : Faults(at)
  PROVE  Inv'
  <1>t. KernelTypeOK /\ Progress /\ Shape /\ Flags /\ Serving
    BY DEF Inv
  <1>1. CASE Syscall
    <2>1. /\ stack[Len(stack)].at = "user" /\ Enter(SYSCALL, "syscall", NoLine, stack)
          /\ "syscall" \in Programs \cup Handlers
          /\ raised' = {} /\ UNCHANGED <<pc, ready, irr, isr, imr, port, keyboard_input_on>>
      BY <1>1 DEF Syscall, Executes, Running, Top, pic, Programs
    <2>2. Len(stack) = 1 /\ isr = {} /\ pc = 13
      BY <1>t, <2>1, TypeFacts DEF Shape, Serving, Handlers
    <2>3. /\ stack' \in Seq(Frames) /\ Len(stack') = 2
          /\ stack'[2].at = "syscall" /\ stack'[1] = stack[1]
      <3>1. stack \in Seq(Frames) /\ Len(stack) \in Nat \ {0}
        BY <2>2, TypeFacts
      <3>. QED  BY <2>1, <2>2, <3>1, EnterFacts
    <2>4. KernelTypeOK'
      BY <1>t, <2>1, <2>3 DEF KernelTypeOK, Frames
    <2>5. Progress' /\ Shape'
      BY <1>t, <2>1, <2>2, <2>3 DEF Progress, Shape
    <2>6. Flags'
      BY <1>t, <2>1, <2>2, <2>3 DEF Flags, Handlers
    <2>7. Serving'
      BY <2>1, <2>2, <2>3 DEF Serving
    <2>. QED  BY <2>4, <2>5, <2>6, <2>7 DEF Inv
  <1>2. ASSUME NEW at \in {"user", "syscall", "stuck"}, Faults(at) PROVE Inv'
    <2>. DEFINE below == [stack EXCEPT ![Len(stack)].at = "stuck"]
    <2>1. /\ stack[Len(stack)].at = at /\ Enter(13, "fault", NoLine, below)
          /\ raised' = {} /\ UNCHANGED <<pc, ready, irr, isr, imr, port, keyboard_input_on>>
      BY <1>2 DEF Faults, Executes, Running, Top, pic
    <2>2. "stuck" \in Programs \cup Handlers /\ "fault" \in Programs \cup Handlers
          /\ 13 # SYSCALL /\ NoLine \in Lines \cup {NoLine}
      BY DEF Programs, Handlers, SYSCALL
    <2>3. stack[Len(stack)].at \notin Handlers
      BY <2>1 DEF Handlers
    <2>4. /\ isr = {} /\ Len(stack) \in 1 .. 2
          /\ Len(stack) = 2 => stack[2].at \in {"syscall", "stuck"}
      BY <2>3, ProgramOnTop
    <2>5. /\ below \in Seq(Frames) /\ Len(below) = Len(stack)
          /\ below[Len(stack)].at = "stuck"
          /\ below[Len(stack)].enabled = stack[Len(stack)].enabled
          /\ \A k \in 1 .. Len(stack) - 1 : below[k] = stack[k]
      <3>1. stack \in Seq(Frames) /\ stack # <<>>
        BY TypeFacts
      <3>2. "stuck" \in Programs \cup Handlers
        BY <2>2
      <3>3. below = [stack EXCEPT ![Len(stack)].at = "stuck"]
        OBVIOUS
      <3>. HIDE DEF below
      <3>. QED  BY <3>1, <3>2, <3>3, AtFacts
    <2>. HIDE DEF below
    <2>6. /\ stack' \in Seq(Frames) /\ Len(stack') = Len(stack) + 1
          /\ stack'[Len(stack) + 1].at = "fault" /\ ~stack'[Len(stack) + 1].enabled
          /\ \A k \in 1 .. Len(stack) : stack'[k] = below[k]
      <3>1. Len(stack) \in Nat \ {0}
        BY <2>4
      <3>. QED  BY <2>1, <2>2, <2>5, <3>1, EnterFacts
    <2>7. pc = 13 /\ stack[1].at \in {"user", "stuck"}
          /\ (Len(stack) = 2 => stack[1].at = "user")
      BY <1>t, <2>1, <2>4 DEF Shape
    <2>8. /\ stack'[1].at \in {"user", "stuck"}
          /\ Len(stack) = 2 => stack'[1].at = "user" /\ stack'[2].at = "stuck"
      <3>1. CASE Len(stack) = 1
        BY <2>5, <2>6, <3>1
      <3>2. CASE Len(stack) = 2
        BY <2>5, <2>6, <2>7, <3>2
      <3>. QED  BY <2>4, <3>1, <3>2
    <2>9. KernelTypeOK'
      BY <1>t, <2>1, <2>4, <2>6 DEF KernelTypeOK, Frames
    <2>10. Progress'
      BY <1>t, <2>1, <2>7, <2>8 DEF Progress
    <2>11. Shape'
      BY <2>1, <2>4, <2>6, <2>7, <2>8 DEF Shape, Handlers
    <2>12. Flags'
      <3>1. ASSUME NEW k \in 1 .. Len(stack')
            PROVE  stack'[k].enabled => pc' > 3 /\ stack'[k].at \notin Handlers
        <4>1. CASE k = Len(stack) + 1
          BY <2>6, <4>1
        <4>2. CASE k = Len(stack)
          BY <2>1, <2>4, <2>5, <2>6, <2>7, <4>2 DEF Handlers
        <4>3. CASE k < Len(stack)
          BY <1>t, <2>1, <2>4, <2>5, <2>6, <2>7, <4>3 DEF Flags
        <4>. QED  BY <2>4, <2>6, <4>1, <4>2, <4>3
      <3>. QED  BY <3>1 DEF Flags
    <2>13. Serving'
      BY <2>1, <2>4, <2>6 DEF Serving
    <2>. QED  BY <2>9, <2>10, <2>11, <2>12, <2>13 DEF Inv
  <1>. QED  BY <1>1, <1>2

(* Devices, and instructions that change nothing modelled here.             *)
LEMMA QuietInv ==
  ASSUME Inv, Devices \/ Instruction \/ UNCHANGED vars
  PROVE  Inv'
  <1>1. /\ UNCHANGED <<pc, ready, stack, isr, imr, keyboard_input_on>>
        /\ irr' \subseteq Lines /\ raised' \subseteq Lines /\ port' \in BOOLEAN
    <2>1. CASE Tick
      BY <2>1, TypeFacts, LineFacts DEF Tick
    <2>2. CASE KeyPressed
      BY <2>2, TypeFacts, LineFacts DEF KeyPressed
    <2>3. ASSUME NEW i \in Lines, OtherDevice(i)
          PROVE  /\ UNCHANGED <<pc, ready, stack, isr, imr, keyboard_input_on>>
                 /\ irr' \subseteq Lines /\ raised' \subseteq Lines /\ port' \in BOOLEAN
      BY <2>3, TypeFacts DEF OtherDevice
    <2>4. CASE Instruction
      BY <2>4, TypeFacts DEF Instruction, Executes, pic
    <2>5. CASE UNCHANGED vars
      BY <2>5, TypeFacts DEF vars, pic
    <2>. QED  BY <2>1, <2>2, <2>3, <2>4, <2>5 DEF Devices
  <1>. QED  BY <1>1 DEF Inv, KernelTypeOK, Progress, Shape, Flags, Serving

(* Every step keeps the invariant.                                          *)
LEMMA StepInv == Inv /\ [Next]_vars => Inv'
  <1>. SUFFICES ASSUME Inv, [Next]_vars PROVE Inv'
    OBVIOUS
  <1>. QED  BY BootInv, InterruptInv, HandlerInv, ProgramInv, QuietInv
            DEF Next, Dispatch, Program

(* The invariant holds in every reachable state.                            *)
LEMMA InvAlways == Spec => []Inv
  BY InitInv, StepInv, PTL DEF Spec

(* Nothing enters before its way in is built: kernel_setup remaps the PIC and
   loads the IDT before the sti in initialize_idt, and enters user mode with
   everything the shell and its system calls need.                          *)
THEOREM EntriesAreReady == Spec => []EntriesReady
  <1>1. Inv => EntriesReady
    <2>. SUFFICES ASSUME Inv PROVE EntriesReady
      OBVIOUS
    <2>1. (\E k \in 1 .. Len(stack) : stack[k].enabled) => pc > 3
      BY DEF Inv, Flags
    <2>2. stack[1].at \notin {"boot", "halt"} => pc = 13
      BY DEF Inv, Shape
    <2>. QED  BY <2>1, <2>2 DEF Inv, Progress, EntriesReady, Top
  <1>. QED  BY <1>1, InvAlways, PTL

(* The gates bound the kernel stack for every set of interrupt lines: one
   system call and one handler, whatever faults or interrupts.              *)
THEOREM StackIsBounded == Spec => []NestingBounded
  <1>1. Inv => NestingBounded
    <2>. SUFFICES ASSUME Inv PROVE NestingBounded
      OBVIOUS
    <2>1. Len(stack) \in 1 .. 3 /\ stack[1].at \notin Handlers
          /\ (Len(stack) = 3 => stack[2].at \notin Handlers)
      BY DEF Inv, Shape, Handlers
    <2>2. \A n \in 1 .. 3 : \A k \in 1 .. n - 1 : k = 1 \/ (n = 3 /\ k = 2)
      OBVIOUS
    <2>3. Len(stack) <= 3
      <3>1. \A n \in 1 .. 3 : n <= 3
        OBVIOUS
      <3>. QED  BY <2>1, <3>1
    <2>4. \A k \in 1 .. Len(stack) - 1 : stack[k].at \notin Handlers
      BY <2>1, <2>2
    <2>. QED  BY <2>3, <2>4 DEF NestingBounded, Top
  <1>. QED  BY <1>1, InvAlways, PTL

(* The interrupt controller and the dispatcher agree: a line is in service
   exactly while its handler is on the stack, so PIC_ACK, which names no line,
   acknowledges the right one.                                              *)
THEOREM ServiceIsHandled == Spec => []InServiceHandled
  <1>1. Inv => InServiceHandled
    <2>. SUFFICES ASSUME Inv PROVE InServiceHandled
      OBVIOUS
    <2>1. Len(stack) \in 1 .. 3 /\ stack[1].at \notin Handlers
          /\ (Len(stack) = 3 => stack[2].at \notin Handlers)
      BY DEF Inv, Shape, Handlers
    <2>a. \A n \in 1 .. 3 : \A k \in 1 .. n : k = n \/ k = 1 \/ (n = 3 /\ k = 2)
      OBVIOUS
    <2>2. \A k \in 1 .. Len(stack) : stack[k].at \in {"isr", "ack"} => k = Len(stack)
      BY <2>a, <2>1 DEF Handlers
    <2>3. isr = IF stack[Len(stack)].at \in {"isr", "ack"}
                THEN {stack[Len(stack)].line} ELSE {}
      BY DEF Inv, Serving
    <2>. QED  BY <2>1, <2>2, <2>3 DEF InServiceHandled, Top
  <1>. QED  BY <1>1, InvAlways, PTL
=============================================================================
