----------------------------- MODULE BootProofs -----------------------------
(***************************************************************************)
(* Proofs about the console, the boot and the interrupts, for all sizes of *)
(* the buffers, all keys, devices and lengths of the run, and about the    *)
(* walk over the initial RAM disk, for all archives.                       *)
(***************************************************************************)
EXTENDS Boot, Initrd, DataLemmas, TLAPS

-----------------------------------------------------------------------------
(* The types of the console. *)

(* A search for the first or the last hit that has one returns it. *)
LEMMA MinIs ==
    ASSUME NEW S, S \subseteq Nat, S # {}
    PROVE  Min(S) \in S /\ \A y \in S : Min(S) <= y
<1>1. \E x \in S : \A y \in S : x <= y  BY LeastExists
<1> QED BY <1>1 DEF Min

LEMMA MaxIs ==
    ASSUME NEW n \in Nat, NEW S, S \subseteq 1..n, S # {}
    PROVE  Max(S) \in S
<1> DEFINE U == {n - i : i \in S}
<1>1. U \subseteq Nat /\ U # {}
  <2>1. \A i \in S : n - i \in Nat  OBVIOUS
  <2>2. PICK i \in S : TRUE  OBVIOUS
  <2> QED BY <2>1, <2>2
<1>2. PICK u \in U : \A y \in U : u <= y  BY <1>1, LeastExists
<1>3. PICK x \in S : u = n - x  BY <1>2
<1>4. \A y \in S : x >= y
  <2> SUFFICES ASSUME NEW y \in S PROVE x >= y  OBVIOUS
  <2>1. u <= n - y  BY <1>2
  <2> QED BY <1>3, <2>1
<1> QED BY <1>4 DEF Max

Item == Char \cup {">", "rub"}
Shown == Char \cup {">", "rub", "output"}

LEMMA ShowType ==
    ASSUME NEW seen \in Seq(Shown), NEW items \in Seq(Item)
    PROVE  Show(seen, items) \in Seq(Shown)
<1> DEFINE prompts == {i \in DOMAIN items : items[i] = ">"}
<1>1. items \in Seq(Shown)  BY DEF Item, Shown
<1>2. CASE prompts = {}
  <2>1. Show(seen, items) = seen \o items  BY <1>2 DEF Show
  <2> QED BY <1>1, <2>1
<1>3. CASE prompts # {}
  <2>1. prompts \subseteq 1..Len(items) /\ Len(items) \in Nat  OBVIOUS
  <2>2. Max(prompts) \in 1..Len(items)  BY <1>3, <2>1, MaxIs
  <2>3. Show(seen, items) = SubSeq(items, Max(prompts), Len(items))
    BY <1>3 DEF Show
  <2>4. \A i \in Max(prompts)..Len(items) : items[i] \in Shown
    <3> HIDE DEF prompts
    <3> QED BY <1>1, <2>2
  <2> HIDE DEF prompts
  <2> QED BY <2>2, <2>3, <2>4, SubSeqProperties
<1> QED BY <1>2, <1>3

LEMMA PutType ==
    ASSUME vga_buffer \in Seq(Item), screen \in Seq(Shown),
           NEW item \in Item, vga_buffer_put(item)
    PROVE  vga_buffer' \in Seq(Item) /\ screen' \in Seq(Shown)
<1>1. Append(vga_buffer, item) \in Seq(Item) /\ <<>> \in Seq(Item)  OBVIOUS
<1>2. Show(screen, Append(vga_buffer, item)) \in Seq(Shown)  BY <1>1, ShowType
<1> QED BY <1>1, <1>2 DEF vga_buffer_put

(* What the terminal is given. *)
LEMMA DeliverType ==
    ASSUME NEW buf \in Array(KEYBOARD_BUFFER_SIZE),
           NEW n \in 0..KEYBOARD_BUFFER_SIZE,
           terminal_buffer \in Array(MAX_TERMINAL_BUFFER_SIZE),
           terminal_buffer_length \in 0..(U16 - 1),
           received \in Seq(Char), wild \in BOOLEAN,
           deliver(buf, n)
    PROVE  /\ terminal_buffer' \in Array(MAX_TERMINAL_BUFFER_SIZE)
           /\ terminal_buffer_length' \in 0..(U16 - 1)
           /\ received' \in Seq(Char) /\ wild' \in BOOLEAN
<1>0. /\ KEYBOARD_BUFFER_SIZE \in Nat /\ MAX_TERMINAL_BUFFER_SIZE \in Nat
      /\ U16 \in Nat \ {0}
  BY ConsoleAssumption
<1>1. \A i \in 0..(n-1) : buf[i] \in Char  BY <1>0 DEF Array
<1>2. CASE keyboard_handler = "none"  BY <1>2 DEF deliver
<1>3. CASE keyboard_handler # "none"
  <2>1. kernel_keyboard_handler(buf, n)  BY <1>3 DEF deliver
  <2>2. terminal_buffer' \in Array(MAX_TERMINAL_BUFFER_SIZE)
    BY <1>0, <1>1, <2>1 DEF kernel_keyboard_handler, Array
  <2>3. terminal_buffer_length' \in 0..(U16 - 1)
    BY <1>0, <2>1 DEF kernel_keyboard_handler
  <2>4. [i \in 1..n |-> buf[i - 1]] \in Seq(Char)  BY <1>1
  <2> QED BY <2>1, <2>2, <2>3, <2>4 DEF kernel_keyboard_handler
<1> QED BY <1>2, <1>3

LEMMA Sizes ==
    /\ KEYBOARD_BUFFER_SIZE \in Nat /\ KEYBOARD_BUFFER_SIZE > 1
    /\ MAX_TERMINAL_BUFFER_SIZE \in Nat /\ MAX_TERMINAL_BUFFER_SIZE > 1
    /\ U16 \in Nat /\ MAX_TERMINAL_BUFFER_SIZE < U16
<1>1. /\ KEYBOARD_BUFFER_SIZE \in Nat \ {0, 1}
      /\ MAX_TERMINAL_BUFFER_SIZE \in Nat \ {0, 1}
      /\ U16 \in Nat \ {0, 1}
  BY ConsoleAssumption
<1>2. MAX_TERMINAL_BUFFER_SIZE + KEYBOARD_BUFFER_SIZE < U16
  BY ConsoleAssumption
<1> QED BY <1>1, <1>2

LEMMA LastType ==
    ASSUME TypeOK, AtTerminal
    PROVE  last \in Char /\ last \in Item
BY Sizes DEF TypeOK, AtTerminal, last, Array, Item

LEMMA TypesCheck == ASSUME TypeOK, CheckKeyboard PROVE TypeOK'
BY DEF TypeOK, CheckKeyboard, keyboard, terminal, display

LEMMA TypesFlush == ASSUME TypeOK, FlushKeyboard PROVE TypeOK'
<1>1. PICK n \in {size, keyboard_buffer_length} : deliver(keyboard_buffer, n)
  BY DEF FlushKeyboard
<1>2. n \in 0..KEYBOARD_BUFFER_SIZE  BY <1>1 DEF TypeOK
<1>3. /\ terminal_buffer' \in Array(MAX_TERMINAL_BUFFER_SIZE)
      /\ terminal_buffer_length' \in 0..(U16 - 1)
      /\ received' \in Seq(Char) /\ wild' \in BOOLEAN
  BY <1>1, <1>2, DeliverType DEF TypeOK
<1> QED BY <1>3, Sizes DEF TypeOK, FlushKeyboard, display

LEMMA TypesEmpty == ASSUME TypeOK, TerminalEmpty \/ TerminalBeyond PROVE TypeOK'
BY DEF TypeOK, TerminalEmpty, TerminalBeyond, keyboard, terminal, display

(* The token ends inside the line, and the argument inside the buffer. *)
LEMMA TypesEvaluate == ASSUME TypeOK, Evaluate PROVE TypeOK'
<1> DEFINE n == terminal_buffer_length
           buf == [terminal_buffer EXCEPT ![n - 1] = NUL]
           ends == {i \in 0..(n - 1) : buf[i] \in {" ", NUL}}
           stops == {i \in DOMAIN buf : i >= Min(ends) + 1 /\ buf[i] = NUL}
                       \cup {MAX_TERMINAL_BUFFER_SIZE}
           command == [token    |-> [i \in 1..Min(ends) |-> buf[i - 1]],
                       argument |-> StringAt(buf, Min(ends) + 1)]
<1>1. n \in 1..MAX_TERMINAL_BUFFER_SIZE /\ MAX_TERMINAL_BUFFER_SIZE \in Nat
  BY Sizes DEF Evaluate, AtTerminal
<1>2. /\ buf \in Array(MAX_TERMINAL_BUFFER_SIZE) /\ buf[n - 1] = NUL
      /\ DOMAIN buf = 0..(MAX_TERMINAL_BUFFER_SIZE - 1)
      /\ \A i \in 0..(MAX_TERMINAL_BUFFER_SIZE - 1) : buf[i] \in Char
  <2>1. terminal_buffer \in [0..(MAX_TERMINAL_BUFFER_SIZE - 1) -> Char]
    BY DEF TypeOK, Array
  <2>2. NUL \in Char /\ n - 1 \in 0..(MAX_TERMINAL_BUFFER_SIZE - 1)
    BY <1>1 DEF Char
  <2> HIDE DEF n
  <2>3. buf \in [0..(MAX_TERMINAL_BUFFER_SIZE - 1) -> Char] /\ buf[n - 1] = NUL
    BY <2>1, <2>2
  <2> QED BY <2>3 DEF Array
<1> HIDE DEF n, buf
<1>3. Min(ends) \in 0..(n - 1)
  <2>1. n - 1 \in ends
    <3>1. n - 1 \in 0..(n - 1)  BY <1>1
    <3> QED BY <1>2, <3>1
  <2>2. ends \subseteq 0..(n - 1)  OBVIOUS
  <2> HIDE DEF ends
  <2>3. ends \subseteq Nat /\ ends # {}  BY <2>1, <2>2
  <2>4. Min(ends) \in ends  BY <2>3, MinIs
  <2> QED BY <2>2, <2>4
<1>4. Min(stops) \in (Min(ends) + 1)..MAX_TERMINAL_BUFFER_SIZE
  <2>1. stops \subseteq (Min(ends) + 1)..MAX_TERMINAL_BUFFER_SIZE
    <3> HIDE DEF ends
    <3> QED BY <1>1, <1>2, <1>3
  <2>2. stops \subseteq Nat /\ stops # {}
    <3> MAX_TERMINAL_BUFFER_SIZE \in stops  OBVIOUS
    <3> HIDE DEF ends, stops
    <3> QED BY <1>1, <1>3, <2>1
  <2> QED BY <2>1, <2>2, MinIs
<1>5. StringAt(buf, Min(ends) + 1)
         = [i \in 1..(Min(stops) - (Min(ends) + 1)) |-> buf[Min(ends) + 1 + i - 1]]
  BY DEF StringAt
<1> HIDE DEF ends, stops
<1>6. command \in [token : Seq(Char), argument : Seq(Char)]
  <2>1. [i \in 1..Min(ends) |-> buf[i - 1]] \in Seq(Char)  BY <1>1, <1>2, <1>3
  <2>2. StringAt(buf, Min(ends) + 1) \in Seq(Char)
    <3> DEFINE k == Min(stops) - (Min(ends) + 1)
    <3>1. k \in Nat  BY <1>1, <1>3, <1>4
    <3>2. \A i \in 1..k : buf[Min(ends) + 1 + i - 1] \in Char
      BY <1>1, <1>2, <1>3, <1>4
    <3>3. StringAt(buf, Min(ends) + 1) = [i \in 1..k |-> buf[Min(ends) + 1 + i - 1]]
      BY <1>5
    <3> HIDE DEF k
    <3> QED BY <3>1, <3>2, <3>3
  <2> QED BY <2>1, <2>2
<1>7. /\ terminal_buffer' = buf /\ commands' = Append(commands, command)
      /\ screen' = Append(screen, "output") /\ pc' = "clear"
      /\ UNCHANGED <<keyboard, terminal_buffer_length, terminal_last_put,
                     vga_buffer, size, wild, typed, overtaken, received>>
  BY DEF Evaluate, n, buf, ends
<1> HIDE DEF command
<1>8. commands' \in Seq([token : Seq(Char), argument : Seq(Char)])
  BY <1>6, <1>7 DEF TypeOK
<1>9. screen' \in Seq(Char \cup {">", "rub", "output"})
  BY <1>7 DEF TypeOK
<1> QED BY <1>2, <1>7, <1>8, <1>9 DEF TypeOK, keyboard

LEMMA TypesClear == ASSUME TypeOK, Clear PROVE TypeOK'
<1>1. vga_buffer' \in Seq(Item) /\ screen' \in Seq(Shown)
  BY PutType DEF TypeOK, Clear, Item, Shown
<1>2. terminal_buffer' \in Array(MAX_TERMINAL_BUFFER_SIZE)
  BY DEF Clear, Cleared, Array, NUL, Char
<1> QED BY <1>1, <1>2, Sizes DEF TypeOK, Clear, keyboard, Item, Shown

LEMMA TypesBackspace == ASSUME TypeOK, Backspace PROVE TypeOK'
<1>1. vga_buffer' \in Seq(Item) /\ screen' \in Seq(Shown)
  BY PutType DEF TypeOK, Backspace, Item, Shown
<1>2. /\ terminal_buffer_length' \in 0..(U16 - 1)
      /\ terminal_last_put' \in 0..(U16 - 1)
  BY Sizes DEF TypeOK, Backspace
<1> QED BY <1>1, <1>2 DEF TypeOK, Backspace, keyboard, Item, Shown

LEMMA TypesEcho == ASSUME TypeOK, Echo PROVE TypeOK'
<1>1. vga_buffer' \in Seq(Item) /\ screen' \in Seq(Shown)
  BY PutType, LastType DEF TypeOK, Echo, display, Item, Shown
<1>2. terminal_last_put' \in 0..(U16 - 1)
  BY Sizes DEF TypeOK, Echo
<1> QED BY <1>1, <1>2 DEF TypeOK, Echo, keyboard, Item, Shown

LEMMA TypesShow == ASSUME TypeOK, vga_flush PROVE TypeOK'
<1>1. screen' \in Seq(Shown)
  BY ShowType DEF TypeOK, vga_flush, Item, Shown
<1> QED BY <1>1 DEF TypeOK, vga_flush, keyboard, terminal, Shown

LEMMA TypesLoop == ASSUME TypeOK, Loop PROVE TypeOK'
BY TypesCheck, TypesFlush, TypesEmpty, TypesEvaluate, TypesClear, TypesBackspace,
   TypesEcho, TypesShow DEF Loop, Round

LEMMA TypesKey == ASSUME TypeOK, KeyboardRoom, NEW c \in Char, Key(c) PROVE TypeOK'
<1>1. keyboard_buffer' \in Array(KEYBOARD_BUFFER_SIZE)
  BY Sizes DEF TypeOK, Key, KeyboardRoom, Array
<1>2. /\ terminal_buffer' \in Array(MAX_TERMINAL_BUFFER_SIZE)
      /\ terminal_buffer_length' \in 0..(U16 - 1)
      /\ received' \in Seq(Char) /\ wild' \in BOOLEAN
  <2>1. KEYBOARD_BUFFER_SIZE \in 0..KEYBOARD_BUFFER_SIZE  BY Sizes
  <2> QED BY <1>1, <2>1, DeliverType DEF TypeOK, Key
<1>3. keyboard_buffer_length' \in 0..KEYBOARD_BUFFER_SIZE
  BY Sizes DEF TypeOK, Key, KeyboardRoom
<1>4. typed' \in Seq(Char)  BY DEF TypeOK, Key
<1> QED BY <1>1, <1>2, <1>3, <1>4 DEF TypeOK, Key, display

-----------------------------------------------------------------------------
(* What a step of the kernel that is not the main loop leaves alone. *)
LEMMA LoopKeeps ==
    ASSUME MainLoop
    PROVE  /\ UNCHANGED <<dispatch, boot, shiftKeyDown, typist>>
           /\ keyboard_buffer_length' \in {keyboard_buffer_length, 0}
BY DEF MainLoop, Loop, Round, CheckKeyboard, FlushKeyboard, TerminalEmpty, TerminalBeyond,
       Evaluate, Clear, Backspace, Echo, vga_flush, keyboard

-----------------------------------------------------------------------------
(* A key's character makes the buffer longer by one, or empties it when it *)
(* is full.                                                                *)
LEMMA KeyFits ==
    ASSUME keyboard_buffer_length \in Nat, KeyboardRoom, NEW c, Key(c)
    PROVE  keyboard_buffer_length' \in Nat /\ KeyboardRoom'
<1>. KEYBOARD_BUFFER_SIZE \in Nat \ {0}  BY ConsoleAssumption
<1>. QED  BY DEF Key, KeyboardRoom

(* The keyboard's handler always has room for the next character: it       *)
(* writes inside keyboard_buffer at any time, also before it has anybody   *)
(* to give the buffer to.                                                  *)
THEOREM KeyboardRoomAlways == BootSpec => []KeyboardRoom
<1>. DEFINE Room == keyboard_buffer_length \in Nat /\ KeyboardRoom
<1>0. KEYBOARD_BUFFER_SIZE \in Nat \ {0}  BY ConsoleAssumption
<1>1. BootInit => Room  BY <1>0 DEF BootInit, PowerOn, KeyboardRoom
<1>2. Room /\ [BootNext]_bootVars => Room'
  <2>. SUFFICES ASSUME Room, [BootNext]_bootVars PROVE Room'
    OBVIOUS
  <2>1. CASE UNCHANGED vars
    BY <2>1 DEF vars, keyboard, KeyboardRoom
  <2>2. CASE keyboard_buffer_length' = keyboard_buffer_length
    BY <2>2 DEF KeyboardRoom
  <2>3. CASE Kernel
    <3>1. CASE MainLoop
      <4>1. keyboard_buffer_length' \in {keyboard_buffer_length, 0}  BY <3>1, LoopKeeps
      <4>. QED  BY <1>0, <4>1 DEF KeyboardRoom
    <3>2. CASE ~MainLoop
      <4>1. UNCHANGED vars \/ keyboard_buffer_length' = keyboard_buffer_length
        BY <2>3, <3>2 DEF Kernel, idt_initialize, memset, Register, PageFault, vmm_initialize,
           initrd_initialize, enable_interrupts, keyboard_set_handler, Prompt, keyboard
      <4>. QED  BY <4>1, <2>1, <2>2
    <3>. QED  BY <3>1, <3>2
  <2>4. ASSUME NEW n \in Lines, irq_handler(n) PROVE Room'
    <3>1. UNCHANGED vars \/ \E c : Key(c)
      BY <2>4 DEF irq_handler, keyboard_interrupt_handler
    <3>. QED  BY <3>1, <2>1, KeyFits
  <2>5. CASE Devices
    BY <2>5, <2>1 DEF Devices, Present, Raise
  <2>6. CASE UNCHANGED bootVars
    BY <2>6, <2>1 DEF bootVars
  <2>. QED  BY <2>3, <2>4, <2>5, <2>6 DEF BootNext
<1>. QED  BY <1>1, <1>2, PTL DEF BootSpec

-----------------------------------------------------------------------------
LEMMA MinOfOne ==
    ASSUME NEW n \in Int
    PROVE  Min({n}) = n
BY DEF Min

(* Whichever line the interrupt is from, the two commands that irq_handler *)
(* sends take it out of service, if there was none in service before.      *)
LEMMA Acknowledged ==
    ASSUME in_service = {}, NEW n \in Lines, acknowledge(n)
    PROVE  in_service' = {}
<1>. n \in (0..15) \ {2}  BY InterruptsAssumption
<1>0. IRQ(n) >= 20  BY DEF IRQ
<1>1. CASE n \in First
  <2>1. n \notin Second  BY <1>1 DEF First, Second
  <2>2. eoi({n}, Second) = {n}  BY <2>1 DEF eoi
  <2>3. eoi({n}, First) = {}
    <3>1. {n} \cap First = {n}  BY <1>1
    <3>. QED  BY <3>1, MinOfOne DEF eoi
  <2>4. in_service' = eoi(eoi({n}, Second), First)
    BY <1>0, <2>1 DEF acknowledge
  <2>. QED  BY <2>2, <2>3, <2>4
<1>2. CASE n \in Second
  <2>1. n \notin First /\ 2 \in First /\ 2 \notin Second /\ n # 2
    BY <1>2 DEF First, Second
  <2>2. eoi({n, 2}, Second) = {2}
    <3>1. {n, 2} \cap Second = {n}  BY <1>2, <2>1
    <3>2. {n, 2} \ {n} = {2}  BY <2>1
    <3>. QED  BY <3>1, <3>2, MinOfOne DEF eoi
  <2>3. eoi({2}, First) = {}
    <3>1. {2} \cap First = {2}  BY <2>1
    <3>. QED  BY <3>1, MinOfOne DEF eoi
  <2>4. in_service' = eoi(eoi({n, 2}, Second), First)
    <3>1. in_service \cup {n} \cup {2} = {n, 2}  OBVIOUS
    <3>. QED  BY <1>0, <1>2, <3>1 DEF acknowledge
  <2>. QED  BY <2>2, <2>3, <2>4
<1>3. n \in First \cup Second  BY DEF First, Second
<1>. QED  BY <1>1, <1>2, <1>3

(* No interrupt stays in service after its handler: none holds back those  *)
(* of its priority and below, on either controller.                        *)
THEOREM AllAcknowledgedAlways == BootSpec => []AllAcknowledged
<1>1. BootInit => AllAcknowledged  BY DEF BootInit, InterruptsInit, AllAcknowledged
<1>2. AllAcknowledged /\ [BootNext]_bootVars => AllAcknowledged'
  <2>. SUFFICES ASSUME AllAcknowledged, [BootNext]_bootVars PROVE AllAcknowledged'
    OBVIOUS
  <2>1. CASE Kernel
    <3>1. CASE MainLoop  BY <3>1, LoopKeeps DEF dispatch, AllAcknowledged
    <3>2. CASE ~MainLoop
      BY <2>1, <3>2 DEF AllAcknowledged, Kernel, idt_initialize, memset, Register, PageFault,
         vmm_initialize, initrd_initialize, enable_interrupts, keyboard_set_handler,
         Prompt, dispatch
    <3>. QED  BY <3>1, <3>2
  <2>2. ASSUME NEW n \in Lines, irq_handler(n) PROVE AllAcknowledged'
    BY <2>2, Acknowledged DEF irq_handler, AllAcknowledged
  <2>3. CASE Devices
    BY <2>3 DEF Devices, Present, Raise, AllAcknowledged
  <2>4. CASE UNCHANGED bootVars
    BY <2>4 DEF bootVars, dispatch, AllAcknowledged
  <2>. QED  BY <2>1, <2>2, <2>3, <2>4 DEF BootNext
<1>. QED  BY <1>1, <1>2, PTL DEF BootSpec

-----------------------------------------------------------------------------
LEMMA Calls ==
    /\ DOMAIN kernel_main = 1..12
    /\ kernel_main[1] = "idt_initialize"
    /\ kernel_main[2] = "memset"
    /\ kernel_main[3] = "paging_initialize"
    /\ kernel_main[4] = "vmm_initialize"
    /\ kernel_main[5] = "initrd_initialize"
    /\ kernel_main[6] = "enable_interrupts"
    /\ kernel_main[7] = "timer_initialize"
    /\ kernel_main[8] = "keyboard_initialize"
    /\ kernel_main[9] = "keyboard_set_handler"
    /\ kernel_main[10] = "prompt"
    /\ kernel_main[11] = "loop"
    /\ kernel_main[12] = "halt"
BY DEF kernel_main

Handlers == {"none", "page_fault_interrupt_handler", "timer_interrupt_handler",
             "keyboard_interrupt_handler"}

(* Until keyboard_initialize the keyboard's interrupt has no handler, and  *)
(* a code that came while there was none is counted as unheard.            *)
Heard ==
    /\ stage \in 1..12
    /\ interrupt_handler \in [Vectors -> Handlers]
    /\ interrupt_handler[IRQ(1)] \in {"none", "keyboard_interrupt_handler"}
    /\ stage <= 8 => interrupt_handler[IRQ(1)] = "none"
    /\ interrupt_handler[IRQ(1)] = "none" /\ port # None => unheard
    /\ NoCodeForgotten

(* A step that changes neither the table nor the keyboard and withdraws no *)
(* request keeps the invariant, if it is not the registration itself.      *)
LEMMA HeardKept ==
    ASSUME Heard, stage' \in 1..12, stage' <= 8 => stage <= 8,
           interrupt_handler' \in [Vectors -> Handlers],
           interrupt_handler'[IRQ(1)] = interrupt_handler[IRQ(1)],
           UNCHANGED <<port, unheard>>,
           1 \in request => 1 \in request'
    PROVE  Heard'
BY DEF Heard, NoCodeForgotten, None, IRQ

(* As long as there is no handler, a lost request is a code unheard. *)
LEMMA HeardBefore ==
    ASSUME Heard, stage \in 1..8, stage' \in 1..12,
           interrupt_handler' \in [Vectors -> Handlers],
           interrupt_handler'[IRQ(1)] = "none",
           UNCHANGED <<port, unheard>>
    PROVE  Heard'
BY DEF Heard, NoCodeForgotten, None, IRQ

(* A code that is presented after keyboard_initialize is never left at the *)
(* port without a request that makes the processor read it.                *)
THEOREM NoCodeForgottenAlways == BootSpec => []NoCodeForgotten
<1>0. IRQ(1) \in Vectors /\ IRQ(0) \in Vectors /\ 14 \in Vectors
      /\ IRQ(1) # IRQ(0) /\ IRQ(1) # 14
  BY DEF Vectors, IRQ
<1>a. Cleared_table \in [Vectors -> Handlers] /\ Cleared_table[IRQ(1)] = "none"
  <2>. DEFINE k == IRQ(1)
  <2>. HIDE DEF k
  <2>1. k \in Vectors  BY <1>0 DEF k
  <2>2. Cleared_table \in [Vectors -> Handlers] /\ Cleared_table[k] = "none"
    BY <2>1 DEF Cleared_table, Handlers
  <2>. QED  BY <2>2 DEF k
<1>b. ASSUME NEW v \in Vectors, NEW w \in Vectors, NEW handler \in Handlers,
             interrupt_handler \in [Vectors -> Handlers],
             register_interrupt_handler(v, handler)
      PROVE  /\ interrupt_handler' \in [Vectors -> Handlers]
             /\ interrupt_handler'[v] = handler
             /\ v # w => interrupt_handler'[w] = interrupt_handler[w]
  BY <1>b DEF register_interrupt_handler
<1>c. /\ "page_fault_interrupt_handler" \in Handlers
      /\ "timer_interrupt_handler" \in Handlers
      /\ "keyboard_interrupt_handler" \in Handlers
  BY DEF Handlers
<1>1. BootInit => Heard
  BY <1>a DEF BootInit, InterruptsInit, Heard, NoCodeForgotten
<1>2. Heard /\ [BootNext]_bootVars => Heard'
  <2>. SUFFICES ASSUME Heard, [BootNext]_bootVars PROVE Heard'
    OBVIOUS
  <2>0. /\ stage \in 1..12
        /\ interrupt_handler \in [Vectors -> Handlers]
        /\ stage <= 8 => interrupt_handler[IRQ(1)] = "none"
    BY DEF Heard
  <2>a. ASSUME NEW i \in 1..11, stage = i, stage' = stage + 1, i # 8,
               interrupt_handler' \in [Vectors -> Handlers],
               interrupt_handler'[IRQ(1)] = interrupt_handler[IRQ(1)],
               UNCHANGED <<port, unheard>>, UNCHANGED request \/ i <= 7
        PROVE  Heard'
    <3>1. stage' \in 1..12 /\ (stage' <= 8 => stage <= 8)  BY <2>a
    <3>2. CASE UNCHANGED request  BY <2>a, <3>1, <3>2, HeardKept
    <3>3. CASE i <= 7
      <4>1. stage \in 1..8  BY <2>a, <3>3
      <4>. QED  BY <2>0, <2>a, <3>1, <4>1, HeardBefore
    <3>. QED  BY <2>a, <3>2, <3>3
  <2>b. ASSUME UNCHANGED <<stage, interrupt_handler, port, unheard>>, 1 \in request => 1 \in request'
        PROVE  Heard'
    BY <2>0, <2>b, HeardKept
  <2>1. CASE idt_initialize
    <3>1. stage = 1  BY <2>0, <2>1, Calls DEF idt_initialize, Return, At
    <3>. QED  BY <2>0, <2>1, <2>a, <3>1 DEF idt_initialize, Return, typist
  <2>2. CASE memset
    <3>1. stage = 2  BY <2>0, <2>2, Calls DEF memset, Return, At
    <3>2. interrupt_handler[IRQ(1)] = "none"  BY <2>0, <3>1
    <3>. QED  BY <1>a, <2>0, <2>2, <2>a, <3>1, <3>2 DEF memset, Return, typist
  <2>3. CASE Register("paging_initialize", 14, "page_fault_interrupt_handler")
    <3>1. stage = 3  BY <2>0, <2>3, Calls DEF Register, Return, At
    <3>2. /\ interrupt_handler' \in [Vectors -> Handlers]
          /\ interrupt_handler'[IRQ(1)] = interrupt_handler[IRQ(1)]
      BY <1>0, <1>b, <1>c, <2>0, <2>3 DEF Register
    <3>. QED  BY <2>3, <2>a, <3>1, <3>2 DEF Register, Return, typist
  <2>4. CASE PageFault
    BY <2>4, <2>b DEF PageFault, dispatch, typist
  <2>5. CASE vmm_initialize
    <3>1. stage = 4  BY <2>0, <2>5, Calls DEF vmm_initialize, Return, At
    <3>. QED  BY <2>0, <2>5, <2>a, <3>1 DEF vmm_initialize, Return, dispatch, typist
  <2>6. CASE initrd_initialize
    <3>1. stage = 5  BY <2>0, <2>6, Calls DEF initrd_initialize, At
    <3>2. (CHOOSE s \in DOMAIN kernel_main : kernel_main[s] = "halt") = 12
      <4>1. \A s \in 1..12 : kernel_main[s] = "halt" <=> s = 12  BY Calls
      <4>. QED  BY <4>1, Calls
    <3>3. stage' \in {6, 12}  BY <2>6, <3>1, <3>2 DEF initrd_initialize
    <3>4. UNCHANGED <<port, unheard, interrupt_handler, request>>
      BY <2>6 DEF initrd_initialize, dispatch, typist
    <3>5. stage' \in 1..12 /\ stage <= 8  BY <3>1, <3>3
    <3>. QED  BY <2>0, <3>4, <3>5, HeardKept
  <2>7. CASE enable_interrupts
    <3>1. stage = 6  BY <2>0, <2>7, Calls DEF enable_interrupts, Return, At
    <3>. QED  BY <2>0, <2>7, <2>a, <3>1 DEF enable_interrupts, Return, typist
  <2>8. CASE Register("timer_initialize", IRQ(0), "timer_interrupt_handler")
    <3>1. stage = 7  BY <2>0, <2>8, Calls DEF Register, Return, At
    <3>2. /\ interrupt_handler' \in [Vectors -> Handlers]
          /\ interrupt_handler'[IRQ(1)] = interrupt_handler[IRQ(1)]
      BY <1>0, <1>b, <1>c, <2>0, <2>8 DEF Register
    <3>. QED  BY <2>8, <2>a, <3>1, <3>2 DEF Register, Return, typist
  <2>9. CASE Register("keyboard_initialize", IRQ(1), "keyboard_interrupt_handler")
    <3>1. stage = 8 /\ stage' = 9
      BY <2>0, <2>9, Calls DEF Register, Return, At
    <3>2. /\ interrupt_handler' \in [Vectors -> Handlers]
          /\ interrupt_handler'[IRQ(1)] = "keyboard_interrupt_handler"
      BY <1>0, <1>b, <1>c, <2>0, <2>9 DEF Register
    <3>3. UNCHANGED <<port, unheard, request>>
      BY <2>9 DEF Register, Return, typist
    <3>. QED  BY <3>1, <3>2, <3>3 DEF Heard, NoCodeForgotten
  <2>10. CASE keyboard_set_handler
    <3>1. stage = 9  BY <2>0, <2>10, Calls DEF keyboard_set_handler, Return, At
    <3>. QED  BY <2>0, <2>10, <2>a, <3>1 DEF keyboard_set_handler, Return, dispatch, typist
  <2>11. CASE Prompt
    <3>1. stage = 10  BY <2>0, <2>11, Calls DEF Prompt, Return, At
    <3>. QED  BY <2>0, <2>11, <2>a, <3>1 DEF Prompt, Return, dispatch, typist
  <2>12. CASE MainLoop
    BY <2>12, <2>b, LoopKeeps DEF dispatch, boot, typist
  <2>13. ASSUME NEW n \in Lines, irq_handler(n) PROVE Heard'
    <3>1. UNCHANGED <<stage, interrupt_handler, unheard>> /\ request' = request \ {n}
      BY <2>13 DEF irq_handler, acknowledge, boot
    <3>2. CASE port' = None
      BY <2>0, <3>1, <3>2 DEF Heard, NoCodeForgotten
    <3>3. CASE port' # None
      <4>1. UNCHANGED port /\ interrupt_handler[IRQ(n)] # "keyboard_interrupt_handler"
        BY <2>13, <3>3 DEF irq_handler, keyboard_interrupt_handler
      <4>2. CASE n = 1
        <5>1. interrupt_handler[IRQ(1)] = "none"  BY <4>1, <4>2 DEF Heard
        <5>. QED  BY <2>0, <3>1, <3>3, <4>1, <5>1 DEF Heard, NoCodeForgotten
      <4>3. CASE n # 1
        <5>1. 1 \in request => 1 \in request'  BY <3>1, <4>3
        <5>. QED  BY <2>b, <3>1, <4>1, <5>1
      <4>. QED  BY <4>2, <4>3
    <3>. QED  BY <3>2, <3>3
  <2>14. ASSUME NEW key, NEW released, Present(key, released) PROVE Heard'
    BY <2>0, <2>14 DEF Present, Heard, NoCodeForgotten, boot
  <2>15. ASSUME NEW n, Raise(n) PROVE Heard'
    BY <2>15, <2>b DEF Raise, boot, typist
  <2>16. CASE UNCHANGED bootVars
    BY <2>16, <2>b DEF bootVars, dispatch, boot, typist
  <2>. QED
    BY <2>1, <2>2, <2>3, <2>4, <2>5, <2>6, <2>7, <2>8, <2>9, <2>10, <2>11, <2>12, <2>13,
       <2>14, <2>15, <2>16
    DEF BootNext, Kernel, Devices
<1>3. Heard => NoCodeForgotten  BY DEF Heard
<1>. QED  BY <1>1, <1>2, <1>3, PTL DEF BootSpec

-----------------------------------------------------------------------------
(* The shift state once the code at the port has been read. *)
Read ==
    IF port = None THEN shiftKeyDown
    ELSE IF port.released THEN shiftKeyDown /\ port.key \notin Shifts
    ELSE port.key \in Shifts \/ shiftKeyDown

ShiftRead ==
    /\ shiftKeyDown \in BOOLEAN
    /\ held \cap Shifts = {} => ~Read
    /\ Shifts # {} /\ Shifts \subseteq held => Read

(* When all codes have been read, shiftKeyDown is false if no shift key is *)
(* down and true if all of them are, whatever came in between.             *)
THEOREM ShiftAsHeldAlways == BootSpec => []ShiftAsHeld
<1>0. Plain \cap Shifts = {} /\ "none" \notin Plain \cup Shifts
  BY BootAssumption
<1>1. BootInit => ShiftRead  BY DEF BootInit, ShiftRead, Read
<1>2. ShiftRead /\ [BootNext]_bootVars => ShiftRead'
  <2>. SUFFICES ASSUME ShiftRead, [BootNext]_bootVars PROVE ShiftRead'
    OBVIOUS
  <2>a. ASSUME UNCHANGED <<shiftKeyDown, port, held>> PROVE ShiftRead'
    BY <2>a DEF ShiftRead, Read
  <2>1. CASE Kernel
    <3>1. UNCHANGED <<shiftKeyDown, port, held>>
      <4>1. CASE MainLoop  BY <4>1, LoopKeeps DEF typist
      <4>2. CASE ~MainLoop
        BY <2>1, <4>2 DEF Kernel, idt_initialize, memset, Register, PageFault, Return,
           vmm_initialize, initrd_initialize, enable_interrupts, keyboard_set_handler,
           Prompt, typist
      <4>. QED  BY <4>1, <4>2
    <3>. QED  BY <2>a, <3>1
  <2>2. ASSUME NEW n \in Lines, irq_handler(n) PROVE ShiftRead'
    <3>1. CASE UNCHANGED <<shiftKeyDown, port>>
      BY <2>2, <2>a, <3>1 DEF irq_handler
    <3>2. CASE keyboard_interrupt_handler
      <4>1. UNCHANGED held /\ port' = None
        BY <2>2, <3>2 DEF irq_handler, keyboard_interrupt_handler
      <4>2. shiftKeyDown' \in BOOLEAN /\ (shiftKeyDown' <=> Read)
        <5>1. port = None => port.released = FALSE /\ port.key \notin Shifts
          BY <1>0 DEF None
        <5>2. shiftKeyDown \in BOOLEAN  BY DEF ShiftRead
        <5>3. CASE port.released /\ shiftKeyDown' = (shiftKeyDown /\ port.key \notin Shifts)
          BY <5>1, <5>2, <5>3 DEF Read
        <5>4. CASE ~port.released /\ port.key \in Shifts /\ shiftKeyDown' = TRUE
          BY <5>1, <5>2, <5>4 DEF Read
        <5>5. CASE ~port.released /\ port.key \notin Shifts /\ UNCHANGED shiftKeyDown
          BY <5>1, <5>2, <5>5 DEF Read
        <5>. QED  BY <3>2, <5>3, <5>4, <5>5 DEF keyboard_interrupt_handler
      <4>3. Read' <=> Read  BY <4>1, <4>2 DEF Read
      <4>. QED  BY <4>1, <4>2, <4>3 DEF ShiftRead
    <3>. QED  BY <2>2, <3>1, <3>2 DEF irq_handler
  <2>3. ASSUME NEW key \in Plain \cup Shifts, NEW released \in BOOLEAN,
               Present(key, released)
        PROVE  ShiftRead'
    <3>1. /\ port = None /\ UNCHANGED shiftKeyDown
          /\ port' = [key |-> key, released |-> released]
          /\ held' = IF released THEN held \ {key} ELSE held \cup {key}
      BY <2>3 DEF Present
    <3>2. port'.key = key /\ port'.released = released /\ port' # None
      BY <1>0, <3>1 DEF None
    <3>3. Read <=> shiftKeyDown  BY <3>1 DEF Read
    <3>4. CASE released
      <4>1. Read' <=> shiftKeyDown /\ key \notin Shifts  BY <3>1, <3>2, <3>4 DEF Read
      <4>2. held' = held \ {key}  BY <3>1, <3>4
      <4>3. CASE key \in Shifts
        BY <3>1, <4>1, <4>2, <4>3 DEF ShiftRead
      <4>4. CASE key \notin Shifts
        <5>1. held' \cap Shifts = held \cap Shifts /\ (Shifts \subseteq held' <=> Shifts \subseteq held)
          BY <4>2, <4>4
        <5>. QED  BY <3>1, <3>3, <4>1, <4>4, <5>1 DEF ShiftRead
      <4>. QED  BY <4>3, <4>4
    <3>5. CASE ~released
      <4>1. Read' <=> key \in Shifts \/ shiftKeyDown  BY <3>1, <3>2, <3>5 DEF Read
      <4>2. held' = held \cup {key}  BY <3>1, <3>5
      <4>3. CASE key \in Shifts
        <5>1. held' \cap Shifts # {}  BY <4>2, <4>3
        <5>. QED  BY <3>1, <4>1, <4>3, <5>1 DEF ShiftRead
      <4>4. CASE key \notin Shifts
        <5>1. held' \cap Shifts = held \cap Shifts /\ (Shifts \subseteq held' <=> Shifts \subseteq held)
          BY <4>2, <4>4
        <5>. QED  BY <3>1, <3>3, <4>1, <4>4, <5>1 DEF ShiftRead
      <4>. QED  BY <4>3, <4>4
    <3>. QED  BY <3>4, <3>5
  <2>4. ASSUME NEW n, Raise(n) PROVE ShiftRead'
    BY <2>4, <2>a DEF Raise, typist
  <2>5. CASE UNCHANGED bootVars
    BY <2>5, <2>a DEF bootVars, typist
  <2>. QED  BY <2>1, <2>2, <2>3, <2>4, <2>5 DEF BootNext, Devices
<1>3. ShiftRead => ShiftAsHeld  BY DEF ShiftRead, ShiftAsHeld, Read
<1>. QED  BY <1>1, <1>2, <1>3, PTL DEF BootSpec
-----------------------------------------------------------------------------
(* The characters that the keyboard's tables give. *)
LEMMA AsciiType ==
    ASSUME NEW key \in Plain
    PROVE  asciiNonShift(key) \in Char /\ asciiShift(key) \in Char
BY BootAssumption DEF asciiNonShift, asciiShift, Char, NUL

LEMMA EoiType ==
    ASSUME NEW lines, NEW controller
    PROVE  eoi(lines, controller) \subseteq lines
BY DEF eoi

LEMMA AcknowledgeType ==
    ASSUME InterruptsTypeOK, NEW n \in Lines, acknowledge(n)
    PROVE  request' \subseteq Lines /\ in_service' \subseteq Lines \cup {2}
<1> DEFINE taken == in_service \cup {n} \cup (IF n \in Second THEN {2} ELSE {})
           rest == IF IRQ(n) >= 20 THEN eoi(taken, Second) ELSE taken
<1>1. taken \subseteq Lines \cup {2}  BY DEF InterruptsTypeOK
<1>2. rest \subseteq taken  BY EoiType
<1>3. in_service' = eoi(rest, First) /\ request' = request \ {n}
  BY DEF acknowledge
<1> HIDE DEF taken, rest
<1>4. in_service' \subseteq rest  BY <1>3, EoiType
<1> QED BY <1>1, <1>2, <1>3, <1>4 DEF InterruptsTypeOK

(* The keyboard's handler runs for the keyboard only, and when a code      *)
(* waits for it.                                                           *)
KeysHeard ==
    /\ \A v \in Vectors :
          interrupt_handler[v] = "keyboard_interrupt_handler" => v = IRQ(1)
    /\ 1 \in request => port # None

LEMMA RegisterType ==
    ASSUME InterruptsTypeOK, KeysHeard, NEW v \in Vectors,
           NEW handler \in {"page_fault_interrupt_handler", "timer_interrupt_handler",
                            "keyboard_interrupt_handler"},
           handler = "keyboard_interrupt_handler" => v = IRQ(1),
           register_interrupt_handler(v, handler),
           UNCHANGED <<IF_flag, request, in_service, port>>
    PROVE  InterruptsTypeOK' /\ KeysHeard'
<1>1. interrupt_handler' \in [Vectors -> {"none", "page_fault_interrupt_handler",
                           "timer_interrupt_handler", "keyboard_interrupt_handler"}]
  BY DEF InterruptsTypeOK, register_interrupt_handler
<1>2. \A w \in Vectors : interrupt_handler'[w] = IF w = v THEN handler
                                                 ELSE interrupt_handler[w]
  BY DEF InterruptsTypeOK, register_interrupt_handler
<1> QED BY <1>1, <1>2 DEF InterruptsTypeOK, KeysHeard

(* What of the types is left when the console and the table keep theirs.   *)
BootRest ==
    /\ stage \in 1..12
    /\ mods_count \in {0, 1}
    /\ node_area \in BOOLEAN /\ shiftKeyDown \in BOOLEAN /\ unheard \in BOOLEAN
    /\ port \in {None} \cup [key : Plain \cup Shifts, released : BOOLEAN]
    /\ held \subseteq Plain \cup Shifts
    /\ codes \in 0..MaxCodes

BootTypes == TypeOK /\ InterruptsTypeOK /\ BootRest /\ KeysHeard

LEMMA TypesStutter == ASSUME TypeOK, UNCHANGED vars PROVE TypeOK'
BY DEF TypeOK, vars, keyboard, terminal, display

LEMMA DispatchStutter ==
    ASSUME InterruptsTypeOK, KeysHeard, UNCHANGED <<dispatch, port>>
    PROVE  InterruptsTypeOK' /\ KeysHeard'
BY DEF InterruptsTypeOK, KeysHeard, dispatch

LEMMA BootTypesKernel ==
    ASSUME BootTypes, Kernel
    PROVE  BootTypes'
<1>0. TypeOK /\ InterruptsTypeOK /\ BootRest /\ KeysHeard  BY DEF BootTypes
<1>a. IRQ(1) \in Vectors /\ IRQ(0) \in Vectors /\ 14 \in Vectors
  BY DEF Vectors
<1>b. stage = 12 => kernel_main[stage] = "halt"  BY Calls
<1>c. ASSUME NEW call, Return(call), call # "halt", UNCHANGED node_area
      PROVE  BootRest' /\ UNCHANGED port
  <2>1. stage # 12  BY <1>b, <1>c DEF Return, At
  <2>2. stage' \in 1..12  BY <1>0, <1>c, <2>1 DEF Return, BootRest
  <2> QED BY <1>0, <1>c, <2>2 DEF Return, BootRest, typist
<1>1. CASE idt_initialize
  <2>1. InterruptsTypeOK' /\ KeysHeard'
    BY <1>0, <1>1 DEF idt_initialize, InterruptsTypeOK, KeysHeard
  <2> QED BY <1>0, <1>1, <1>c, <2>1, TypesStutter DEF idt_initialize, BootTypes
<1>2. CASE memset
  <2>1. UNCHANGED <<IF_flag, request, in_service, port>>
    BY <1>2 DEF memset, Return, typist
  <2>2. \A v \in Vectors : interrupt_handler'[v] = "none"
    BY <1>2 DEF memset, Cleared_table
  <2>3. InterruptsTypeOK' /\ KeysHeard'
    BY <1>0, <1>2, <2>1, <2>2 DEF memset, InterruptsTypeOK, Cleared_table, KeysHeard
  <2> QED BY <1>0, <1>2, <1>c, <2>3, TypesStutter DEF memset, BootTypes
<1>3. ASSUME NEW call, call # "halt", NEW v \in Vectors,
             NEW handler \in {"page_fault_interrupt_handler", "timer_interrupt_handler",
                              "keyboard_interrupt_handler"},
             handler = "keyboard_interrupt_handler" => v = IRQ(1),
             Register(call, v, handler)
      PROVE  BootTypes'
  <2>1. InterruptsTypeOK' /\ KeysHeard'
    BY <1>0, <1>3, <1>c, RegisterType DEF Register, Return, typist
  <2> QED BY <1>0, <1>3, <1>c, <2>1, TypesStutter DEF Register, BootTypes
<1>4. CASE PageFault
  <2>1. BootRest'  BY <1>0, <1>4 DEF PageFault, BootRest, typist
  <2> QED BY <1>0, <1>4, <2>1, TypesStutter, DispatchStutter DEF PageFault, BootTypes, typist
<1>5. CASE vmm_initialize
  BY <1>0, <1>5, <1>c, TypesStutter, DispatchStutter DEF vmm_initialize, BootTypes, Return, typist
<1>6. CASE initrd_initialize
  <2>1. stage = 5  BY <1>0, <1>6, Calls DEF initrd_initialize, At, BootRest
  <2>2. (CHOOSE s \in DOMAIN kernel_main : kernel_main[s] = "halt") = 12
    <3>1. \A s \in 1..12 : kernel_main[s] = "halt" <=> s = 12  BY Calls
    <3> QED BY <3>1, Calls
  <2>3. stage' \in 1..12  BY <1>6, <2>1, <2>2 DEF initrd_initialize
  <2>4. BootRest'  BY <1>0, <1>6, <2>3 DEF initrd_initialize, BootRest, typist
  <2> QED BY <1>0, <1>6, <2>4, TypesStutter, DispatchStutter
          DEF initrd_initialize, BootTypes, typist
<1>7. CASE enable_interrupts
  <2>1. InterruptsTypeOK' /\ KeysHeard'
    BY <1>0, <1>7, <1>c DEF enable_interrupts, InterruptsTypeOK, KeysHeard
  <2> QED BY <1>0, <1>7, <1>c, <2>1, TypesStutter DEF enable_interrupts, BootTypes
<1>8. CASE keyboard_set_handler
  <2>1. TypeOK'  BY <1>0, <1>8 DEF keyboard_set_handler, TypeOK, terminal, display
  <2> QED BY <1>0, <1>8, <1>c, <2>1, DispatchStutter DEF keyboard_set_handler, BootTypes, Return, typist
<1>9. CASE Prompt
  <2>1. vga_buffer' \in Seq(Char \cup {">", "rub"})  BY <1>9 DEF Prompt
  <2>2. TypeOK'  BY <1>0, <1>9, <2>1 DEF Prompt, TypeOK, keyboard, terminal
  <2> QED BY <1>0, <1>9, <1>c, <2>2, DispatchStutter DEF Prompt, BootTypes, Return, typist
<1>10. CASE MainLoop
  <2>1. BootRest'  BY <1>0, <1>10 DEF MainLoop, BootRest, boot, typist
  <2> QED BY <1>0, <1>10, <2>1, TypesLoop, DispatchStutter DEF MainLoop, BootTypes, typist
<1> QED BY <1>1, <1>2, <1>3, <1>4, <1>5, <1>6, <1>7, <1>8, <1>9, <1>10, <1>a DEF Kernel

(* The keyboard's handler only ever runs for a code that waits, so what it *)
(* puts into the buffer is a character.                                    *)
LEMMA KeyOfIrq ==
    ASSUME BootTypes, NEW n \in Lines, irq_handler(n)
    PROVE  (UNCHANGED vars) \/ \E c \in Char : Key(c)
<1>1. CASE ~(UNCHANGED vars)
  <2>1. /\ interrupt_handler[IRQ(n)] = "keyboard_interrupt_handler" /\ n \in request
        /\ ~port.released /\ port.key \notin Shifts
        /\ Key(IF shiftKeyDown THEN asciiShift(port.key) ELSE asciiNonShift(port.key))
    BY <1>1 DEF irq_handler, keyboard_interrupt_handler, Deliverable
  <2>2. n = 1
    <3>1. IRQ(n) \in Vectors  BY DEF Vectors
    <3>2. IRQ(n) = IRQ(1)  BY <2>1, <3>1 DEF BootTypes, KeysHeard
    <3> QED BY <3>2, InterruptsAssumption DEF IRQ
  <2>3. port # None  BY <2>1, <2>2 DEF BootTypes, KeysHeard
  <2>4. port.key \in Plain  BY <2>1, <2>3 DEF BootTypes, BootRest
  <2> QED BY <2>1, <2>4, AsciiType
<1> QED BY <1>1

LEMMA BootTypesIrq ==
    ASSUME BootTypes, KeyboardRoom, NEW n \in Lines, irq_handler(n)
    PROVE  BootTypes'
<1>0. TypeOK /\ InterruptsTypeOK /\ BootRest /\ KeysHeard  BY DEF BootTypes
<1>1. InterruptsTypeOK'
  BY <1>0, AcknowledgeType DEF irq_handler, InterruptsTypeOK
<1>a. UNCHANGED interrupt_handler /\ request' = request \ {n} /\ n \in request
  BY DEF irq_handler, acknowledge, Deliverable
<1>2. CASE UNCHANGED <<vars, shiftKeyDown, port>>
  <2>1. BootRest'  BY <1>0, <1>2 DEF irq_handler, BootRest, boot
  <2>2. KeysHeard'  BY <1>0, <1>2, <1>a DEF KeysHeard
  <2> QED BY <1>0, <1>1, <1>2, <2>1, <2>2, TypesStutter DEF BootTypes
<1>3. CASE /\ interrupt_handler[IRQ(n)] = "keyboard_interrupt_handler"
           /\ keyboard_interrupt_handler
  <2>1. shiftKeyDown' \in BOOLEAN /\ port' = None
    BY <1>0, <1>3 DEF keyboard_interrupt_handler, BootRest
  <2>2. BootRest'  BY <1>0, <2>1 DEF irq_handler, BootRest, boot
  <2>3. n = 1
    <3>1. IRQ(n) \in Vectors  BY DEF Vectors
    <3>2. IRQ(n) = IRQ(1)  BY <1>0, <1>3, <3>1 DEF KeysHeard
    <3> QED BY <3>2, InterruptsAssumption DEF IRQ
  <2>4. port # None /\ KeysHeard'
    BY <1>0, <1>a, <2>3 DEF KeysHeard
  <2>5. CASE UNCHANGED vars
    BY <1>0, <1>1, <2>2, <2>4, <2>5, TypesStutter DEF BootTypes
  <2>6. CASE \E c \in Char : Key(c)
    <3>1. TypeOK'  BY <1>0, <2>6, TypesKey
    <3> QED BY <1>1, <2>2, <2>4, <3>1 DEF BootTypes
  <2> QED BY <2>5, <2>6, KeyOfIrq
<1> QED BY <1>2, <1>3 DEF irq_handler

LEMMA MaxCodesType == MaxCodes \in Nat
<1>1. MaxKeys \in Nat /\ MaxCodes \in 0..MaxKeys
  BY ConsoleAssumption, BootAssumption
<1> QED BY <1>1

LEMMA BootTypesDevices ==
    ASSUME BootTypes, Devices
    PROVE  BootTypes'
<1>0. TypeOK /\ InterruptsTypeOK /\ BootRest /\ KeysHeard  BY DEF BootTypes
<1>1. ASSUME NEW key \in Plain \cup Shifts, NEW released \in BOOLEAN,
             Present(key, released)
      PROVE  BootTypes'
  <2>1. InterruptsTypeOK'
    BY <1>0, <1>1, BootAssumption DEF Present, InterruptsTypeOK
  <2>2. port' \in [key : Plain \cup Shifts, released : BOOLEAN] /\ port' # None
    <3>1. key # "none"  BY BootAssumption
    <3>2. port'.key = key /\ port' \in [key : Plain \cup Shifts, released : BOOLEAN]
      BY <1>1 DEF Present
    <3> QED BY <3>1, <3>2 DEF None
  <2>3. KeysHeard'  BY <1>0, <1>1, <2>2 DEF Present, KeysHeard
  <2>4. codes' \in 0..MaxCodes /\ held' \subseteq Plain \cup Shifts
    BY <1>0, <1>1, MaxCodesType DEF Present, BootRest
  <2>5. unheard' \in BOOLEAN  BY <1>0, <1>1 DEF Present, BootRest
  <2>6. BootRest'
    BY <1>0, <1>1, <2>2, <2>4, <2>5 DEF Present, BootRest, boot
  <2> QED BY <1>0, <1>1, <2>1, <2>3, <2>6, TypesStutter DEF Present, BootTypes
<1>2. ASSUME NEW n \in Lines \ {1}, Raise(n)
      PROVE  BootTypes'
  <2>1. InterruptsTypeOK' /\ KeysHeard'
    BY <1>0, <1>2 DEF Raise, InterruptsTypeOK, KeysHeard, typist
  <2>2. BootRest'  BY <1>0, <1>2 DEF Raise, BootRest, boot, typist
  <2> QED BY <1>0, <1>2, <2>1, <2>2, TypesStutter DEF Raise, BootTypes
<1> QED BY <1>1, <1>2 DEF Devices

LEMMA BootTypesAlways == BootSpec => []BootTypes
<1>1. BootInit => BootTypes
  <2> SUFFICES ASSUME BootInit PROVE BootTypes  OBVIOUS
  <2>1. TypeOK
    BY Sizes DEF BootInit, PowerOn, TypeOK, Cleared, Array, NUL, Char
  <2>2. InterruptsTypeOK /\ KeysHeard
    BY DEF BootInit, InterruptsInit, InterruptsTypeOK, Cleared_table, KeysHeard
  <2>3. codes \in 0..MaxCodes /\ stage \in 1..12
    BY MaxCodesType DEF BootInit
  <2>4. port \in {None} \cup [key : Plain \cup Shifts, released : BOOLEAN]
    BY DEF BootInit
  <2>5. BootRest  BY <2>3, <2>4 DEF BootInit, BootRest
  <2> QED BY <2>1, <2>2, <2>5 DEF BootTypes
<1>2. BootTypes /\ KeyboardRoom /\ [BootNext]_bootVars => BootTypes'
  <2> SUFFICES ASSUME BootTypes, KeyboardRoom, [BootNext]_bootVars PROVE BootTypes'
    OBVIOUS
  <2>1. CASE UNCHANGED bootVars
    <3>1. BootRest'  BY <2>1 DEF BootTypes, BootRest, bootVars, boot, typist
    <3> QED BY <2>1, <3>1, TypesStutter, DispatchStutter DEF BootTypes, bootVars, typist
  <2> QED BY <2>1, BootTypesKernel, BootTypesIrq, BootTypesDevices DEF BootNext
<1> QED BY <1>1, <1>2, KeyboardRoomAlways, PTL DEF BootSpec

(* Through set-up and main loop, whatever interrupts come, the buffers     *)
(* hold characters, the lengths fit a u16int, a command is two strings     *)
(* that end inside terminal_buffer, and the table has handlers only.       *)
THEOREM BootTypeCorrect == BootSpec => []BootTypeOK
<1>1. BootTypes => BootTypeOK
  BY Calls DEF BootTypes, BootRest, BootTypeOK
<1> QED BY <1>1, BootTypesAlways, PTL

-----------------------------------------------------------------------------
(* The order of the keys.  The characters of keyboard_buffer are the last  *)
(* ones typed, and what the terminal has received are some of the others,  *)
(* in their order.  size is a length that the buffer had since it was      *)
(* flushed last.                                                           *)
Pending == Len(typed) - keyboard_buffer_length

InOrder(r, keys, n) ==
    \E at \in [1..Len(r) -> 1..n] :
        /\ \A i, j \in 1..Len(r) : i < j => at[i] < at[j]
        /\ \A i \in 1..Len(r) : r[i] = keys[at[i]]

Buffered(buf, l, keys, p) == \A i \in 0..(l - 1) : buf[i] = keys[p + i + 1]

Ordered == ~overtaken =>
    /\ keyboard_buffer_length <= Len(typed)
    /\ Buffered(keyboard_buffer, keyboard_buffer_length, typed, Pending)
    /\ pc = "disabled" => size <= keyboard_buffer_length
    /\ InOrder(received, typed, Pending)

(* The first n characters of the buffer come behind those received.        *)
LEMMA OrderedDeliver ==
    ASSUME NEW keys \in Seq(Char), received \in Seq(Char), NEW buf,
           NEW p \in Nat, NEW l \in Nat, p + l = Len(keys),
           Buffered(buf, l, keys, p), InOrder(received, keys, p),
           NEW n \in 0..l,
           deliver(buf, n)
    PROVE  InOrder(received', keys, Len(keys))
<1> DEFINE L == Len(received)
<1>1. Len(keys) \in Nat /\ L \in Nat  BY LenProperties
<1>2. PICK at \in [1..L -> 1..p] :
         /\ \A i, j \in 1..L : i < j => at[i] < at[j]
         /\ \A i \in 1..L : received[i] = keys[at[i]]
  BY DEF InOrder
<1>3. CASE keyboard_handler = "none"
  <2>1. received' = received  BY <1>3 DEF deliver
  <2>2. at \in [1..L -> 1..Len(keys)]
    <3> HIDE DEF L
    <3> QED BY <1>1
  <2> QED BY <1>2, <2>1, <2>2 DEF InOrder
<1>4. CASE keyboard_handler # "none"
  <2> DEFINE got == [i \in 1..n |-> buf[i - 1]]
             to == [i \in 1..(L + n) |-> IF i <= L THEN at[i] ELSE p + (i - L)]
  <2>1. received' = received \o got  BY <1>4 DEF deliver, kernel_keyboard_handler
  <2>2. \A i \in 1..n : buf[i - 1] = keys[p + i]
    <3>1. \A i \in 0..(l - 1) : buf[i] = keys[p + i + 1]
      BY DEF Buffered
    <3> SUFFICES ASSUME NEW i \in 1..n PROVE buf[i - 1] = keys[p + i]
      OBVIOUS
    <3>2. i - 1 \in 0..(l - 1) /\ p + (i - 1) + 1 = p + i
      BY <1>1
    <3> QED BY <3>1, <3>2
  <2>3. got \in Seq(Char) /\ Len(got) = n /\ \A i \in 1..n : got[i] = keys[p + i]
    <3>1. \A i \in 1..n : keys[p + i] \in Char
      <4> SUFFICES ASSUME NEW i \in 1..n PROVE keys[p + i] \in Char  OBVIOUS
      <4>1. p + i \in 1..Len(keys)  BY <1>1
      <4> QED BY <1>1, <4>1
    <3>2. n \in Nat  BY <1>1
    <3>3. \A i \in 1..n : buf[i - 1] \in Char  BY <2>2, <3>1
    <3>4. got \in Seq(Char) /\ Len(got) = n  BY <3>2, <3>3
    <3>5. \A i \in 1..n : got[i] = buf[i - 1]  OBVIOUS
    <3> QED BY <2>2, <3>4, <3>5
  <2> HIDE DEF L, got
  <2>4. /\ Len(received') = L + n
        /\ \A i \in 1..(L + n) : received'[i] = IF i <= L THEN received[i] ELSE got[i - L]
    <3>1. received \in Seq(Char) /\ got \in Seq(Char) /\ Len(got) = n  BY <1>1, <2>3
    <3> QED BY ONLY <2>1, <3>1, ConcatProperties DEF L
  <2>5. to \in [1..(L + n) -> 1..Len(keys)]
    BY <1>1, <1>2
  <2>6. \A i, j \in 1..(L + n) : i < j => to[i] < to[j]
    BY <1>1, <1>2
  <2>7. \A i \in 1..(L + n) : received'[i] = keys[to[i]]
    <3> SUFFICES ASSUME NEW i \in 1..(L + n) PROVE received'[i] = keys[to[i]]
      OBVIOUS
    <3>1. CASE i <= L
      <4>1. i \in 1..L /\ to[i] = at[i]  BY <1>1, <3>1
      <4> HIDE DEF to
      <4> QED BY <1>2, <2>4, <3>1, <4>1
    <3>2. CASE ~(i <= L)
      <4>1. i - L \in 1..n /\ to[i] = p + (i - L)  BY <1>1, <3>2
      <4> HIDE DEF to
      <4> QED BY <2>3, <2>4, <3>2, <4>1
    <3> QED BY <3>1, <3>2
  <2> HIDE DEF to
  <2> QED BY <2>4, <2>5, <2>6, <2>7 DEF InOrder
<1> QED BY <1>3, <1>4

LEMMA OrderedStutter ==
    ASSUME Ordered,
           UNCHANGED <<keyboard_buffer, keyboard_buffer_length, received, typed, overtaken>>,
           pc' = "disabled" => (pc = "disabled" /\ size' = size)
    PROVE  Ordered'
BY DEF Ordered, Pending, InOrder, Buffered

(* What is left when the buffer has just been emptied.                     *)
LEMMA OrderedEmptied ==
    ASSUME typed' \in Seq(Char), keyboard_buffer_length' = 0, pc' # "disabled",
           InOrder(received', typed', Len(typed'))
    PROVE  Ordered'
<1>1. Len(typed') \in Nat  BY LenProperties
<1>2. Pending' = Len(typed') /\ keyboard_buffer_length' <= Len(typed')
  BY <1>1 DEF Pending
<1>3. Buffered(keyboard_buffer, keyboard_buffer_length, typed, Pending)'
  BY DEF Buffered
<1> QED BY <1>2, <1>3 DEF Ordered

LEMMA OrderedLoop == ASSUME TypeOK, Ordered, Loop PROVE Ordered'
<1>1. CASE CheckKeyboard
  <2>1. /\ size' = keyboard_buffer_length /\ keyboard_buffer_length \in Nat
        /\ UNCHANGED <<keyboard_buffer, keyboard_buffer_length, received, typed, overtaken>>
    BY <1>1 DEF CheckKeyboard, keyboard, TypeOK
  <2> QED BY <2>1 DEF Ordered, Pending, InOrder, Buffered
<1>2. CASE FlushKeyboard
  <2> SUFFICES ASSUME ~overtaken' PROVE Ordered'  BY DEF Ordered
  <2>1. UNCHANGED <<typed, overtaken>> /\ keyboard_buffer_length' = 0 /\ pc' = "terminal"
    BY <1>2 DEF FlushKeyboard
  <2>2. PICK n \in {size, keyboard_buffer_length} : deliver(keyboard_buffer, n)
    BY <1>2 DEF FlushKeyboard
  <2>3. /\ keyboard_buffer_length <= Len(typed) /\ n \in 0..keyboard_buffer_length
        /\ Buffered(keyboard_buffer, keyboard_buffer_length, typed, Pending)
        /\ InOrder(received, typed, Pending)
    BY <1>2, <2>1 DEF FlushKeyboard, Ordered, TypeOK
  <2>4. /\ typed \in Seq(Char) /\ received \in Seq(Char)
        /\ keyboard_buffer_length \in Nat
        /\ Pending \in Nat /\ Pending + keyboard_buffer_length = Len(typed)
    BY <2>3, LenProperties DEF TypeOK, Pending
  <2>5. InOrder(received', typed, Len(typed))
    BY <2>2, <2>3, <2>4, OrderedDeliver
  <2> QED BY <2>1, <2>4, <2>5, OrderedEmptied
<1>3. CASE ~CheckKeyboard /\ ~FlushKeyboard
  BY <1>3, OrderedStutter DEF Loop, Round, TerminalEmpty, TerminalBeyond, Evaluate, Clear,
     Backspace, Echo, vga_flush, keyboard, terminal, AtTerminal
<1> QED BY <1>1, <1>2, <1>3

LEMMA OrderedKey ==
    ASSUME TypeOK, KeyboardRoom, Ordered, NEW c \in Char, Key(c)
    PROVE  Ordered'
<1> SUFFICES ASSUME ~overtaken' PROVE Ordered'  BY DEF Ordered
<1> DEFINE l == keyboard_buffer_length
           N == KEYBOARD_BUFFER_SIZE
<1>0. /\ typed \in Seq(Char) /\ received \in Seq(Char) /\ Len(typed) \in Nat
      /\ l \in Nat /\ N \in Nat /\ l < N
      /\ keyboard_buffer \in [0..(N-1) -> Char]
  BY Sizes DEF TypeOK, Array, KeyboardRoom
<1>1. /\ typed' = Append(typed, c) /\ Len(typed') = Len(typed) + 1
      /\ \A i \in 1..Len(typed) : typed'[i] = typed[i]
      /\ typed'[Len(typed) + 1] = c /\ typed' \in Seq(Char)
  BY <1>0 DEF Key
<1>2. /\ ~overtaken /\ (l + 1 = N => pc # "disabled")
      /\ keyboard_buffer' = [keyboard_buffer EXCEPT ![l] = c]
      /\ UNCHANGED <<pc, size>>
  <2>1. l + 1 # N => overtaken' = overtaken  BY DEF Key
  <2>2. l + 1 = N => overtaken' = (overtaken \/ pc = "disabled")  BY DEF Key
  <2>3. ~overtaken /\ (l + 1 = N => pc # "disabled")
    <3> DEFINE x == overtaken \/ pc = "disabled"
    <3>1. CASE l + 1 # N
      <4>1. overtaken' = overtaken  BY <2>1, <3>1
      <4> QED BY <3>1, <4>1
    <3>2. CASE l + 1 = N
      <4>1. overtaken' = x  BY <2>2, <3>2
      <4> HIDE DEF x
      <4>2. ~x  BY <4>1
      <4> QED BY <4>2 DEF x
    <3> QED BY <3>1, <3>2
  <2>4. keyboard_buffer' = [keyboard_buffer EXCEPT ![l] = c]  BY DEF Key
  <2>5. UNCHANGED <<pc, size>>  BY DEF Key
  <2> QED BY <2>3, <2>4, <2>5
<1>3. /\ l <= Len(typed) /\ (pc = "disabled" => size <= l)
      /\ \A i \in 0..(l - 1) : keyboard_buffer[i] = typed[Pending + i + 1]
      /\ InOrder(received, typed, Pending)
  BY <1>2 DEF Ordered, Buffered
<1>4. Pending \in Nat /\ Pending + l = Len(typed) /\ Pending + (l + 1) = Len(typed')
  BY <1>0, <1>1, <1>3 DEF Pending
<1>5. Buffered(keyboard_buffer', l + 1, typed', Pending)
  <2> SUFFICES ASSUME NEW i \in 0..l
               PROVE  keyboard_buffer'[i] = typed'[Pending + i + 1]
    BY <1>0 DEF Buffered
  <2>1. CASE i = l
    <3>1. keyboard_buffer'[i] = c  BY <1>0, <1>2, <2>1
    <3>2. Pending + i + 1 = Len(typed) + 1  BY <1>4, <2>1
    <3> QED BY <1>1, <3>1, <3>2
  <2>2. CASE i # l
    <3>1. i \in 0..(l - 1) /\ Pending + i + 1 \in 1..Len(typed)
      BY <1>0, <1>4, <2>2
    <3>2. keyboard_buffer'[i] = keyboard_buffer[i]  BY <1>0, <1>2, <2>2
    <3> QED BY <1>1, <1>3, <3>1, <3>2
  <2> QED BY <2>1, <2>2
<1>6. InOrder(received, typed', Pending)
  <2>1. PICK at \in [1..Len(received) -> 1..Pending] :
           /\ \A i, j \in 1..Len(received) : i < j => at[i] < at[j]
           /\ \A i \in 1..Len(received) : received[i] = typed[at[i]]
    BY <1>3 DEF InOrder
  <2>2. \A i \in 1..Len(received) : at[i] \in 1..Len(typed)
    BY <1>0, <1>4
  <2>3. \A i \in 1..Len(received) : received[i] = typed'[at[i]]
    BY <1>1, <2>1, <2>2
  <2> QED BY <2>1, <2>3 DEF InOrder
<1>7. CASE l + 1 # N
  <2>1. l' = l + 1 /\ received' = received  BY <1>7 DEF Key
  <2>2. Pending' = Pending  BY <1>0, <1>1, <2>1 DEF Pending
  <2>3. l' <= Len(typed') /\ (pc' = "disabled" => size' <= l')
    BY <1>0, <1>1, <1>2, <1>3, <2>1 DEF TypeOK
  <2>4. Buffered(keyboard_buffer', l', typed', Pending')  BY <1>5, <2>1, <2>2
  <2>5. InOrder(received', typed', Pending')  BY <1>6, <2>1, <2>2
  <2> QED BY <2>3, <2>4, <2>5 DEF Ordered
<1>8. CASE l + 1 = N
  <2>1. l' = 0 /\ pc' # "disabled" /\ deliver(keyboard_buffer', l + 1)
    BY <1>2, <1>8 DEF Key
  <2>2. l + 1 \in 0..(l + 1) /\ l + 1 \in Nat  BY <1>0
  <2>3. InOrder(received', typed', Len(typed'))
    <3> HIDE DEF l
    <3> QED BY <1>0, <1>1, <1>4, <1>5, <1>6, <2>1, <2>2, OrderedDeliver
  <2> QED BY <1>1, <2>1, <2>3, OrderedEmptied
<1> QED BY <1>7, <1>8

(* The terminal receives no key twice and none before an earlier one, from *)
(* power on, with any number of keys, whoever flushes the buffer           *)
(* (keyboard.c:32 and keyboard.c:87) and whichever length keyboard_flush   *)
(* uses, which it reads before it disables interrupts: unless the handler  *)
(* flushes between that reading and the disabling (keyboard.c:38).         *)
THEOREM KeysInOrderAlways == BootSpec => []KeysInOrder
<1>1. BootInit => Ordered
  <2> SUFFICES ASSUME BootInit PROVE Ordered  OBVIOUS
  <2>1. /\ Len(received) = 0 /\ Len(typed) = 0 /\ keyboard_buffer_length = 0
        /\ pc = "keyboard_flush"
    BY DEF BootInit, PowerOn
  <2>2. [i \in 1..0 |-> 1] \in [1..0 -> 1..0]  OBVIOUS
  <2>3. InOrder(received, typed, 0)
    <3> DEFINE at == [i \in 1..0 |-> 1]
    <3>1. at \in [1..Len(received) -> 1..0]  BY <2>1, <2>2
    <3>2. \A i \in 1..Len(received) : FALSE  BY <2>1
    <3> QED BY <3>1, <3>2 DEF InOrder
  <2> QED BY <2>1, <2>3 DEF Ordered, Pending, Buffered
<1>2. BootTypes /\ KeyboardRoom /\ Ordered /\ [BootNext]_bootVars => Ordered'
  <2> SUFFICES ASSUME BootTypes, KeyboardRoom, Ordered, [BootNext]_bootVars PROVE Ordered'
    OBVIOUS
  <2>0. TypeOK /\ BootRest /\ KeysHeard  BY DEF BootTypes
  <2>a. ASSUME UNCHANGED vars PROVE Ordered'
    BY <2>a, OrderedStutter DEF vars, keyboard
  <2>1. CASE Kernel
    <3>1. CASE MainLoop  BY <2>0, <3>1, OrderedLoop DEF MainLoop
    <3>2. CASE keyboard_set_handler \/ Prompt
      BY <3>2, OrderedStutter DEF keyboard_set_handler, Prompt, keyboard
    <3>3. CASE ~MainLoop /\ ~keyboard_set_handler /\ ~Prompt
      BY <2>1, <2>a, <3>3 DEF Kernel, idt_initialize, memset, Register, PageFault,
         vmm_initialize, initrd_initialize, enable_interrupts
    <3> QED BY <3>1, <3>2, <3>3
  <2>2. ASSUME NEW n \in Lines, irq_handler(n) PROVE Ordered'
    <3>1. (UNCHANGED vars) \/ \E c \in Char : Key(c)  BY <2>2, KeyOfIrq
    <3> QED BY <2>0, <2>a, <3>1, OrderedKey
  <2>3. CASE Devices  BY <2>3, <2>a DEF Devices, Present, Raise
  <2>4. CASE UNCHANGED bootVars  BY <2>4, <2>a DEF bootVars
  <2> QED BY <2>1, <2>2, <2>3, <2>4 DEF BootNext
<1>3. BootTypes /\ Ordered => KeysInOrder
  <2> SUFFICES ASSUME BootTypes, Ordered, ~overtaken
               PROVE  InOrder(received, typed, Len(typed))
    BY DEF KeysInOrder, InOrder
  <2>1. /\ Pending \in Nat /\ Pending <= Len(typed) /\ Len(typed) \in Nat
        /\ InOrder(received, typed, Pending)
    BY DEF BootTypes, TypeOK, Ordered, Pending
  <2>2. 1..Pending \subseteq 1..Len(typed)  BY <2>1
  <2> QED BY <2>1, <2>2 DEF InOrder
<1> QED BY <1>1, <1>2, <1>3, BootTypesAlways, KeyboardRoomAlways, PTL DEF BootSpec
-----------------------------------------------------------------------------
(* Slow typing.  At most one key is in keyboard_buffer, on its way to the  *)
(* terminal, and only then; the line is printable but for a newline or     *)
(* backspace that has just come.                                           *)
OneKey ==
    \/ keyboard_buffer_length = 0 /\ received = typed /\ pc # "disabled"
    \/ /\ keyboard_buffer_length = 1 /\ typed = Append(received, keyboard_buffer[0])
       /\ pc \in {"keyboard_flush", "disabled"} /\ (pc = "disabled" => size = 1)
       /\ terminal_buffer_length < MAX_TERMINAL_BUFFER_SIZE
       /\ keyboard_buffer[0] \in Keys
       /\ keyboard_buffer[0] = "erase" => terminal_buffer_length > 0

LEMMA LettersAre ==
    /\ "enter" \notin Letters /\ "erase" \notin Letters /\ NUL \notin Letters
    /\ Letters \subseteq Char
    /\ \A c \in Keys : c \in Letters \/ c = "enter" \/ c = "erase"
    /\ \A c \in Keys : c \in Char
<1>1. Keys \subseteq {"x", " ", "enter", "erase"}  BY ConsoleAssumption
<1> QED BY <1>1, Zenon DEF Letters, NUL, Char

Plainly(buf, n) == \A i \in 0..(n - 1) : buf[i] \in Letters

LineKept ==
    \/ /\ pc \in {"keyboard_flush", "disabled", "vga_flush", "terminal"}
       /\ Plainly(terminal_buffer, terminal_buffer_length)
    \/ /\ pc = "terminal"
       /\ terminal_buffer_length > 0 /\ Plainly(terminal_buffer, terminal_buffer_length - 1)
       /\ last \in {"enter", "erase"}
       /\ received # <<>> /\ received[Len(received)] = last
       /\ last = "erase" => terminal_buffer_length > 1
    \/ pc = "clear" /\ terminal_buffer_length > 0 /\ last = NUL

SlowInv ==
    /\ TypeOK /\ KeyboardRoom /\ wild = FALSE
    /\ keyboard_handler = "kernel_keyboard_handler"
    /\ terminal_buffer_length <= MAX_TERMINAL_BUFFER_SIZE
    /\ OneKey /\ LineKept

LEMMA SlowInit == Init => SlowInv
<1> SUFFICES ASSUME Init PROVE SlowInv  OBVIOUS
<1>1. TypeOK
  BY Sizes DEF Init, PowerOn, TypeOK, Cleared, Array, NUL, Char
<1>2. OneKey /\ LineKept  BY DEF Init, PowerOn, OneKey, LineKept, Plainly
<1> QED BY <1>1, <1>2, Sizes DEF Init, PowerOn, SlowInv, KeyboardRoom

LEMMA SlowIs ==
    ASSUME SlowInv
    PROVE  /\ keyboard_buffer \in [0..(KEYBOARD_BUFFER_SIZE - 1) -> Char]
           /\ terminal_buffer \in [0..(MAX_TERMINAL_BUFFER_SIZE - 1) -> Char]
           /\ terminal_buffer_length \in 0..MAX_TERMINAL_BUFFER_SIZE
           /\ received \in Seq(Char) /\ typed \in Seq(Char)
           /\ commands \in Seq([token : Seq(Char), argument : Seq(Char)])
           /\ Len(received) \in Nat /\ wild = FALSE
BY DEF SlowInv, TypeOK, Array

(* The key goes to the end of the line. *)
LEMMA SlowFlush ==
    ASSUME SlowInv, FlushKeyboard
    PROVE  /\ terminal_buffer_length < MAX_TERMINAL_BUFFER_SIZE
           /\ keyboard_buffer[0] \in Keys
           /\ keyboard_buffer[0] = "erase" => terminal_buffer_length > 0
           /\ terminal_buffer_length' = terminal_buffer_length + 1
           /\ terminal_buffer'[terminal_buffer_length] = keyboard_buffer[0]
           /\ \A i \in 0..(terminal_buffer_length - 1) :
                 terminal_buffer'[i] = terminal_buffer[i]
           /\ received' = Append(received, keyboard_buffer[0]) /\ wild' = FALSE
           /\ typed = Append(received, keyboard_buffer[0]) /\ pc = "disabled"
<1> DEFINE t == terminal_buffer_length
           c == keyboard_buffer[0]
<1>0. /\ MAX_TERMINAL_BUFFER_SIZE \in Nat /\ U16 \in Nat
      /\ MAX_TERMINAL_BUFFER_SIZE < U16 /\ 0 \in 0..(KEYBOARD_BUFFER_SIZE - 1)
  BY Sizes
<1>1. /\ keyboard_buffer_length = 1 /\ typed = Append(received, c) /\ size = 1
      /\ t < MAX_TERMINAL_BUFFER_SIZE /\ c \in Keys /\ (c = "erase" => t > 0)
      /\ pc = "disabled"
  BY DEF FlushKeyboard, SlowInv, OneKey
<1>2. deliver(keyboard_buffer, 1)  BY <1>1 DEF FlushKeyboard
<1>3. kernel_keyboard_handler(keyboard_buffer, 1)
  BY <1>2 DEF deliver, SlowInv
<1>4. t \in 0..(MAX_TERMINAL_BUFFER_SIZE - 1)  BY <1>0, <1>1, SlowIs
<1>5. t' = t + 1  BY <1>0, <1>3, <1>4 DEF kernel_keyboard_handler
<1>6. wild' = FALSE
  <2> DEFINE beyond == t + 1 > MAX_TERMINAL_BUFFER_SIZE
  <2>1. beyond = FALSE  BY <1>0, <1>4
  <2>2. wild' = beyond  BY <1>3, Zenon DEF kernel_keyboard_handler
  <2> HIDE DEF beyond
  <2> QED BY <2>1, <2>2, Zenon
<1>7. received' = Append(received, c)
  <2>1. received' = received \o [i \in 1..1 |-> keyboard_buffer[i - 1]]
    BY <1>3 DEF kernel_keyboard_handler
  <2>2. c \in Char  BY <1>0, SlowIs
  <2>3. [i \in 1..1 |-> keyboard_buffer[i - 1]] = <<c>>
    <3>1. \A i \in 1..1 : keyboard_buffer[i - 1] = c  OBVIOUS
    <3> HIDE DEF c
    <3> QED BY <3>1
  <2> HIDE DEF c
  <2> QED BY <2>1, <2>2, <2>3, SlowIs, AppendIsConcat
<1>8. \A i \in 0..(MAX_TERMINAL_BUFFER_SIZE - 1) :
         terminal_buffer'[i] = IF i \in t..t THEN keyboard_buffer[i - t]
                                             ELSE terminal_buffer[i]
  BY <1>0, <1>3, <1>4, SlowIs DEF kernel_keyboard_handler
<1>9. terminal_buffer'[t] = c
  <2>1. t \in t..t /\ t - t = 0  BY <1>4
  <2> QED BY <1>4, <1>8, <2>1
<1>10. \A i \in 0..(t - 1) : terminal_buffer'[i] = terminal_buffer[i]
  <2> SUFFICES ASSUME NEW i \in 0..(t - 1) PROVE terminal_buffer'[i] = terminal_buffer[i]
    OBVIOUS
  <2>1. i \notin t..t /\ i \in 0..(MAX_TERMINAL_BUFFER_SIZE - 1)  BY <1>0, <1>4
  <2> QED BY <1>8, <2>1
<1> QED BY <1>1, <1>5, <1>6, <1>7, <1>9, <1>10

LEMMA SlowKeepsFlush == ASSUME SlowInv, FlushKeyboard PROVE SlowInv'
<1>0. /\ TypeOK' /\ KeyboardRoom' /\ keyboard_handler' = "kernel_keyboard_handler"
      /\ keyboard_buffer_length' = 0 /\ pc' = "terminal" /\ UNCHANGED typed
  BY Sizes, TypesFlush DEF SlowInv, FlushKeyboard, KeyboardRoom
<1> DEFINE t == terminal_buffer_length
           c == keyboard_buffer[0]
<1>1. /\ t \in 0..(MAX_TERMINAL_BUFFER_SIZE - 1) /\ c \in Keys
      /\ (c = "erase" => t > 0) /\ t' = t + 1 /\ terminal_buffer'[t] = c
      /\ \A i \in 0..(t - 1) : terminal_buffer'[i] = terminal_buffer[i]
      /\ received' = Append(received, c) /\ wild' = FALSE
      /\ typed = Append(received, c) /\ pc = "disabled"
  BY SlowFlush, SlowIs, Sizes
<1>2. OneKey'  BY <1>0, <1>1 DEF OneKey
<1>3. c \in Char /\ (c \in Letters \/ c \in {"enter", "erase"})
  BY <1>1, LettersAre
<1>4. /\ received' # <<>> /\ received'[Len(received')] = c
  <2>1. received \in Seq(Char) /\ c \in Char /\ received' = Append(received, c)
    BY <1>1, <1>3, SlowIs
  <2> HIDE DEF c
  <2>2. received' # <<>> /\ Len(received') = Len(received) + 1
        /\ received'[Len(received) + 1] = c
    BY ONLY <2>1, AppendProperties
  <2> QED BY <2>2
<1>5. \A i \in 0..(t - 1) : terminal_buffer'[i] \in Letters
  BY <1>1 DEF SlowInv, LineKept, Plainly
<1>6. last' = c  BY <1>1 DEF last
<1>7. LineKept'
  <2> HIDE DEF c
  <2>1. CASE c \in Letters
    <3>1. \A i \in 0..(t' - 1) : i = t \/ i \in 0..(t - 1)  BY <1>1
    <3>2. \A i \in 0..(t' - 1) : terminal_buffer'[i] \in Letters
      BY <1>1, <1>5, <2>1, <3>1
    <3> QED BY <1>0, <3>2 DEF LineKept, Plainly
  <2>2. CASE c \in {"enter", "erase"}
    <3>1. t' - 1 = t /\ t' > 0 /\ (c = "erase" => t' > 1)  BY <1>1
    <3> QED BY <1>0, <1>4, <1>5, <1>6, <2>2, <3>1 DEF LineKept, Plainly
  <2> QED BY <1>3, <2>1, <2>2
<1> QED BY <1>0, <1>1, <1>2, <1>7, Sizes DEF SlowInv

LEMMA SlowKeepsKey == ASSUME SlowInv, NEW c \in Keys, SlowKey(c) PROVE SlowInv'
<1>0. c \in Char  BY LettersAre
<1>1. /\ keyboard_buffer_length = 0 /\ pc = "keyboard_flush" /\ Key(c)
      /\ (c = "erase" => terminal_buffer_length > 0)
      /\ terminal_buffer_length < MAX_TERMINAL_BUFFER_SIZE
  BY DEF SlowKey, Quiet
<1>2. /\ keyboard_buffer_length' = 1
      /\ typed' = Append(typed, c)
      /\ keyboard_buffer' = [keyboard_buffer EXCEPT ![0] = c]
      /\ UNCHANGED <<keyboard_handler, terminal, display, pc, size, received, wild, commands>>
  BY <1>1, Sizes DEF Key, terminal
<1>3. TypeOK'  BY <1>0, <1>1, TypesKey DEF SlowInv
<1>4. keyboard_buffer'[0] = c
  <2>1. 0 \in 0..(KEYBOARD_BUFFER_SIZE - 1)  BY Sizes
  <2> QED BY <1>2, <2>1, SlowIs
<1>5. received = typed  BY <1>1 DEF SlowInv, OneKey
<1>6. OneKey'  BY <1>1, <1>2, <1>4, <1>5 DEF OneKey, terminal
<1>7. LineKept'  BY <1>1, <1>2 DEF SlowInv, LineKept, Plainly, last, terminal
<1> QED BY <1>2, <1>3, <1>6, <1>7, Sizes DEF SlowInv, KeyboardRoom, terminal

(* Steps of the main loop that leave the line alone. *)
LEMMA SlowKeepsIdle ==
    ASSUME SlowInv, CheckKeyboard \/ TerminalEmpty \/ Echo \/ vga_flush
    PROVE  /\ SlowInv' /\ pc # "clear" /\ pc' # "clear"
           /\ UNCHANGED <<keyboard, terminal_buffer, terminal_buffer_length, received,
                          typed, commands>>
<1>1. /\ UNCHANGED <<keyboard, terminal_buffer, terminal_buffer_length, wild, received,
                     typed, commands>>
      /\ pc # "clear" /\ pc' # "clear"
  BY DEF CheckKeyboard, TerminalEmpty, Echo, vga_flush, terminal, AtTerminal
<1>2. TypeOK'  BY TypesCheck, TypesEmpty, TypesEcho, TypesShow DEF SlowInv
<1>3. OneKey'
  <2>1. CASE CheckKeyboard
    BY <1>1, <2>1 DEF CheckKeyboard, SlowInv, OneKey, keyboard
  <2>2. CASE ~CheckKeyboard
    <3>1. pc \in {"terminal", "vga_flush"} /\ pc' # "disabled"
      BY <2>2 DEF TerminalEmpty, Echo, vga_flush, AtTerminal
    <3> QED BY <1>1, <3>1 DEF SlowInv, OneKey, keyboard
  <2> QED BY <2>1, <2>2
<1>4. LineKept'
  <2>1. Plainly(terminal_buffer, terminal_buffer_length)
    <3>1. CASE CheckKeyboard \/ vga_flush
      BY <3>1 DEF CheckKeyboard, vga_flush, SlowInv, LineKept
    <3>2. CASE TerminalEmpty
      <4>1. terminal_buffer_length = 0  BY <3>2 DEF TerminalEmpty
      <4>2. \A i \in 0..(terminal_buffer_length - 1) : FALSE  BY <4>1
      <4> QED BY <4>2 DEF Plainly
    <3>3. CASE Echo
      BY <3>3 DEF Echo, AtTerminal, SlowInv, LineKept
    <3> QED BY <3>1, <3>2, <3>3
  <2>2. pc' \in {"keyboard_flush", "disabled", "vga_flush", "terminal"}
    BY DEF CheckKeyboard, TerminalEmpty, Echo, vga_flush
  <2> QED BY <1>1, <2>1, <2>2 DEF LineKept, Plainly
<1> QED BY <1>1, <1>2, <1>3, <1>4 DEF SlowInv, KeyboardRoom, keyboard

LEMMA SlowKeepsEvaluate == ASSUME SlowInv, Evaluate PROVE SlowInv'
<1>1. /\ UNCHANGED <<keyboard, terminal_buffer_length, wild, received, typed, size>>
      /\ pc = "terminal" /\ pc' = "clear" /\ terminal_buffer_length > 0
      /\ terminal_buffer' = [terminal_buffer EXCEPT ![terminal_buffer_length - 1] = NUL]
  <2>1. AtTerminal  BY DEF Evaluate
  <2>2. terminal_buffer_length > 0  BY <2>1, Sizes DEF AtTerminal
  <2> QED BY <2>2 DEF Evaluate, AtTerminal
<1>2. TypeOK'  BY TypesEvaluate DEF SlowInv
<1>3. OneKey'  BY <1>1 DEF SlowInv, OneKey, keyboard
<1>4. terminal_buffer'[terminal_buffer_length - 1] = NUL
  <2>1. terminal_buffer_length - 1 \in 0..(MAX_TERMINAL_BUFFER_SIZE - 1)
    BY <1>1, SlowIs, Sizes
  <2> QED BY <1>1, <2>1, SlowIs
<1>5. LineKept'  BY <1>1, <1>4 DEF LineKept, last
<1> QED BY <1>1, <1>2, <1>3, <1>5 DEF SlowInv, KeyboardRoom, keyboard

LEMMA SlowKeepsClear == ASSUME SlowInv, Clear PROVE SlowInv'
<1>1. /\ UNCHANGED <<keyboard, wild, received, typed, size>>
      /\ pc = "clear" /\ pc' = "vga_flush" /\ terminal_buffer_length' = 0
  BY DEF Clear
<1>2. TypeOK'  BY TypesClear DEF SlowInv
<1>3. OneKey'  BY <1>1 DEF SlowInv, OneKey, keyboard
<1>4. LineKept'  BY <1>1 DEF LineKept, Plainly
<1> QED BY <1>1, <1>2, <1>3, <1>4, Sizes DEF SlowInv, KeyboardRoom, keyboard

LEMMA SlowBackspace ==
    ASSUME SlowInv, Backspace
    PROVE  /\ terminal_buffer_length \in 2..MAX_TERMINAL_BUFFER_SIZE
           /\ terminal_buffer_length' = terminal_buffer_length - 2
           /\ Plainly(terminal_buffer, terminal_buffer_length - 1)
           /\ last = "erase" /\ received # <<>> /\ received[Len(received)] = "erase"
           /\ pc = "terminal" /\ pc' = "vga_flush"
           /\ UNCHANGED <<keyboard, terminal_buffer, wild, received, typed, commands, size>>
<1> DEFINE t == terminal_buffer_length
<1>1. /\ last = "erase" /\ pc = "terminal" /\ pc' = "vga_flush"
      /\ UNCHANGED <<keyboard, terminal_buffer, wild, received, typed, commands, size>>
      /\ t' = (t - 2) % U16 /\ t \in 1..MAX_TERMINAL_BUFFER_SIZE
  BY DEF Backspace, AtTerminal
<1>2. last \notin Letters  BY <1>1, LettersAre
<1>3. ~Plainly(terminal_buffer, t)
  <2>1. t - 1 \in 0..(t - 1)  BY <1>1
  <2> QED BY <1>2, <2>1 DEF Plainly, last
<1>4. /\ Plainly(terminal_buffer, t - 1) /\ received # <<>> /\ received[Len(received)] = last /\ t > 1
  BY <1>1, <1>3 DEF SlowInv, LineKept
<1>5. t' = t - 2
  <2>1. t - 2 \in 0..(U16 - 1)  BY <1>1, <1>4, Sizes
  <2> QED BY <1>1, <2>1, Sizes
<1> QED BY <1>1, <1>4, <1>5

LEMMA SlowKeepsBackspace == ASSUME SlowInv, Backspace PROVE SlowInv'
<1>1. TypeOK'  BY TypesBackspace DEF SlowInv
<1>2. OneKey'  BY SlowBackspace DEF SlowInv, OneKey, keyboard
<1>3. LineKept'
  <2>1. \A i \in 0..(terminal_buffer_length' - 1) :
           i \in 0..(terminal_buffer_length - 1 - 1) /\ terminal_buffer'[i] = terminal_buffer[i]
    BY SlowBackspace
  <2> QED BY <2>1, SlowBackspace DEF LineKept, Plainly
<1>4. /\ terminal_buffer_length' <= MAX_TERMINAL_BUFFER_SIZE
      /\ UNCHANGED <<keyboard, wild>>
  BY SlowBackspace, Sizes
<1> QED BY <1>1, <1>2, <1>3, <1>4 DEF SlowInv, KeyboardRoom, keyboard

LEMMA SlowNextKeeps == ASSUME SlowInv, [SlowNext]_vars PROVE SlowInv'
<1>1. CASE UNCHANGED vars
  BY <1>1, TypesStutter DEF SlowInv, KeyboardRoom, OneKey, LineKept, Plainly, last, vars,
     keyboard, terminal
<1> QED
  BY <1>1, SlowKeepsKey, SlowKeepsFlush, SlowKeepsIdle, SlowKeepsEvaluate, SlowKeepsClear,
     SlowKeepsBackspace DEF SlowNext, Round

LEMMA SlowAlways == SlowSpec => []SlowInv
<1>1. SlowInv /\ [SlowNext]_vars => SlowInv'  BY SlowNextKeeps
<1> QED BY <1>1, SlowInit, PTL DEF SlowSpec

(* With slow typing every key has come to the terminal when the main loop  *)
(* is at keyboard_flush (keyboard.c:32) again and finds the buffer empty,  *)
(* on every path through the flush, for any sizes and any number of keys.  *)
THEOREM KeysReachTerminalAlways == SlowSpec => []KeysReachTerminal
<1>1. SlowInv => KeysReachTerminal
  BY DEF SlowInv, OneKey, KeysReachTerminal, Quiet
<1> QED BY <1>1, SlowAlways, PTL

-----------------------------------------------------------------------------
(* The refinement of LineEditor, one step of the main loop after another.  *)
(* The line and the keys that LineEditor sees, as functions of the buffer. *)
Text(buf, n) == [i \in 1..n |-> buf[i - 1]]
LineOf(at, buf, n) == IF at = "clear" \/ n = 0 THEN <<>>
                      ELSE Text(buf, IF buf[n - 1] \in {"enter", "erase"} THEN n - 1 ELSE n)
KeysOf(buf, n, r) == IF n > 0 /\ buf[n - 1] \in {"enter", "erase"} THEN Front(r) ELSE r

LEMMA Seen ==
    /\ CommandLine = LineOf(pc, terminal_buffer, terminal_buffer_length)
    /\ CommandLine' = LineOf(pc', terminal_buffer', terminal_buffer_length')
    /\ Handled = KeysOf(terminal_buffer, terminal_buffer_length, received)
    /\ Handled' = KeysOf(terminal_buffer', terminal_buffer_length', received')
BY DEF CommandLine, Handled, last, Line, LineOf, KeysOf, Text

LEMMA TextIs ==
    ASSUME NEW buf, NEW n \in Nat, Plainly(buf, n)
    PROVE  /\ Text(buf, n) \in Seq(Letters) /\ Len(Text(buf, n)) = n
           /\ \A i \in 1..n : Text(buf, n)[i] = buf[i - 1]
<1>1. \A i \in 1..n : i - 1 \in 0..(n - 1)  OBVIOUS
<1>2. \A i \in 1..n : buf[i - 1] \in Letters  BY <1>1 DEF Plainly
<1> QED BY <1>2 DEF Text

LEMMA PlainLine ==
    ASSUME NEW buf, NEW n \in Nat, Plainly(buf, n), NEW at, at # "clear", NEW r
    PROVE  LineOf(at, buf, n) = Text(buf, n) /\ KeysOf(buf, n, r) = r
<1>1. n > 0 => buf[n - 1] \notin {"enter", "erase"}
  <2>1. n > 0 => n - 1 \in 0..(n - 1)  OBVIOUS
  <2> QED BY <2>1, LettersAre DEF Plainly
<1>2. Text(buf, 0) = <<>>  BY DEF Text
<1> QED BY <1>1, <1>2 DEF LineOf, KeysOf

LEMMA FrontAppend ==
    ASSUME NEW S, NEW s \in Seq(S), NEW e \in S
    PROVE  Front(Append(s, e)) = s
<1> DEFINE u == Append(s, e)
<1>1. /\ Len(u) = Len(s) + 1 /\ Len(s) \in Nat /\ s = [i \in 1..Len(s) |-> s[i]]
      /\ \A i \in 1..Len(s) : u[i] = s[i]
  BY AppendProperties, LenProperties
<1>2. Front(u) = [i \in 1..Len(s) |-> u[i]]
  <2> HIDE DEF u
  <2> QED BY <1>1 DEF Front
<1> QED BY <1>1, <1>2

LEMMA AppendFront ==
    ASSUME NEW S, NEW s \in Seq(S), s # <<>>
    PROVE  Append(Front(s), s[Len(s)]) = s
<1>1. Len(s) \in Nat \ {0} /\ s = [i \in 1..Len(s) |-> s[i]]
  BY EmptySeq, LenProperties
<1>2. Front(s) \in Seq(S) /\ Len(Front(s)) = Len(s) - 1
      /\ \A i \in 1..(Len(s) - 1) : Front(s)[i] = s[i]
  BY <1>1 DEF Front
<1> DEFINE u == Append(Front(s), s[Len(s)])
<1>3. /\ Len(u) = Len(s) /\ u = [i \in 1..Len(s) |-> u[i]]
      /\ \A i \in 1..(Len(s) - 1) : u[i] = Front(s)[i]
      /\ u[Len(s)] = s[Len(s)]
  <2> DEFINE f == Front(s)
             e == s[Len(s)]
  <2>1. e \in S /\ f \in Seq(S)  BY <1>1, <1>2
  <2> HIDE DEF f, e
  <2>2. /\ Append(f, e) \in Seq(S) /\ Len(Append(f, e)) = Len(f) + 1
        /\ \A i \in 1..Len(f) : Append(f, e)[i] = f[i]
        /\ Append(f, e)[Len(f) + 1] = e
    BY ONLY <2>1, AppendProperties
  <2>3. Len(f) = Len(s) - 1 /\ Len(f) + 1 = Len(s)  BY <1>1, <1>2 DEF f
  <2>4. Append(f, e) = [i \in 1..Len(Append(f, e)) |-> Append(f, e)[i]]
    BY ONLY <2>2, LenProperties
  <2> QED BY <2>2, <2>3, <2>4 DEF f, e
<1> HIDE DEF u
<1>4. \A i \in 1..Len(s) : u[i] = s[i]
  <2>1. \A i \in 1..Len(s) : i = Len(s) \/ i \in 1..(Len(s) - 1)  BY <1>1
  <2> QED BY <1>2, <1>3, <2>1
<1> QED BY <1>1, <1>3, <1>4 DEF u

(* A character comes to the end of the line. *)
LEMMA TextAppend ==
    ASSUME NEW buf, NEW buf2, NEW n \in Nat, Plainly(buf, n), NEW c \in Letters,
           buf2[n] = c, \A i \in 0..(n - 1) : buf2[i] = buf[i]
    PROVE  Plainly(buf2, n + 1) /\ Text(buf2, n + 1) = Append(Text(buf, n), c)
<1> DEFINE l == Text(buf, n)
           u == Append(l, c)
<1>1. \A i \in 0..n : i = n \/ i \in 0..(n - 1)  OBVIOUS
<1>2. Plainly(buf2, n + 1)  BY <1>1 DEF Plainly
<1>3. l \in Seq(Letters) /\ Len(l) = n /\ \A i \in 1..n : l[i] = buf[i - 1]
  BY TextIs
<1> HIDE DEF l
<1>4. /\ u \in Seq(Letters) /\ Len(u) = n + 1
      /\ \A i \in 1..n : u[i] = l[i]
      /\ u[n + 1] = c
  BY <1>3, AppendProperties
<1> HIDE DEF u
<1>5. u = [i \in 1..(n + 1) |-> u[i]]  BY <1>4, LenProperties
<1>6. \A i \in 1..(n + 1) : u[i] = buf2[i - 1]
  <2> SUFFICES ASSUME NEW i \in 1..(n + 1) PROVE u[i] = buf2[i - 1]  OBVIOUS
  <2>1. CASE i = n + 1  BY <1>4, <2>1
  <2>2. CASE i # n + 1
    <3>1. i \in 1..n /\ i - 1 \in 0..(n - 1)  BY <2>2
    <3> QED BY <1>3, <1>4, <3>1
  <2> QED BY <2>1, <2>2
<1>7. Text(buf2, n + 1) = u  BY <1>5, <1>6 DEF Text
<1> QED BY <1>2, <1>7 DEF l, u

LEMMA TextKept ==
    ASSUME NEW buf, NEW buf2, NEW n \in Nat, \A i \in 0..(n - 1) : buf2[i] = buf[i]
    PROVE  Text(buf2, n) = Text(buf, n)
<1>1. \A i \in 1..n : i - 1 \in 0..(n - 1)  OBVIOUS
<1> QED BY <1>1 DEF Text

(* One character less. *)
LEMMA TextFront ==
    ASSUME NEW buf, NEW n \in Nat \ {0}, Plainly(buf, n)
    PROVE  /\ Text(buf, n) # <<>> /\ Plainly(buf, n - 1)
           /\ Text(buf, n - 1) = Front(Text(buf, n))
<1>1. Len(Text(buf, n)) = n /\ \A i \in 1..n : Text(buf, n)[i] = buf[i - 1]
  BY TextIs
<1>2. Front(Text(buf, n)) = [i \in 1..(n - 1) |-> buf[i - 1]]
  BY <1>1 DEF Front
<1>3. Text(buf, n) # <<>>  BY <1>1
<1>4. Plainly(buf, n - 1)  BY DEF Plainly
<1> QED BY <1>2, <1>3, <1>4 DEF Text

LEMMA EditInit == Init => LE!Init
<1> SUFFICES ASSUME Init PROVE LE!Init  OBVIOUS
<1>1. terminal_buffer_length = 0 /\ received = <<>> /\ commands = <<>>
  BY DEF Init, PowerOn
<1> QED BY <1>1 DEF LE!Init, Handled, CommandLine

LEMMA EditIdle ==
    ASSUME pc # "clear", pc' # "clear",
           UNCHANGED <<terminal_buffer, terminal_buffer_length, received, commands>>
    PROVE  UNCHANGED LE!vars
BY DEF LE!vars, Handled, CommandLine, last, Line

(* A key comes to the terminal: a character lengthens the line, a newline  *)
(* or backspace does not show yet.                                         *)
LEMMA EditFlush == ASSUME SlowInv, FlushKeyboard PROVE [LE!Next]_(LE!vars)
<1> DEFINE t == terminal_buffer_length
           c == keyboard_buffer[0]
           buf == terminal_buffer
<1>1. /\ t \in Nat /\ t' = t + 1 /\ buf'[t] = c
      /\ \A i \in 0..(t - 1) : buf'[i] = buf[i]
      /\ received' = Append(received, c)
  BY SlowFlush, SlowIs
<1>2. received \in Seq(Char) /\ c \in Char /\ (c \in Letters \/ c \in {"enter", "erase"})
  <2>1. c \in Keys  BY SlowFlush
  <2> QED BY <2>1, LettersAre, SlowIs
<1>3. Plainly(buf, t) /\ pc # "clear" /\ pc' # "clear" /\ UNCHANGED commands
  BY DEF SlowInv, LineKept, FlushKeyboard
<1>4. CommandLine = Text(buf, t) /\ Handled = received
  BY <1>1, <1>3, PlainLine, Seen
<1>5. /\ CommandLine' = LineOf(pc', buf', t + 1)
      /\ Handled' = KeysOf(buf', t + 1, Append(received, c))
  BY <1>1, Seen
<1> HIDE DEF c, t, buf
<1>6. CASE c \in Letters
  <2>1. Plainly(buf', t + 1) /\ Text(buf', t + 1) = Append(Text(buf, t), c)
    BY <1>1, <1>3, <1>6, TextAppend
  <2>2. CommandLine' = Append(Text(buf, t), c) /\ Handled' = Append(received, c)
    <3> DEFINE n == t + 1
               r == Append(received, c)
    <3>1. /\ n \in Nat /\ Plainly(buf', n) /\ Text(buf', n) = Append(Text(buf, t), c)
          /\ CommandLine' = LineOf(pc', buf', n) /\ Handled' = KeysOf(buf', n, r)
      BY <1>1, <1>5, <2>1
    <3> HIDE DEF n, r
    <3>2. LineOf(pc', buf', n) = Text(buf', n) /\ KeysOf(buf', n, r) = r
      BY ONLY <1>3, <3>1, PlainLine
    <3> QED BY <3>1, <3>2 DEF r
  <2> QED BY <1>3, <1>4, <1>6, <2>2 DEF LE!Type, LE!Next
<1>7. CASE c \in {"enter", "erase"}
  <2>1. (t + 1) - 1 = t /\ t + 1 > 0 /\ t + 1 # 0  BY <1>1
  <2>2. Handled' = Front(Append(received, c)) /\ CommandLine' = Text(buf', t)
    BY <1>1, <1>3, <1>5, <1>7, <2>1 DEF KeysOf, LineOf
  <2>3. Front(Append(received, c)) = received  BY <1>2, FrontAppend
  <2>4. Text(buf', t) = Text(buf, t)  BY <1>1, TextKept
  <2> QED BY <1>3, <1>4, <2>2, <2>3, <2>4 DEF LE!vars
<1> QED BY <1>2, <1>6, <1>7

LEMMA EditBackspace == ASSUME SlowInv, Backspace PROVE LE!Rub
<1> DEFINE t == terminal_buffer_length
           buf == terminal_buffer
<1>1. /\ t \in Nat /\ t >= 2 /\ t' = t - 2 /\ Plainly(buf, t - 1)
      /\ buf[t - 1] = "erase" /\ received # <<>> /\ received[Len(received)] = "erase"
      /\ pc = "terminal" /\ pc' = "vga_flush"
      /\ UNCHANGED <<buf, received, commands>>
      /\ received \in Seq(Char)
  BY SlowBackspace, SlowIs, Sizes DEF last
<1>2. /\ CommandLine = LineOf("terminal", buf, t) /\ Handled = KeysOf(buf, t, received)
      /\ CommandLine' = LineOf("vga_flush", buf, t - 2)
      /\ Handled' = KeysOf(buf, t - 2, received)
  BY <1>1, Seen
<1> HIDE DEF t, buf
<1>3. CommandLine = Text(buf, t - 1) /\ Handled = Front(received)
  BY <1>1, <1>2 DEF LineOf, KeysOf
<1>4. /\ Text(buf, t - 1) # <<>> /\ Plainly(buf, t - 2)
      /\ Text(buf, t - 2) = Front(Text(buf, t - 1))
  <2> DEFINE n == t - 1
  <2>1. n \in Nat \ {0} /\ Plainly(buf, n) /\ n - 1 = t - 2  BY <1>1
  <2> HIDE DEF n
  <2>2. /\ Text(buf, n) # <<>> /\ Plainly(buf, n - 1)
        /\ Text(buf, n - 1) = Front(Text(buf, n))
    BY <2>1, TextFront
  <2> QED BY <2>1, <2>2 DEF n
<1>5. CommandLine' = Text(buf, t - 2) /\ Handled' = received
  <2>1. t - 2 \in Nat  BY <1>1
  <2> QED BY <1>2, <1>4, <2>1, PlainLine
<1>6. Append(Front(received), "erase") = received  BY <1>1, AppendFront
<1>7. UNCHANGED commands  BY <1>1
<1>8. CommandLine # <<>> /\ CommandLine' = Front(CommandLine)  BY <1>3, <1>4, <1>5
<1>9. Handled' = Append(Handled, "erase")  BY <1>3, <1>5, <1>6
<1> QED BY <1>7, <1>8, <1>9, Zenon DEF LE!Rub, LE!Front, Front

(* Where the token ends, and the strings of token and argument.            *)
IsBlank(c) == c = " "
Ends(buf, n) == {i \in 0..(n - 1) : buf[i] \in {" ", NUL}}
Token(buf, n) == [i \in 1..Min(Ends(buf, n)) |-> buf[i - 1]]

LEMMA EndsAre ==
    ASSUME NEW buf, NEW n, NEW i
    PROVE  i \in Ends(buf, n) <=> i \in 0..(n - 1) /\ (IsBlank(buf[i]) \/ buf[i] = NUL)
BY Zenon DEF Ends, IsBlank

LEMMA BlankIsNone == \A c : IsBlank(c) => c # NUL
BY Zenon DEF IsBlank, NUL

Blank(s) == {i \in 1..Len(s) : IsBlank(s[i])}
Behind(s) == CHOOSE i \in Blank(s) : \A j \in Blank(s) : i <= j

Piece(buf, f, n) == [i \in 1..n |-> buf[f + i - 1]]

(* The string behind the token ends at the newline's place m.              *)
LEMMA ArgumentIs ==
    ASSUME NEW M \in Nat, MAX_TERMINAL_BUFFER_SIZE = M, NEW m \in 0..(M - 1),
           NEW buf, DOMAIN buf = 0..(M - 1), Plainly(buf, m), buf[m] = NUL,
           NEW f \in 0..m
    PROVE  StringAt(buf, f) = Piece(buf, f, m - f)
<1> DEFINE stops == {i \in DOMAIN buf : i >= f /\ buf[i] = NUL} \cup {MAX_TERMINAL_BUFFER_SIZE}
<1>1. m \in stops  OBVIOUS
<1>2. stops \subseteq Nat  OBVIOUS
<1>3. \A i \in stops : i >= m
  <2> SUFFICES ASSUME NEW i \in stops, i < m PROVE FALSE  BY <1>2
  <2>1. buf[i] = NUL /\ i \in 0..(m - 1)  OBVIOUS
  <2> QED BY <2>1, LettersAre DEF Plainly
<1>4. StringAt(buf, f) = [i \in 1..(Min(stops) - f) |-> buf[f + i - 1]]
  BY DEF StringAt
<1> HIDE DEF stops
<1>5. Min(stops) = m
  <2>1. Min(stops) \in stops /\ \A y \in stops : Min(stops) <= y  BY <1>1, <1>2, MinIs
  <2>2. Min(stops) <= m /\ Min(stops) >= m /\ Min(stops) \in Nat
    BY <1>1, <1>2, <1>3, <2>1
  <2> QED BY <2>2
<1> QED BY <1>4, <1>5 DEF Piece

(* Cutting the buffer at the first blank is cutting the line there.        *)
LEMMA Cut ==
    ASSUME NEW M \in Nat, MAX_TERMINAL_BUFFER_SIZE = M, NEW m \in 0..(M - 1),
           NEW buf, DOMAIN buf = 0..(M - 1), Plainly(buf, m), buf[m] = NUL,
           NEW s, s = Text(buf, m)
    PROVE  /\ Blank(s) = {} => Token(buf, m + 1) = s
           /\ Blank(s) # {} =>
                 /\ Token(buf, m + 1) = SubSeq(s, 1, Behind(s) - 1)
                 /\ StringAt(buf, Min(Ends(buf, m + 1)) + 1)
                       = SubSeq(s, Behind(s) + 1, Len(s))
<1> DEFINE e == Min(Ends(buf, m + 1))
<1>0. /\ M \in Nat /\ MAX_TERMINAL_BUFFER_SIZE = M /\ m \in 0..(M - 1)
      /\ DOMAIN buf = 0..(M - 1) /\ Plainly(buf, m) /\ buf[m] = NUL
  OBVIOUS
<1>1. /\ s \in Seq(Letters) /\ Len(s) = m /\ \A i \in 1..m : s[i] = buf[i - 1]
  BY TextIs
<1>2. (m + 1) - 1 = m  OBVIOUS
<1>3. \A i : i \in Ends(buf, m + 1) <=> i \in 0..m /\ (IsBlank(buf[i]) \/ buf[i] = NUL)
  BY <1>2, EndsAre
<1>4. e \in Ends(buf, m + 1) /\ \A i \in Ends(buf, m + 1) : e <= i
  <2>1. m \in Ends(buf, m + 1) /\ Ends(buf, m + 1) \subseteq Nat  BY <1>3
  <2> QED BY <2>1, MinIs
<1>5. e \in 0..m  BY <1>3, <1>4
<1>6. \A i \in 1..m : i \in Blank(s) <=> i - 1 \in Ends(buf, m + 1)
  <2> SUFFICES ASSUME NEW i \in 1..m
               PROVE  i \in Blank(s) <=> i - 1 \in Ends(buf, m + 1)  OBVIOUS
  <2>1. i - 1 \in 0..(m - 1) /\ i - 1 \in 0..m  OBVIOUS
  <2>2. buf[i - 1] # NUL  BY <2>1, LettersAre DEF Plainly
  <2> QED BY <1>1, <1>3, <2>1, <2>2 DEF Blank
<1>7. Blank(s) \subseteq 1..m  BY <1>1 DEF Blank
<1>8. Token(buf, m + 1) = [i \in 1..e |-> buf[i - 1]]  BY DEF Token
<1> HIDE DEF e
<1>9. CASE Blank(s) = {}
  <2>1. e = m
    <3> SUFFICES ASSUME e # m PROVE FALSE  OBVIOUS
    <3>1. e + 1 \in 1..m /\ (e + 1) - 1 = e  BY <1>5
    <3> QED BY <1>4, <1>6, <1>9, <3>1
  <2> QED BY <1>8, <1>9, <2>1 DEF Text
<1>10. CASE Blank(s) # {}
  <2>1. e < m
    <3> PICK i \in Blank(s) : TRUE  BY <1>10
    <3>1. i \in 1..m /\ i - 1 \in Ends(buf, m + 1)  BY <1>6, <1>7
    <3> QED BY <1>4, <1>5, <3>1
  <2>2. e + 1 \in Blank(s)
    <3>1. e + 1 \in 1..m /\ (e + 1) - 1 = e  BY <1>5, <2>1
    <3> QED BY <1>4, <1>6, <3>1
  <2>3. \A j \in Blank(s) : e + 1 <= j
    <3> SUFFICES ASSUME NEW j \in Blank(s) PROVE e + 1 <= j  OBVIOUS
    <3>1. j \in 1..m /\ j - 1 \in Ends(buf, m + 1)  BY <1>6, <1>7
    <3>2. e <= j - 1  BY <1>4, <3>1
    <3> QED BY <1>5, <3>1, <3>2
  <2>4. Behind(s) = e + 1
    <3>1. /\ Behind(s) \in Blank(s) /\ \A j \in Blank(s) : Behind(s) <= j
      BY <2>2, <2>3 DEF Behind
    <3>2. Behind(s) \in 1..m /\ Behind(s) <= e + 1 /\ e + 1 <= Behind(s)
      BY <1>7, <2>2, <2>3, <3>1
    <3> QED BY <1>5, <3>2
  <2>5. Token(buf, m + 1) = SubSeq(s, 1, Behind(s) - 1)
    <3>1. SubSeq(s, 1, e) = [i \in 1..e |-> s[i]]  BY <1>1, <1>5
    <3>2. \A i \in 1..e : s[i] = buf[i - 1]  BY <1>1, <1>5
    <3>3. Behind(s) - 1 = e  BY <1>5, <2>4
    <3> QED BY <1>8, <3>1, <3>2, <3>3
  <2>6. StringAt(buf, e + 1) = SubSeq(s, Behind(s) + 1, Len(s))
    <3> DEFINE f == e + 1
    <3>1. f \in 0..m /\ f \in Nat /\ f >= 1  BY <1>5, <2>1
    <3> HIDE DEF f
    <3>2. StringAt(buf, f) = Piece(buf, f, m - f)
      BY ONLY <1>0, <3>1, ArgumentIs
    <3>3. SubSeq(s, f + 1, m) = [i \in 1..(m - f) |-> s[f + i]]
      BY <1>1, <3>1
    <3>4. \A i \in 1..(m - f) : s[f + i] = buf[f + i - 1]
      <4> SUFFICES ASSUME NEW i \in 1..(m - f) PROVE s[f + i] = buf[f + i - 1]
        OBVIOUS
      <4> DEFINE k == f + i
      <4>1. k \in 1..m /\ k - 1 = f + i - 1  BY <3>1
      <4>2. s[k] = buf[k - 1]  BY <1>1, <4>1
      <4> QED BY <4>1, <4>2
    <3> QED BY <1>1, <2>4, <3>2, <3>3, <3>4 DEF f, Piece
  <2> QED BY <1>10, <2>5, <2>6 DEF e
<1> QED BY <1>9, <1>10

LEMMA SlowEvaluate ==
    ASSUME SlowInv, Evaluate
    PROVE  /\ terminal_buffer_length \in 1..MAX_TERMINAL_BUFFER_SIZE
           /\ Plainly(terminal_buffer, terminal_buffer_length - 1)
           /\ last = "enter" /\ received # <<>> /\ received[Len(received)] = "enter"
           /\ pc = "terminal" /\ pc' = "clear"
           /\ UNCHANGED <<terminal_buffer_length, received>>
<1> DEFINE t == terminal_buffer_length
<1>1. /\ last = "enter" /\ pc = "terminal" /\ pc' = "clear"
      /\ UNCHANGED <<terminal_buffer_length, received>> /\ t \in 1..MAX_TERMINAL_BUFFER_SIZE
  BY DEF Evaluate, AtTerminal
<1>2. ~Plainly(terminal_buffer, t)
  <2>1. t - 1 \in 0..(t - 1)  BY <1>1, Sizes
  <2>2. last \notin Letters  BY <1>1, LettersAre
  <2> QED BY <2>1, <2>2 DEF Plainly, last
<1>3. Plainly(terminal_buffer, t - 1) /\ received # <<>> /\ received[Len(received)] = last
  BY <1>1, <1>2 DEF SlowInv, LineKept
<1> QED BY <1>1, <1>3

(* A newline: the command is the line cut at its first blank.              *)
LEMMA EditEvaluate == ASSUME SlowInv, Evaluate PROVE LE!Run
<1> DEFINE t == terminal_buffer_length
           m == t - 1
           old == terminal_buffer
           buf == [terminal_buffer EXCEPT ![terminal_buffer_length - 1] = NUL]
           M == MAX_TERMINAL_BUFFER_SIZE
           s == CommandLine
           R == [token : Seq(Char), argument : Seq(Char)]
           cmd == [token    |-> Token(buf, terminal_buffer_length),
                   argument |-> StringAt(buf, Min(Ends(buf, terminal_buffer_length)) + 1)]
<1>1. /\ M \in Nat /\ t \in 1..M /\ m \in 0..(M - 1) /\ m + 1 = t /\ t \in Nat /\ t > 0
      /\ Plainly(old, m) /\ old[m] = "enter" /\ received # <<>>
      /\ received[Len(received)] = "enter" /\ pc = "terminal" /\ pc' = "clear"
      /\ t' = t /\ received' = received /\ received \in Seq(Char)
  BY Sizes, SlowEvaluate, SlowIs DEF last
<1>2. commands' = Append(commands, cmd) /\ terminal_buffer' = buf
  BY Zenon DEF Evaluate, Token, Ends
<1>3. /\ DOMAIN buf = 0..(M - 1) /\ buf[m] = NUL
      /\ \A i \in 0..(m - 1) : buf[i] = old[i]
  BY <1>1, SlowIs
<1>4. Plainly(buf, m)  BY <1>1, <1>3 DEF Plainly
<1>5. /\ commands \in Seq(R) /\ commands' \in Seq(R)
  <2>1. TypeOK'  BY TypesEvaluate DEF SlowInv
  <2> QED BY <2>1, SlowIs DEF TypeOK
<1> HIDE DEF R, buf, m
<1>6. /\ Handled = Front(received) /\ Handled' = received
      /\ s = Text(old, m) /\ CommandLine' = <<>>
  <2>1. /\ s = LineOf("terminal", old, t) /\ Handled = KeysOf(old, t, received)
        /\ CommandLine' = LineOf("clear", buf, t) /\ Handled' = KeysOf(buf, t, received)
    BY <1>1, <1>2, Seen
  <2>2. NUL \notin {"enter", "erase"}  BY DEF NUL
  <2>3. old[t - 1] = "enter" /\ buf[t - 1] = NUL  BY <1>1, <1>3 DEF m
  <2> HIDE DEF s, t, old
  <2>4. s = Text(old, t - 1)  BY <1>1, <2>1, <2>3 DEF LineOf
  <2> QED BY <1>1, <2>1, <2>2, <2>3, <2>4 DEF LineOf, KeysOf, m
<1>7. s = Text(buf, m)
  <2>1. m \in Nat  BY <1>1
  <2> QED BY <1>3, <1>6, <2>1, TextKept
<1> HIDE DEF s
<1>8. /\ Blank(s) = {} => Token(buf, t) = s
      /\ Blank(s) # {} =>
            /\ Token(buf, t) = SubSeq(s, 1, Behind(s) - 1)
            /\ StringAt(buf, Min(Ends(buf, t)) + 1) = SubSeq(s, Behind(s) + 1, Len(s))
  <2>1. /\ M \in Nat /\ MAX_TERMINAL_BUFFER_SIZE = M /\ m \in 0..(M - 1)
        /\ DOMAIN buf = 0..(M - 1) /\ Plainly(buf, m) /\ buf[m] = NUL
        /\ s = Text(buf, m)
    BY <1>1, <1>3, <1>4, <1>7
  <2>2. t = m + 1  BY <1>1
  <2> HIDE DEF M, t
  <2> QED BY ONLY <2>1, <2>2, Cut
<1>9. /\ Blank(s) = {} => cmd.token = s
      /\ Blank(s) # {} => cmd = [token    |-> SubSeq(s, 1, Behind(s) - 1),
                                 argument |-> SubSeq(s, Behind(s) + 1, Len(s))]
  BY <1>8
<1> HIDE DEF cmd
<1>10. /\ Len(commands') = Len(commands) + 1 /\ commands'[Len(commands')] = cmd
       /\ Front(commands') = commands
  <2>1. /\ Len(commands') = Len(commands) + 1
        /\ commands'[Len(commands) + 1] = cmd
    BY <1>2, <1>5
  <2>2. cmd \in R  BY <1>5, <2>1
  <2>3. Front(commands') = commands  BY <1>2, <1>5, <2>2, FrontAppend
  <2> QED BY <2>1, <2>3
<1>11. Handled' = Append(Handled, "enter")  BY <1>1, <1>6, AppendFront
<1>12. LE!Blanks = Blank(s)  BY Zenon DEF LE!Blanks, Blank, IsBlank, s
<1>13. LE!FirstBlank = Behind(s)  BY <1>12, Zenon DEF LE!FirstBlank, Behind
<1>14. LE!Front(commands') = commands /\ LE!Last(commands') = cmd
  BY <1>10 DEF LE!Front, LE!Last, Front
<1>15. /\ LE!Blanks = {} => LE!Last(commands').token = CommandLine
       /\ LE!Blanks # {} => LE!Last(commands') =
             [token    |-> SubSeq(CommandLine, 1, LE!FirstBlank - 1),
              argument |-> SubSeq(CommandLine, LE!FirstBlank + 1, Len(CommandLine))]
  <2> HIDE DEF CommandLine
  <2> QED BY <1>9, <1>12, <1>13, <1>14 DEF s
<1> QED BY <1>6, <1>10, <1>11, <1>14, <1>15, Zenon DEF LE!Run

(* The line is gone since the newline.                                     *)
LEMMA EditClear == ASSUME SlowInv, Clear PROVE UNCHANGED LE!vars
<1> DEFINE t == terminal_buffer_length
           buf == terminal_buffer
<1>1. /\ pc = "clear" /\ pc' = "vga_flush" /\ t' = 0 /\ UNCHANGED <<received, commands>>
  BY DEF Clear
<1>2. t > 0 /\ buf[t - 1] = NUL  BY <1>1 DEF SlowInv, LineKept, last
<1>3. NUL \notin {"enter", "erase"}  BY DEF NUL
<1>4. CommandLine = <<>> /\ CommandLine' = <<>>
  BY <1>1, Seen DEF LineOf
<1>5. Handled = received /\ Handled' = received
  BY <1>1, <1>2, <1>3, Seen DEF KeysOf
<1> QED BY <1>1, <1>4, <1>5 DEF LE!vars

LEMMA EditNext == ASSUME SlowInv, [SlowNext]_vars PROVE [LE!Next]_(LE!vars)
<1>1. CASE UNCHANGED vars
  <2>1. /\ UNCHANGED <<terminal_buffer, terminal_buffer_length, received, commands>>
        /\ pc' = pc
    BY <1>1 DEF vars, terminal
  <2>2. UNCHANGED <<CommandLine, Handled>>  BY <2>1, Seen
  <2> QED BY <2>1, <2>2 DEF LE!vars
<1>2. CASE \E c \in Keys : SlowKey(c)
  <2>1. /\ UNCHANGED <<terminal_buffer, terminal_buffer_length, received, commands>>
        /\ pc # "clear" /\ pc' # "clear"
    <3> PICK c \in Keys : SlowKey(c)  BY <1>2
    <3>1. keyboard_buffer_length + 1 # KEYBOARD_BUFFER_SIZE
      BY Sizes DEF SlowKey, Quiet
    <3> QED BY <3>1 DEF SlowKey, Quiet, Key
  <2> QED BY <2>1, EditIdle
<1>3. CASE CheckKeyboard \/ TerminalEmpty \/ Echo \/ vga_flush
  <2>1. /\ UNCHANGED <<terminal_buffer, terminal_buffer_length, received, commands>>
        /\ pc # "clear" /\ pc' # "clear"
    BY <1>3, SlowKeepsIdle
  <2> QED BY <2>1, EditIdle
<1>4. CASE FlushKeyboard  BY <1>4, EditFlush
<1>5. CASE Evaluate  BY <1>5, EditEvaluate DEF LE!Next
<1>6. CASE Backspace  BY <1>6, EditBackspace DEF LE!Next
<1>7. CASE Clear  BY <1>7, EditClear
<1> QED BY <1>1, <1>2, <1>3, <1>4, <1>5, <1>6, <1>7 DEF SlowNext, Round

(* With slow typing the terminal implements the line editor: kernel.c:104  *)
(* runs as a command exactly the line that was typed with its corrections, *)
(* its token up to the first blank and its argument behind that, whatever  *)
(* was in the buffer before, for any sizes and any number of keys.         *)
THEOREM LineEditorImplemented == SlowSpec => EditsLines
<1>1. SlowInv /\ [SlowNext]_vars => [LE!Next]_(LE!vars)  BY EditNext
<1> QED BY <1>1, EditInit, SlowAlways, PTL DEF SlowSpec, EditsLines, LE!Spec


-----------------------------------------------------------------------------
(* The screen under slow typing.  V[k] is what is left of the first k      *)
(* items that begin in column margin.                                      *)
RubRuns(margin, V, items) ==
    /\ V \in [0..Len(items) -> Seq(Shown)] /\ V[0] = <<>>
    /\ \A k \in 1..Len(items) : V[k] = Rub(margin, V[k-1], items[k])

LEMMA RubType ==
    ASSUME NEW margin, NEW s \in Seq(Shown), NEW c \in Shown
    PROVE  Rub(margin, s, c) \in Seq(Shown)
<1>1. Append(s, c) \in Seq(Shown)  OBVIOUS
<1>2. Front(s) \in Seq(Shown)
  <2>1. CASE s = <<>>
    <3>1. Front(s) = <<>>  BY <2>1 DEF Front
    <3> QED BY <3>1
  <2>2. CASE s # <<>>
    <3>1. Len(s) \in Nat \ {0} /\ \A i \in 1..Len(s) : s[i] \in Shown
      BY <2>2, EmptySeq, LenProperties
    <3> QED BY <3>1 DEF Front
  <2> QED BY <2>1, <2>2
<1> QED BY <1>1, <1>2 DEF Rub

LEMMA RubRunsExist ==
    ASSUME NEW margin, NEW items \in Seq(Shown)
    PROVE  \E V : RubRuns(margin, V, items) /\ Rubbed(margin, items) = V[Len(items)]
<1> DEFINE n == Len(items)
           S == 1..n
           D == Seq(Shown)
           Eq(g) == g = [s \in SUBSET S |->
               IF s = {} THEN <<>> ELSE Rub(margin, g[s \ {Max(s)}], items[Max(s)])]
           f == CHOOSE g : Eq(g)
           step == [i \in 1..n |-> [x \in D |-> Rub(margin, x, items[i])]]
<1>1. n \in Nat /\ DOMAIN items = S /\ \A i \in S : items[i] \in Shown
  BY LenProperties
<1>2. Rubbed(margin, items) = f[S]
  <2>1. Rubbed(margin, items) = (CHOOSE g : g = [s \in SUBSET DOMAIN items |->
            IF s = {} THEN <<>>
            ELSE Rub(margin, g[s \ {Max(s)}], items[Max(s)])])[DOMAIN items]
    BY DEF Rubbed, FoldLeft, MapThenFoldSet
  <2> QED BY <1>1, <2>1
<1>3. \E g : Eq(g)
  <2>1. step \in [1..n -> [D -> D]]  BY <1>1, RubType
  <2>2. \A i \in 1..n, x \in D : step[i][x] = Rub(margin, x, items[i])  OBVIOUS
  <2>3. <<>> \in D  OBVIOUS
  <2> HIDE DEF step, D
  <2>4. PICK g : Folds(g, n, D, <<>>, step)  BY <1>1, <2>1, <2>3, FoldExists
  <2>5. ASSUME NEW s \in SUBSET S
        PROVE  g[s] = IF s = {} THEN <<>>
                      ELSE Rub(margin, g[s \ {Max(s)}], items[Max(s)])
    <3>1. CASE s = {}  BY <2>4, <3>1 DEF Folds
    <3>2. CASE s # {}
      <4>1. Max(s) \in 1..n  BY <1>1, <3>2, MaxIn
      <4>2. g[s \ {Max(s)}] \in D  BY <2>4 DEF Folds
      <4>3. g[s] = step[Max(s)][g[s \ {Max(s)}]]  BY <2>4, <3>2 DEF Folds
      <4>4. g[s] = Rub(margin, g[s \ {Max(s)}], items[Max(s)])  BY <2>2, <4>1, <4>2, <4>3
      <4> QED BY <3>2, <4>4
    <3> QED BY <3>1, <3>2
  <2>6. g \in [SUBSET S -> D]  BY <2>4 DEF Folds
  <2> HIDE DEF S
  <2>7. Eq(g)  BY <2>5, <2>6
  <2> QED BY <2>7
<1>4. Eq(f)
  <2> HIDE DEF Eq
  <2> QED BY <1>3
<1>5. f[{}] = <<>> /\ \A k \in 1..n : f[1..k] = Rub(margin, f[1..(k-1)], items[k])
  <2>1. \A s \in SUBSET S :
           f[s] = IF s = {} THEN <<>> ELSE Rub(margin, f[s \ {Max(s)}], items[Max(s)])
    BY <1>4
  <2> HIDE DEF f
  <2>2. f[{}] = <<>>  BY <2>1
  <2>3. ASSUME NEW k \in 1..n PROVE f[1..k] = Rub(margin, f[1..(k-1)], items[k])
    <3>1. /\ 1..k \in SUBSET (1..n) /\ 1..k # {}
          /\ Max(1..k) = k /\ (1..k) \ {k} = 1..(k-1)
      BY <1>1, FoldSteps
    <3> DEFINE t == 1..k
    <3>2. t \in SUBSET S /\ t # {} /\ Max(t) = k /\ t \ {k} = 1..(k-1)  BY <3>1
    <3> HIDE DEF t, S
    <3>3. f[t] = Rub(margin, f[t \ {Max(t)}], items[Max(t)])  BY <2>1, <3>2
    <3>4. f[t] = Rub(margin, f[1..(k-1)], items[k])  BY <3>2, <3>3
    <3> QED BY <3>4 DEF t
  <2> QED BY <2>2, <2>3
<1> HIDE DEF f
<1> DEFINE N == {k \in 0..n : f[1..k] \in D}
<1>6. \A k \in 0..n : k \in N
  <2>1. 0 \in N
    <3>1. 1..0 = {} /\ 0 \in 0..n /\ <<>> \in D  BY <1>1
    <3>2. f[1..0] = <<>>  BY <1>5, <3>1
    <3> QED BY <3>1, <3>2
  <2>2. ASSUME NEW k \in 1..n, k - 1 \in N PROVE k \in N
    <3>1. f[1..(k-1)] \in D /\ items[k] \in Shown  BY <1>1, <2>2
    <3>2. f[1..k] \in D  BY <1>5, <3>1, RubType
    <3> QED BY <3>2
  <2> HIDE DEF N
  <2> QED BY <1>1, <2>1, <2>2, Climbs
<1> DEFINE V == [k \in 0..n |-> f[1..k]]
<1>7. V \in [0..n -> D]  BY <1>6
<1>8. V[0] = <<>>
  <2>1. 1..0 = {}  OBVIOUS
  <2> QED BY <1>1, <1>5, <2>1
<1>9. \A k \in 1..n : V[k] = Rub(margin, V[k-1], items[k])  BY <1>1, <1>5
<1>10. V[n] = f[S]  BY <1>1
<1> HIDE DEF V
<1>11. RubRuns(margin, V, items)  BY <1>7, <1>8, <1>9 DEF RubRuns
<1> QED BY <1>2, <1>10, <1>11

LEMMA RubbedEmpty == ASSUME NEW margin PROVE Rubbed(margin, <<>>) = <<>>
<1>1. <<>> \in Seq(Shown) /\ Len(<<>>) = 0  OBVIOUS
<1>2. PICK V : RubRuns(margin, V, <<>>) /\ Rubbed(margin, <<>>) = V[Len(<<>>)]
  BY <1>1, RubRunsExist
<1> QED BY <1>1, <1>2 DEF RubRuns

LEMMA RubbedType ==
    ASSUME NEW margin, NEW items \in Seq(Shown)
    PROVE  Rubbed(margin, items) \in Seq(Shown)
<1>1. PICK V : RubRuns(margin, V, items) /\ Rubbed(margin, items) = V[Len(items)]  BY RubRunsExist
<1>2. Len(items) \in 0..Len(items)  BY LenProperties
<1> QED BY <1>1, <1>2 DEF RubRuns

(* One more item. *)
LEMMA RubbedAppend ==
    ASSUME NEW margin, NEW items \in Seq(Shown), NEW c \in Shown
    PROVE  Rubbed(margin, Append(items, c)) = Rub(margin, Rubbed(margin, items), c)
<1> DEFINE n == Len(items)
           more == Append(items, c)
<1>1. /\ more \in Seq(Shown) /\ Len(more) = n + 1 /\ n \in Nat
      /\ \A i \in 1..n : more[i] = items[i]
      /\ more[n + 1] = c
  BY AppendProperties, LenProperties
<1> HIDE DEF more
<1>2. PICK V : RubRuns(margin, V, items) /\ Rubbed(margin, items) = V[n]  BY RubRunsExist
<1>3. PICK W : RubRuns(margin, W, more) /\ Rubbed(margin, more) = W[n + 1]  BY <1>1, RubRunsExist
<1> DEFINE S == {k \in 0..n : W[k] = V[k]}
<1>4. 0 \in S  BY <1>1, <1>2, <1>3 DEF RubRuns
<1>5. ASSUME NEW k \in 1..n, k - 1 \in S PROVE k \in S
  <2>1. k \in 1..Len(more) /\ W[k-1] = V[k-1]  BY <1>1, <1>5
  <2>2. W[k] = Rub(margin, W[k-1], more[k]) /\ V[k] = Rub(margin, V[k-1], items[k])
    BY <1>2, <1>3, <2>1 DEF RubRuns
  <2> QED BY <1>1, <2>1, <2>2
<1> HIDE DEF S
<1>6. \A k \in 0..n : k \in S  BY <1>1, <1>4, <1>5, Climbs
<1>7. W[n] = V[n]
  <2>1. n \in 0..n  BY <1>1
  <2> QED BY <1>6, <2>1 DEF S
<1>8. W[n + 1] = Rub(margin, W[n], c)
  <2>1. n + 1 \in 1..Len(more) /\ n + 1 - 1 = n  BY <1>1
  <2>2. W[n + 1] = Rub(margin, W[n + 1 - 1], more[n + 1])  BY <1>3, <2>1 DEF RubRuns
  <2> QED BY <1>1, <2>1, <2>2
<1> QED BY <1>2, <1>3, <1>7, <1>8 DEF more

(* One more item gets no stuck rub free, and a rub in column 0 is stuck.    *)
LEMMA StuckAppend ==
    ASSUME NEW margin, NEW items \in Seq(Shown), NEW c \in Shown,
           ~Stuck(margin, Append(items, c))
    PROVE  /\ ~Stuck(margin, items)
           /\ c = "rub" => ~InColumn0(margin, Rubbed(margin, items))
<1> DEFINE n == Len(items)
           more == Append(items, c)
           Before(s, i) == SubSeq(s, 1, i - 1)
<1>1. /\ more \in Seq(Shown) /\ Len(more) = n + 1 /\ n \in Nat
      /\ \A i \in 1..n : more[i] = items[i]
      /\ more[n + 1] = c
      /\ DOMAIN more = 1..(n + 1) /\ DOMAIN items = 1..n
  BY AppendProperties, LenProperties
<1>2. \A i \in 1..(n + 1) : Before(more, i) = Before(items, i)
  <2> SUFFICES ASSUME NEW i \in 1..(n + 1)
               PROVE  SubSeq(more, 1, i - 1) = SubSeq(items, 1, i - 1)
    OBVIOUS
  <2> DEFINE m == i - 1
  <2>1. m \in 0..n  BY <1>1
  <2> HIDE DEF more, m
  <2>2. \A j \in 1..m : more[j] = items[j]  BY <1>1, <2>1
  <2>3. SubSeq(more, 1, m) = SubSeq(items, 1, m)  BY <1>1, <2>1, <2>2
  <2> QED BY <2>3 DEF m
<1>3. Before(items, n + 1) = items
  <2>1. n + 1 - 1 = n  BY <1>1
  <2>2. SubSeq(items, 1, n) = items  OBVIOUS
  <2> QED BY <2>1, <2>2
<1>4. \A i \in 1..(n + 1) :
         ~(more[i] = "rub" /\ InColumn0(margin, Rubbed(margin, Before(more, i))))
  BY <1>1 DEF Stuck
<1> HIDE DEF more, Before
<1>5. \A i \in 1..n :
         ~(items[i] = "rub" /\ InColumn0(margin, Rubbed(margin, Before(items, i))))
  BY <1>1, <1>2, <1>4
<1>6. ~Stuck(margin, items)  BY <1>1, <1>5 DEF Stuck, Before
<1>7. n + 1 \in 1..(n + 1)  BY <1>1
<1>8. ~(c = "rub" /\ InColumn0(margin, Rubbed(margin, items)))
  BY <1>1, <1>2, <1>3, <1>4, <1>7
<1> QED BY <1>6, <1>8
-----------------------------------------------------------------------------
(* What the screen shows once its buffer is flushed.  Whether that has     *)
(* happened makes no difference to it: a prompt in the buffer starts the   *)
(* screen anew, anything else comes to its end.                            *)
Visible == Show(screen, vga_buffer)
Put(seen, item) == IF item = ">" THEN <<">">> ELSE Append(seen, item)

LEMMA ShowNothing ==
    ASSUME NEW seen \in Seq(Shown)
    PROVE  Show(seen, <<>>) = seen
<1>1. {i \in DOMAIN <<>> : <<>>[i] = ">"} = {}  OBVIOUS
<1>2. Show(seen, <<>>) = seen \o <<>>  BY <1>1 DEF Show
<1> QED BY <1>2

LEMMA ShowPut ==
    ASSUME NEW seen \in Seq(Shown), NEW items \in Seq(Item), NEW item \in Item
    PROVE  Show(seen, Append(items, item)) = Put(Show(seen, items), item)
<1> DEFINE n == Len(items)
           more == Append(items, item)
           before == {i \in DOMAIN items : items[i] = ">"}
           after == {i \in DOMAIN more : more[i] = ">"}
<1>1. /\ more \in Seq(Item) /\ Len(more) = n + 1 /\ n \in Nat
      /\ \A i \in 1..n : more[i] = items[i]
      /\ more[n + 1] = item
      /\ DOMAIN more = 1..(n+1) /\ DOMAIN items = 1..n
  BY AppendProperties, LenProperties
<1>a. items \in Seq(Shown) /\ item \in Shown  BY DEF Item, Shown
<1>2. /\ Show(seen, items) = IF before = {} THEN seen \o items
                             ELSE SubSeq(items, Max(before), Len(items))
      /\ Show(seen, more) = IF after = {} THEN seen \o more
                            ELSE SubSeq(more, Max(after), Len(more))
  BY DEF Show
<1>b. more = Append(items, item)  OBVIOUS
<1> HIDE DEF more
<1>3. CASE item = ">"
  <2>1. n + 1 \in after /\ after \in SUBSET (1..(n+1)) /\ n + 1 \in Nat \ {0}
    BY <1>1, <1>3
  <2> HIDE DEF after
  <2>2. Max(after) = n + 1  BY <2>1, MaxUpTo
  <2>3. SubSeq(more, n + 1, n + 1) = <<">">>
    <3> DEFINE p == n + 1
               one == SubSeq(more, p, p)
    <3>1. more[p] = ">" /\ p \in Nat \ {0} /\ p \in 1..Len(more)  BY <1>1, <1>3
    <3> HIDE DEF p
    <3>2. \A i \in p..p : more[i] \in Item  BY <1>1, <3>1
    <3>3. /\ one \in Seq(Item)
          /\ Len(one) = IF p <= p THEN p - p + 1 ELSE 0
          /\ \A i \in 1..(p - p + 1) : one[i] = more[p + i - 1]
      BY <1>1, <3>1, <3>2, SubSeqProperties
    <3> HIDE DEF one
    <3>4. p - p + 1 = 1 /\ p + 1 - 1 = p /\ p <= p  BY <3>1
    <3>5. Len(one) = 1 /\ one[1] = ">"
      <4>1. 1 \in 1..(p - p + 1)  BY <3>4
      <4> QED BY <3>1, <3>3, <3>4, <4>1
    <3>6. one = [i \in 1..1 |-> one[i]]  BY <3>3, <3>5, LenProperties
    <3>7. \A i \in 1..1 : one[i] = ">"  BY <3>5
    <3>8. one = <<">">>  BY <3>6, <3>7
    <3> QED BY <3>8 DEF p, one
  <2>4. after # {} /\ Show(seen, more) = SubSeq(more, n + 1, n + 1)
    BY <1>1, <1>2, <2>1, <2>2
  <2> QED BY <1>3, <1>b, <2>3, <2>4 DEF Put
<1>4. CASE item # ">"
  <2>1. after = before  BY <1>1, <1>4
  <2>2. CASE before = {}
    <3>1. seen \o Append(items, item) = Append(seen \o items, item)
      BY <1>a
    <3> QED BY <1>2, <1>4, <1>b, <2>1, <2>2, <3>1 DEF Put
  <2>3. CASE before # {}
    <3> DEFINE m == Max(before)
    <3>1. before \in SUBSET (1..n)  BY <1>1
    <3>2. m \in 1..n
      <4> HIDE DEF before
      <4> QED BY <1>1, <2>3, <3>1, MaxIn
    <3> HIDE DEF m
    <3>3. SubSeq(Append(items, item), m, n + 1) = Append(SubSeq(items, m, n), item)
      BY <1>1, <3>2
    <3> QED BY <1>1, <1>2, <1>4, <1>b, <2>1, <2>3, <3>3 DEF Put, m
  <2> QED BY <2>2, <2>3
<1> QED BY <1>3, <1>4

LEMMA Displays ==
    ASSUME TypeOK, NEW item \in Item, vga_buffer_put(item)
    PROVE  Visible' = Put(Visible, item)
<1>1. screen \in Seq(Shown) /\ vga_buffer \in Seq(Item)
  BY DEF TypeOK, Item, Shown
<1>2. Show(screen, Append(vga_buffer, item)) = Put(Visible, item)
  BY <1>1, ShowPut DEF Visible
<1>3. Append(vga_buffer, item) \in Seq(Item)  BY <1>1
<1>4. Show(screen, Append(vga_buffer, item)) \in Seq(Shown)  BY <1>1, <1>3, ShowType
<1>5. CASE Len(vga_buffer) + 1 = VGA_BUFFER_SIZE
  <2>1. vga_buffer' = <<>> /\ screen' = Show(screen, Append(vga_buffer, item))
    BY <1>5 DEF vga_buffer_put
  <2> QED BY <1>2, <1>4, <2>1, ShowNothing DEF Visible
<1>6. CASE Len(vga_buffer) + 1 # VGA_BUFFER_SIZE
  <2>1. vga_buffer' = Append(vga_buffer, item) /\ screen' = screen
    BY <1>6 DEF vga_buffer_put
  <2> QED BY <1>2, <2>1 DEF Visible
<1> QED BY <1>5, <1>6

LEMMA Flushes ==
    ASSUME TypeOK, vga_flush
    PROVE  Visible' = Visible
<1>1. screen \in Seq(Shown) /\ vga_buffer \in Seq(Item)
  BY DEF TypeOK, Item, Shown
<1>2. screen' = Visible /\ vga_buffer' = <<>>  BY DEF vga_flush, Visible
<1> QED BY <1>1, <1>2, ShowType, ShowNothing DEF Visible

(* The screen shows the prompt and the line, but for the character that    *)
(* has just come to the terminal; while a command runs it shows anything.  *)
Reads(items, text) == \A margin \in 0..(scrn_width - 1) :
    ~Stuck(margin, items) => Rubbed(margin, items) = <<">">> \o text
Shows(buf, n) == Plainly(buf, n) /\ Reads(Visible, Text(buf, n))
ShowInv ==
    \/ /\ pc # "clear" /\ terminal_last_put = terminal_buffer_length
       /\ Shows(terminal_buffer, terminal_buffer_length)
    \/ /\ pc = "terminal" /\ terminal_buffer_length > 0
       /\ terminal_last_put = terminal_buffer_length - 1
       /\ Shows(terminal_buffer, terminal_buffer_length - 1)
    \/ pc = "clear"

LEMMA PromptShown ==
    /\ <<">">> \in Seq(Shown) /\ <<">">> \o <<>> = <<">">>
    /\ Reads(<<">">>, <<>>)
<1>1. <<>> \in Seq(Shown) /\ ">" \in Shown /\ ">" # "rub"  BY DEF Shown
<1>2. Append(<<>>, ">") = <<">">>  OBVIOUS
<1>3. \A margin : Rubbed(margin, Append(<<>>, ">")) = Append(<<>>, ">")
  BY <1>1, RubbedEmpty, RubbedAppend DEF Rub
<1>4. Append(<<>>, ">") \in Seq(Shown)  BY <1>1
<1>5. <<">">> \o <<>> = <<">">>  OBVIOUS
<1>6. \A margin : Rubbed(margin, <<">">>) = <<">">> \o <<>>  BY <1>2, <1>3, <1>5
<1>7. Reads(<<">">>, <<>>)  BY <1>6 DEF Reads
<1> QED BY <1>2, <1>4, <1>5, <1>7

LEMMA LettersShown == \A c \in Letters : c \in Shown /\ c \in Item /\ c # "rub" /\ c # ">"
BY Zenon DEF Letters, Char, Item, Shown, NUL

LEMMA DisplayType == ASSUME TypeOK PROVE Visible \in Seq(Shown)
BY ShowType DEF TypeOK, Item, Shown, Visible

LEMMA PromptAppend ==
    ASSUME NEW t \in Seq(Letters), NEW c \in Letters
    PROVE  Append(<<">">> \o t, c) = <<">">> \o Append(t, c)
<1>1. t \in Seq(Shown) /\ c \in Shown  BY LettersShown
<1>2. <<">">> \in Seq(Shown)  BY PromptShown
<1> HIDE DEF Letters
<1> QED BY <1>1, <1>2

LEMMA ShowInit == Init => ShowInv
<1> SUFFICES ASSUME Init PROVE ShowInv  OBVIOUS
<1>1. /\ screen = <<>> /\ vga_buffer = <<">">> /\ pc = "keyboard_flush"
      /\ terminal_buffer_length = 0 /\ terminal_last_put = 0
  BY DEF Init, PowerOn
<1>2. Visible = <<">">>
  <2>1. <<>> \in Seq(Shown) /\ <<>> \in Seq(Item) /\ ">" \in Item  BY DEF Item
  <2>2. Show(<<>>, Append(<<>>, ">")) = <<">">>  BY <2>1, ShowPut DEF Put
  <2>3. Append(<<>>, ">") = <<">">>  OBVIOUS
  <2> QED BY <1>1, <2>2, <2>3 DEF Visible
<1>3. Text(terminal_buffer, 0) = <<>> /\ Plainly(terminal_buffer, 0)
  BY DEF Text, Plainly
<1> QED BY <1>1, <1>2, <1>3, PromptShown DEF ShowInv, Shows

(* A letter comes to the line and to the screen. *)
LEMMA EchoShows ==
    ASSUME SlowInv, ShowInv, Echo
    PROVE  ShowInv'
<1> DEFINE n == terminal_buffer_length
           buf == terminal_buffer
<1>1. /\ pc = "terminal" /\ n \in 1..MAX_TERMINAL_BUFFER_SIZE
      /\ last \notin {"enter", "erase"} /\ pc' = "vga_flush"
      /\ UNCHANGED <<terminal_buffer, terminal_buffer_length>>
  BY DEF Echo, AtTerminal
<1>2. Plainly(buf, n) /\ last \in Letters /\ last = buf[n - 1] /\ n - 1 \in Nat
  <2>1. Plainly(buf, n)  BY <1>1 DEF SlowInv, LineKept
  <2>2. n - 1 \in 0..(n - 1)  BY <1>1
  <2> QED BY <2>1, <2>2 DEF Plainly, last
<1>3. CASE terminal_last_put = n /\ Shows(buf, n)
  <2>1. ~(terminal_last_put < n)  BY <1>1, <1>3
  <2>2. UNCHANGED <<display, terminal_last_put>>  BY <2>1 DEF Echo
  <2> QED BY <1>1, <1>3, <2>2 DEF ShowInv, Shows, Visible, display
<1>4. CASE terminal_last_put = n - 1 /\ Shows(buf, n - 1)
  <2>1. terminal_last_put < n /\ ~(terminal_last_put >= n) /\ n - 1 + 1 = n
    BY <1>1, <1>4
  <2>2. vga_buffer_put(last) /\ terminal_last_put' = n
    BY <1>4, <2>1 DEF Echo
  <2>3. Visible' = Append(Visible, last)
    BY <1>2, <2>2, Displays, LettersShown DEF SlowInv, Put
  <2>5. Plainly(buf, n - 1)  BY <1>4 DEF Shows
  <2>6. Text(buf, n - 1) \in Seq(Letters)  BY <1>2, <2>5, TextIs
  <2>7. Text(buf, n) = Append(Text(buf, n - 1), last)
    <3> DEFINE m == n - 1
    <3>1. m \in Nat /\ Plainly(buf, m) /\ last \in Letters /\ buf[m] = last
          /\ m + 1 = n
      BY <1>2, <2>1, <2>5
    <3> HIDE DEF m
    <3>2. Text(buf, m + 1) = Append(Text(buf, m), last)  BY <3>1, TextAppend
    <3> QED BY <3>1, <3>2 DEF m
  <2>8. Append(<<">">> \o Text(buf, n - 1), last) = <<">">> \o Text(buf, n)
    BY <1>2, <2>6, <2>7, PromptAppend
  <2>9. Reads(Visible', Text(buf, n))
    <3> SUFFICES ASSUME NEW margin \in 0..(scrn_width - 1),
                        ~Stuck(margin, Append(Visible, last))
                 PROVE  Rubbed(margin, Append(Visible, last)) = <<">">> \o Text(buf, n)
      BY <2>3 DEF Reads
    <3>1. last \in Shown /\ last # "rub" /\ Visible \in Seq(Shown)
      BY <1>2, LettersShown, DisplayType DEF SlowInv
    <3>2. Rubbed(margin, Append(Visible, last)) = Append(Rubbed(margin, Visible), last)
      BY <3>1, RubbedAppend DEF Rub
    <3>3. ~Stuck(margin, Visible)  BY <3>1, StuckAppend
    <3> QED BY <1>4, <2>8, <3>2, <3>3 DEF Shows, Reads
  <2> QED BY <1>1, <1>2, <2>2, <2>9 DEF ShowInv, Shows
<1> QED BY <1>1, <1>3, <1>4 DEF ShowInv

(* A backspace takes one off both. *)
LEMMA BackspaceShows ==
    ASSUME SlowInv, ShowInv, Backspace
    PROVE  ShowInv'
<1> DEFINE n == terminal_buffer_length
           buf == terminal_buffer
           t == Text(buf, n - 1)
           f == Text(buf, n - 2)
<1>1. /\ n \in 2..MAX_TERMINAL_BUFFER_SIZE /\ n' = n - 2 /\ pc' = "vga_flush"
      /\ pc = "terminal" /\ buf' = buf /\ Plainly(buf, n - 1) /\ last = "erase"
  BY SlowBackspace
<1>2. terminal_last_put = n - 1 /\ Shows(buf, n - 1)
  <2>1. n - 1 \in 0..(n - 1) /\ last \notin Letters  BY <1>1, LettersAre
  <2>2. ~Plainly(buf, n)  BY <2>1 DEF Plainly, last
  <2> QED BY <1>1, <2>2 DEF ShowInv, Shows
<1>3. terminal_last_put' = n - 2 /\ vga_buffer_put("rub")
  BY <1>1, <1>2 DEF Backspace
<1>4. "rub" \in Item /\ "rub" \in Shown /\ "rub" # ">"  BY DEF Item, Shown
<1>5. Visible' = Append(Visible, "rub")
  BY <1>3, <1>4, Displays DEF SlowInv, Put
<1>6. ASSUME NEW margin \in 0..(scrn_width - 1), ~Stuck(margin, Visible')
      PROVE  Rubbed(margin, Visible') = Front(<<">">> \o t)
  <2>1. Visible \in Seq(Shown)  BY DisplayType DEF SlowInv
  <2>2. /\ ~Stuck(margin, Visible)
        /\ ~InColumn0(margin, Rubbed(margin, Visible))
    BY <1>4, <1>5, <1>6, <2>1, StuckAppend
  <2>3. Rubbed(margin, Append(Visible, "rub")) = Front(Rubbed(margin, Visible))
    BY <1>4, <2>1, <2>2, RubbedAppend DEF Rub
  <2> QED BY <1>2, <1>5, <2>2, <2>3 DEF Shows, Reads
<1>7. t \in Seq(Letters) /\ t # <<>> /\ Len(t) = n - 1 /\ Plainly(buf, n - 2) /\ f = Front(t)
  <2> DEFINE m == n - 1
  <2>1. m \in Nat \ {0} /\ m \in Nat /\ m - 1 = n - 2 /\ Plainly(buf, m)  BY <1>1
  <2> HIDE DEF m
  <2>2. /\ Text(buf, m) # <<>> /\ Plainly(buf, m - 1)
        /\ Text(buf, m - 1) = Front(Text(buf, m))
    BY <2>1, TextFront
  <2>3. Text(buf, m) \in Seq(Letters) /\ Len(Text(buf, m)) = m  BY <2>1, TextIs
  <2> QED BY <2>1, <2>2, <2>3 DEF m
<1> DEFINE e == t[Len(t)]
<1>8. f \in Seq(Letters) /\ e \in Letters /\ t = Append(f, e)
  <2>1. f \in Seq(Letters)
    <3>1. n - 2 \in Nat  BY <1>1
    <3> QED BY <1>7, <3>1, TextIs
  <2>2. Len(t) \in 1..Len(t)  BY <1>1, <1>7
  <2>3. e \in Letters
    <3> HIDE DEF t
    <3> QED BY <1>7, <2>2, LenProperties
  <2>4. Append(Front(t), e) = t
    <3> HIDE DEF t, f
    <3> QED BY <1>7, AppendFront
  <2> QED BY <1>7, <2>1, <2>3, <2>4
<1> HIDE DEF t, f, e
<1>9. <<">">> \o t = Append(<<">">> \o f, e)  BY <1>8, PromptAppend
<1>10. Front(<<">">> \o t) = <<">">> \o f
  <2>1. f \in Seq(Shown) /\ e \in Shown /\ <<">">> \in Seq(Shown)
    BY <1>8, LettersShown, PromptShown
  <2>2. <<">">> \o f \in Seq(Shown)  BY <2>1
  <2> QED BY <1>9, <2>1, <2>2, FrontAppend
<1>11. Reads(Visible', Text(buf', n'))  BY <1>1, <1>6, <1>10 DEF f, Reads
<1>12. Plainly(buf', n')  BY <1>1, <1>7
<1> QED BY <1>1, <1>3, <1>11, <1>12 DEF ShowInv, Shows

(* The prompt after a command starts both anew. *)
LEMMA ClearShows ==
    ASSUME SlowInv, ShowInv, Clear
    PROVE  ShowInv'
<1>1. /\ pc' = "vga_flush" /\ terminal_buffer_length' = 0 /\ terminal_last_put' = 0
      /\ vga_buffer_put(">")
  BY DEF Clear
<1>2. Visible' = <<">">>
  <2>1. ">" \in Item  BY DEF Item
  <2> QED BY <1>1, <2>1, Displays DEF SlowInv, Put
<1>3. Text(terminal_buffer', 0) = <<>> /\ Plainly(terminal_buffer', 0)
  BY DEF Text, Plainly
<1> QED BY <1>1, <1>2, <1>3, PromptShown DEF ShowInv, Shows

LEMMA FlushShows ==
    ASSUME SlowInv, ShowInv, FlushKeyboard
    PROVE  ShowInv'
<1> DEFINE n == terminal_buffer_length
<1>1. /\ n' = n + 1 /\ pc = "disabled" /\ pc' = "terminal"
      /\ \A i \in 0..(n - 1) : terminal_buffer'[i] = terminal_buffer[i]
      /\ UNCHANGED <<display, terminal_last_put>>
  BY SlowFlush DEF FlushKeyboard
<1>2. n \in Nat  BY SlowIs, Sizes
<1>3. terminal_last_put = n /\ Shows(terminal_buffer, n)
  BY <1>1 DEF ShowInv
<1>4. Text(terminal_buffer', n) = Text(terminal_buffer, n)  BY <1>1, <1>2, TextKept
<1>5. Plainly(terminal_buffer', n)  BY <1>1, <1>3 DEF Shows, Plainly
<1>6. Visible' = Visible  BY <1>1 DEF Visible, display
<1>7. n' - 1 = n /\ n' > 0 /\ terminal_last_put' = n' - 1  BY <1>1, <1>2, <1>3
<1>8. Reads(Visible', Text(terminal_buffer', n))
  BY <1>3, <1>4, <1>6 DEF Shows
<1> QED BY <1>1, <1>5, <1>7, <1>8 DEF ShowInv, Shows

LEMMA ShowNext == ASSUME SlowInv, ShowInv, [SlowNext]_vars PROVE ShowInv'
<1> DEFINE Same == UNCHANGED <<terminal_buffer, terminal_buffer_length, terminal_last_put>>
<1>0. Same /\ Visible' = Visible /\ pc # "clear" /\ pc' # "clear"
      /\ (pc = "terminal" => pc' = "terminal" \/ terminal_buffer_length = 0) => ShowInv'
  BY SlowIs DEF ShowInv, Shows
<1>1. CASE CheckKeyboard \/ TerminalEmpty \/ vga_flush
  <2>1. Same /\ pc # "clear" /\ pc' # "clear"
        /\ (pc = "terminal" => terminal_buffer_length = 0)
    BY <1>1 DEF CheckKeyboard, TerminalEmpty, vga_flush, terminal
  <2>2. Visible' = Visible
    BY <1>1, Flushes DEF SlowInv, CheckKeyboard, TerminalEmpty, Visible, display
  <2> QED BY <1>0, <2>1, <2>2
<1>2. ASSUME NEW c \in Keys, SlowKey(c) PROVE ShowInv'
  <2>1. /\ keyboard_buffer_length = 0 /\ pc = "keyboard_flush" /\ Key(c)
    BY <1>2 DEF SlowKey, Quiet
  <2>2. UNCHANGED <<terminal, display, pc>>
    BY <2>1, Sizes DEF Key, terminal
  <2> QED BY <1>0, <2>1, <2>2 DEF Visible, display, terminal
<1>3. CASE Evaluate  BY <1>3 DEF Evaluate, ShowInv
<1>4. CASE UNCHANGED vars
  BY <1>4 DEF vars, ShowInv, Shows, Visible, display, terminal
<1> QED
  BY <1>1, <1>2, <1>3, <1>4, EchoShows, BackspaceShows, ClearShows, FlushShows
     DEF SlowNext, Round

(* With slow typing the screen shows the prompt and the line as it is,     *)
(* whenever the main loop is at keyboard_flush (keyboard.c:32) with        *)
(* nothing buffered and no backspace has met the cursor in column 0, where *)
(* put_char (vga.c:29) leaves it, for every width of the screen and every  *)
(* column of the prompt: the counter terminal_last_put (kernel.c) follows the  *)
(* line through echoes, backspaces and commands, and no item is lost where *)
(* the buffer of the screen (vga.c) fills up, whatever its size.           *)
THEOREM ScreenShowsLineAlways == SlowSpec => []ScreenShowsLine
<1>1. SlowInv /\ ShowInv /\ [SlowNext]_vars => ShowInv'  BY ShowNext
<1>2. SlowInv /\ ShowInv => ScreenShowsLine
  <2> SUFFICES ASSUME SlowInv, ShowInv, Quiet
               PROVE  Reads(screen, Line(terminal_buffer_length))
    BY DEF ScreenShowsLine, Reads
  <2>1. pc = "keyboard_flush" /\ vga_buffer = <<>>  BY DEF Quiet
  <2>2. Visible = screen
    <3>1. screen \in Seq(Shown)  BY DEF SlowInv, TypeOK, Shown
    <3> QED BY <2>1, <3>1, ShowNothing DEF Visible
  <2>3. Shows(terminal_buffer, terminal_buffer_length)  BY <2>1 DEF ShowInv
  <2> QED BY <2>2, <2>3 DEF Shows, Line, Text
<1> QED BY <1>1, <1>2, ShowInit, SlowAlways, PTL DEF SlowSpec

-----------------------------------------------------------------------------
(* The size of a file, in octal. *)
Halving(R, bytes) ==
    /\ R \in [0..DIGITS -> Nat] /\ R[0] = bytes
    /\ \A j \in 1..DIGITS : R[j] = R[j-1] \div 8

LEMMA RestsAre ==
    ASSUME NEW bytes \in Nat
    PROVE  Halving(Rests(bytes), bytes)
<1> DEFINE n == DIGITS
           step == [j \in 1..n |-> [x \in Nat |-> x \div 8]]
           Eq(w) == w = [j \in 0..n |-> IF j = 0 THEN bytes ELSE w[j-1] \div 8]
           f == CHOOSE w : Eq(w)
<1>0. n \in Nat  BY InitrdAssumption
<1>1. Rests(bytes) = f  BY DEF Rests
<1>2. step \in [1..n -> [Nat -> Nat]]
  <2>1. \A x \in Nat : x \div 8 \in Nat  BY DivMod
  <2> QED BY <2>1
<1>3. PICK W : Runs(W, n, Nat, bytes, step)
  <2> HIDE DEF step, n
  <2> QED BY <1>0, <1>2, RunsExist
<1>4. Halving(W, bytes)
  <2>1. W \in [0..n -> Nat] /\ W[0] = bytes  BY <1>3 DEF Runs
  <2>2. ASSUME NEW j \in 1..n PROVE W[j] = W[j-1] \div 8
    <3>1. j - 1 \in 0..n /\ W[j-1] \in Nat  BY <1>0, <2>1
    <3>2. W[j] = step[j][W[j-1]]  BY <1>3 DEF Runs
    <3> QED BY <3>1, <3>2
  <2> QED BY <2>1, <2>2 DEF Halving
<1>5. Eq(W)  BY <1>4 DEF Halving
<1>6. Eq(f)
  <2> HIDE DEF Eq
  <2> QED BY <1>5
<1>7. f = [j \in 0..n |-> IF j = 0 THEN bytes ELSE f[j-1] \div 8]  BY <1>6
<1> HIDE DEF f
<1>8. /\ f[0] = bytes /\ (\A j \in 1..n : f[j] = f[j-1] \div 8)
      /\ DOMAIN f = 0..n /\ f = [j \in 0..n |-> f[j]]
  BY <1>0, <1>7
<1> DEFINE S == {j \in 0..n : f[j] \in Nat}
<1>9. \A j \in 0..n : j \in S
  <2>1. 0 \in S  BY <1>0, <1>8
  <2>2. ASSUME NEW j \in 1..n, j - 1 \in S PROVE j \in S
    <3>1. f[j-1] \in Nat /\ f[j] = f[j-1] \div 8  BY <1>8, <2>2
    <3>2. f[j] \in Nat  BY <3>1, DivMod
    <3> QED BY <3>2
  <2> HIDE DEF S, n
  <2> QED BY <1>0, <2>1, <2>2, Climbs
<1>10. f \in [0..n -> Nat]  BY <1>8, <1>9
<1> QED BY <1>1, <1>8, <1>10 DEF Halving

(* What the loop of get_size does to its two variables for each digit.     *)
Sums == [size : Nat, count : Nat]
Summing(t) ==
    [i \in 1..DIGITS |->
        [sum \in Sums |-> [size  |-> (sum.size + t[i] * sum.count) % U32,
                           count |-> (sum.count * 8) % U32]]]

LEMMA SummingType ==
    ASSUME NEW t \in [1..DIGITS -> Nat]
    PROVE  /\ Summing(t) \in [1..DIGITS -> [Sums -> Sums]]
           /\ \A i \in 1..DIGITS, sum \in Sums :
                 Summing(t)[i][sum] = [size |-> (sum.size + t[i] * sum.count) % U32,
                                       count |-> (sum.count * 8) % U32]
<1>1. ASSUME NEW i \in 1..DIGITS, NEW sum \in Sums
      PROVE  [size  |-> (sum.size + t[i] * sum.count) % U32,
              count |-> (sum.count * 8) % U32] \in Sums
  <2> DEFINE a == sum.size
             b == sum.count
             d == t[i]
  <2>1. a \in Nat /\ b \in Nat /\ d \in Nat  BY DEF Sums
  <2> HIDE DEF a, b, d
  <2>2. a + d * b \in Nat /\ b * 8 \in Nat
    <3>1. d * b \in Nat  BY <2>1
    <3> QED BY <2>1, <3>1
  <2> DEFINE p == a + d * b
             q == b * 8
             x == p % U32
             y == q % U32
  <2>3. x \in Nat /\ y \in Nat
    <3>1. p \in Nat /\ q \in Nat /\ U32 \in Nat /\ U32 > 0  BY <2>2, InitrdAssumption
    <3> HIDE DEF p, q
    <3>2. p % U32 \in 0..(U32 - 1) /\ q % U32 \in 0..(U32 - 1)  BY <3>1, DivMod
    <3> QED BY <3>2
  <2> HIDE DEF x, y
  <2>4. [size |-> x, count |-> y] \in Sums  BY <2>3 DEF Sums
  <2> QED BY <2>4 DEF x, y, a, b, d
<1> QED BY <1>1 DEF Summing

LEMMA SizeRuns ==
    ASSUME NEW in, NEW t, t = Reverse(in), t \in [1..DIGITS -> Nat],
           DOMAIN t = 1..DIGITS
    PROVE  \E V : /\ Runs(V, DIGITS, Sums, [size |-> 0, count |-> 1], Summing(t))
                  /\ get_size(in) = V[DIGITS].size
<1> DEFINE n == DIGITS
           U == 1..n
           zero == [size |-> 0, count |-> 1]
           Eq(g) == g = [s \in SUBSET U |->
               IF s = {} THEN zero
               ELSE [size  |-> (g[s \ {Max(s)}].size + t[Max(s)] * g[s \ {Max(s)}].count)
                             % U32,
                     count |-> (g[s \ {Max(s)}].count * 8) % U32]]
           f == CHOOSE g : Eq(g)
           step == Summing(t)
<1>1. n \in Nat  BY InitrdAssumption
<1>2. get_size(in) = f[U].size
  <2>1. get_size(in) = (CHOOSE g : g = [s \in SUBSET DOMAIN t |->
            IF s = {} THEN zero
            ELSE [size  |-> (g[s \ {Max(s)}].size + t[Max(s)] * g[s \ {Max(s)}].count)
                             % U32,
                  count |-> (g[s \ {Max(s)}].count * 8) % U32]])[DOMAIN t].size
    BY DEF get_size, FoldLeft, MapThenFoldSet
  <2> QED BY <2>1
<1>3. /\ step \in [1..n -> [Sums -> Sums]]
      /\ \A i \in 1..n, sum \in Sums :
            step[i][sum] = [size  |-> (sum.size + t[i] * sum.count) % U32,
                            count |-> (sum.count * 8) % U32]
  BY SummingType
<1>4. zero \in Sums  BY DEF Sums
<1> HIDE DEF step, zero
<1>5. \E g : Eq(g)
  <2>1. PICK g : Folds(g, n, Sums, zero, step)  BY <1>1, <1>3, <1>4, FoldExists
  <2>2. ASSUME NEW s \in SUBSET U
        PROVE  g[s] = IF s = {} THEN zero
               ELSE [size  |-> (g[s \ {Max(s)}].size + t[Max(s)] * g[s \ {Max(s)}].count)
                             % U32,
                     count |-> (g[s \ {Max(s)}].count * 8) % U32]
    <3>1. CASE s = {}  BY <2>1, <3>1 DEF Folds
    <3>2. CASE s # {}
      <4>1. Max(s) \in 1..n  BY <1>1, <3>2, MaxIn
      <4>2. g[s \ {Max(s)}] \in Sums  BY <2>1 DEF Folds
      <4>3. g[s] = step[Max(s)][g[s \ {Max(s)}]]  BY <2>1, <3>2 DEF Folds
      <4> QED BY <1>3, <3>2, <4>1, <4>2, <4>3
    <3> QED BY <3>1, <3>2
  <2>3. g \in [SUBSET U -> Sums]  BY <2>1 DEF Folds
  <2> HIDE DEF U
  <2>4. Eq(g)  BY <2>2, <2>3
  <2> QED BY <2>4
<1>6. Eq(f)
  <2> HIDE DEF Eq
  <2> QED BY <1>5
<1>7. \A s \in SUBSET U :
         f[s] = IF s = {} THEN zero
                ELSE [size  |-> (f[s \ {Max(s)}].size + t[Max(s)] * f[s \ {Max(s)}].count)
                             % U32,
                      count |-> (f[s \ {Max(s)}].count * 8) % U32]
  BY <1>6
<1> HIDE DEF f
<1>8. ASSUME NEW s \in SUBSET (1..n), s # {}, f[s \ {Max(s)}] \in Sums
      PROVE  f[s] = step[Max(s)][f[s \ {Max(s)}]]
  <2>1. Max(s) \in 1..n  BY <1>1, <1>8, MaxIn
  <2> QED BY <1>3, <1>7, <1>8, <2>1
<1>9. Obeys(f, n, Sums, zero, step)  BY <1>7, <1>8 DEF Obeys
<1> HIDE DEF n
<1>10. zero \in Sums /\ n \in Nat /\ step \in [1..n -> [Sums -> Sums]]
       /\ Obeys(f, n, Sums, zero, step)
  BY <1>1, <1>3, <1>4, <1>9
<1>11. RunsTo(f[1..n], n, Sums, zero, step)  BY ONLY <1>10, FoldRuns
<1>12. PICK V : Runs(V, n, Sums, zero, step) /\ f[1..n] = V[n]  BY <1>11 DEF RunsTo
<1>13. get_size(in) = V[n].size  BY <1>2, <1>12 DEF U
<1> QED BY <1>12, <1>13 DEF step, n, zero

(* The digits read so far and those to come make up the size; the words    *)
(* hold the former up to multiples of 2^32.                                *)
Parts(sum, a, b, rest, bytes) ==
    /\ a + rest * b = bytes
    /\ sum.size = a % U32 /\ sum.count = b % U32

(* Remainders may be taken before adding and multiplying. *)
SameRest(d, p, b, e) == ((p % d) * b + e) % d = (p * b + e) % d

LEMMA RestSame ==
    ASSUME NEW d \in Nat, d > 0, NEW p \in Nat, NEW b \in Nat, NEW e \in Nat
    PROVE  SameRest(d, p, b, e)
<1>1. d \in Nat /\ d > 0 /\ p \in Nat /\ b \in Nat /\ e \in Nat  OBVIOUS
<1>2. ((p % d) * b + e) % d = (p * b + e) % d  BY ONLY <1>1, ModStep, Zenon
<1> QED BY <1>2 DEF SameRest

LEMMA PartsMove ==
    ASSUME NEW v, NEW a \in Nat, NEW b \in Nat, NEW p \in Nat, NEW bytes,
           Parts(v, a, b, p, bytes), NEW q, q = p \div 8, NEW r, r = p % 8,
           NEW w, w = [size  |-> (v.size + r * v.count) % U32,
                       count |-> (v.count * 8) % U32]
    PROVE  \E c, d \in Nat : Parts(w, c, d, q, bytes)
<1>0. U32 \in Nat /\ U32 > 0  BY InitrdAssumption
<1>1. q \in Nat /\ r \in Nat /\ p = q * 8 + r  BY DivMod
<1>2. a + p * b = bytes /\ v.size = a % U32 /\ v.count = b % U32  BY DEF Parts
<1> DEFINE c == a + r * b
           d == b * 8
<1>3. r * b \in Nat /\ c \in Nat /\ d \in Nat
  <2>1. r * b \in Nat  BY <1>1
  <2> QED BY <2>1
<1>4. c + q * d = bytes
  <2>1. (q * 8 + r) * b = q * (b * 8) + r * b  BY <1>1
  <2>2. q * (b * 8) \in Nat  BY <1>1
  <2> DEFINE y == q * (b * 8)
             z == r * b
  <2> HIDE DEF y, z
  <2>3. (a + z) + y = a + (y + z)  BY <1>3, <2>2 DEF y, z
  <2> QED BY <1>1, <1>2, <2>1, <2>3 DEF y, z
<1>5. ((b % U32) * 8) % U32 = d % U32
  <2>0. U32 \in Nat /\ U32 > 0 /\ b \in Nat /\ 8 \in Nat /\ 0 \in Nat  BY <1>0
  <2>1. ((b % U32) * 8 + 0) % U32 = (b * 8 + 0) % U32 /\ b % U32 \in 0..(U32 - 1)
    <3>1. b % U32 \in 0..(U32 - 1)  BY ONLY <2>0, DivMod
    <3>2. SameRest(U32, b, 8, 0)  BY ONLY <2>0, RestSame
    <3> QED BY <3>1, <3>2 DEF SameRest
  <2> DEFINE e == b % U32
  <2>2. e \in Nat  BY <2>1
  <2> HIDE DEF e
  <2>3. e * 8 + 0 = e * 8 /\ b * 8 + 0 = b * 8  BY <2>2
  <2> QED BY <2>1, <2>3 DEF e
<1>6. ((a % U32) + r * (b % U32)) % U32 = c % U32
  <2> DEFINE e == a % U32
             f == b % U32
             z == b * r
  <2>1. e \in Nat /\ f \in Nat
    <3>1. e \in 0..(U32 - 1) /\ f \in 0..(U32 - 1)  BY <1>0, DivMod
    <3> HIDE DEF e, f
    <3> QED BY <1>0, <3>1
  <2>2. (f * r + e) % U32 = (b * r + e) % U32
    <3>1. U32 \in Nat /\ U32 > 0 /\ b \in Nat /\ r \in Nat /\ e \in Nat  BY <1>0, <1>1, <2>1
    <3> HIDE DEF e
    <3>2. SameRest(U32, b, r, e)  BY ONLY <3>1, RestSame
    <3> QED BY <3>2 DEF SameRest
  <2>3. z \in Nat /\ z = r * b  BY <1>1
  <2> HIDE DEF z
  <2>4. (e * 1 + z) % U32 = (a * 1 + z) % U32
    <3>1. U32 \in Nat /\ U32 > 0 /\ a \in Nat /\ 1 \in Nat /\ z \in Nat  BY <1>0, <2>3
    <3>2. SameRest(U32, a, 1, z)  BY ONLY <3>1, RestSame
    <3> QED BY <3>2 DEF SameRest
  <2> HIDE DEF e, f
  <2>5. e * 1 + z = z + e /\ a * 1 + z = a + z /\ f * r + e = e + r * f
    <3>1. f * r \in Nat /\ f * r = r * f  BY <1>1, <2>1
    <3> QED BY <2>1, <2>3, <3>1
  <2>6. (e + r * f) % U32 = (z + e) % U32  BY <2>2, <2>5 DEF z
  <2>7. (z + e) % U32 = (a + z) % U32  BY <2>4, <2>5
  <2> QED BY <2>3, <2>6, <2>7 DEF e, f
<1>7. w.size = c % U32 /\ w.count = d % U32  BY <1>2, <1>5, <1>6
<1> HIDE DEF c, d
<1>8. Parts(w, c, d, q, bytes)  BY <1>4, <1>7 DEF Parts
<1> QED BY <1>3, <1>8

(* get_size reads what tar has written. *)
LEMMA SizeIs ==
    ASSUME NEW bytes \in 0..(U32 - 1), Rests(bytes)[DIGITS] = 0
    PROVE  get_size(Octal(bytes)) = bytes
<1> DEFINE n == DIGITS
           R == Rests(bytes)
           in == Octal(bytes)
           t == Reverse(in)
<1>0. n \in Nat /\ U32 \in Nat /\ U32 > 1 /\ bytes \in Nat /\ bytes < U32
  BY InitrdAssumption
<1>1. /\ R \in [0..n -> Nat] /\ R[0] = bytes /\ R[n] = 0
      /\ \A j \in 1..n : R[j] = R[j-1] \div 8
  BY RestsAre DEF Halving
<1>2. in = [j \in 1..n |-> R[n - j] % 8]  BY DEF Octal
<1> HIDE DEF R, in
<1>3. \A j \in 1..n : in[j] \in Nat
  <2> SUFFICES ASSUME NEW j \in 1..n PROVE in[j] \in Nat  OBVIOUS
  <2>1. n - j \in 0..n /\ in[j] = R[n - j] % 8  BY <1>0, <1>2
  <2> DEFINE x == R[n - j]
  <2>2. x \in Nat  BY <1>1, <2>1
  <2>3. in[j] = x % 8  BY <2>1
  <2> HIDE DEF x
  <2>4. x % 8 \in 0..7  BY <2>2, DivMod
  <2> QED BY <2>3, <2>4
<1>4. in \in Seq(Nat) /\ Len(in) = n
  <2>1. in \in [1..n -> Nat]  BY <1>2, <1>3
  <2> QED BY <1>0, <2>1
<1>5. t = [i \in 1..n |-> in[(n - i) + 1]]  BY <1>4 DEF Reverse
<1> HIDE DEF t
<1>6. t \in [1..n -> Nat] /\ DOMAIN t = 1..n /\ \A i \in 1..n : t[i] = R[i-1] % 8
  <2>1. ASSUME NEW i \in 1..n PROVE t[i] \in Nat /\ t[i] = R[i-1] % 8
    <3> DEFINE j == (n - i) + 1
    <3>1. j \in 1..n /\ n - j = i - 1  BY <1>0
    <3>2. t[i] = in[j]  BY <1>5
    <3> HIDE DEF j
    <3>3. in[j] = R[n - j] % 8  BY <1>2, <3>1
    <3> QED BY <1>3, <3>1, <3>2, <3>3
  <2> QED BY <1>5, <2>1
<1> DEFINE zero == [size |-> 0, count |-> 1]
<1>7. PICK V : /\ Runs(V, n, Sums, zero, Summing(t))
               /\ get_size(in) = V[n].size
  <2>1. t = Reverse(in)  BY DEF t
  <2> QED BY <1>6, <2>1, SizeRuns
<1>8. /\ V \in [0..n -> Sums] /\ V[0] = zero
      /\ \A i \in 1..n : V[i] = Summing(t)[i][V[i-1]]
  BY <1>7 DEF Runs
<1> DEFINE S == {i \in 0..n : \E a, b \in Nat : Parts(V[i], a, b, R[i], bytes)}
<1>9. 0 \in S
  <2>1. V[0].size = 0 /\ V[0].count = 1  BY <1>8
  <2>2. 0 + bytes * 1 = bytes /\ 0 % U32 = 0 /\ 1 % U32 = 1  BY <1>0
  <2>3. Parts(V[0], 0, 1, R[0], bytes)  BY <1>1, <2>1, <2>2 DEF Parts
  <2> QED BY <1>0, <2>3
<1>10. ASSUME NEW i \in 1..n, i - 1 \in S PROVE i \in S
  <2>0. i - 1 \in 0..n /\ i \in 0..n  BY <1>0
  <2>1. PICK a \in Nat, b \in Nat : Parts(V[i-1], a, b, R[i-1], bytes)  BY <1>10
  <2>2. V[i-1] \in Sums /\ R[i-1] \in Nat  BY <1>1, <1>8, <2>0
  <2>3. V[i] = [size  |-> (V[i-1].size + t[i] * V[i-1].count) % U32,
                count |-> (V[i-1].count * 8) % U32]
    <3> DEFINE v == V[i-1]
    <3>1. V[i] = Summing(t)[i][v]  BY <1>8
    <3>2. v \in Sums /\ t \in [1..DIGITS -> Nat] /\ i \in 1..DIGITS  BY <1>6, <2>2
    <3> HIDE DEF v
    <3>3. Summing(t)[i][v] = [size  |-> (v.size + t[i] * v.count) % U32,
                              count |-> (v.count * 8) % U32]
      BY ONLY <3>2, SummingType
    <3>4. V[i] = [size  |-> (v.size + t[i] * v.count) % U32,
                  count |-> (v.count * 8) % U32]
      BY ONLY <3>1, <3>3
    <3> QED BY <3>4 DEF v
  <2>4. \E c, d \in Nat : Parts(V[i], c, d, R[i], bytes)
    <3> DEFINE v == V[i-1]
               w == V[i]
               p == R[i-1]
               q == R[i]
               r == t[i]
    <3>1. /\ p \in Nat /\ q = p \div 8 /\ r = p % 8
          /\ w = [size |-> (v.size + r * v.count) % U32, count |-> (v.count * 8) % U32]
          /\ Parts(v, a, b, p, bytes)
      BY <1>1, <1>6, <2>1, <2>2, <2>3
    <3> HIDE DEF v, w, p, q, r
    <3>2. \E c, d \in Nat : Parts(w, c, d, q, bytes)  BY <3>1, PartsMove
    <3> QED BY <3>2 DEF w, q
  <2> QED BY <2>0, <2>4
<1> HIDE DEF S
<1>11. n \in S
  <2>1. \A i \in 0..n : i \in S  BY <1>0, <1>9, <1>10, Climbs
  <2>2. n \in 0..n  BY <1>0
  <2> QED BY <2>1, <2>2
<1>12. V[n].size = bytes
  <2>1. PICK a \in Nat, b \in Nat : Parts(V[n], a, b, R[n], bytes)  BY <1>11 DEF S
  <2>2. a + 0 * b = bytes /\ V[n].size = a % U32  BY <1>1, <2>1 DEF Parts
  <2>3. a = bytes  BY <2>2
  <2>4. bytes % U32 = bytes  BY <1>0
  <2> QED BY <2>2, <2>3, <2>4
<1> QED BY <1>7, <1>12 DEF in

-----------------------------------------------------------------------------
(* The archive, block by block. *)
Block == [name : {"file", "data", "nul"}, size : [1..DIGITS -> Int]]
Blocks == Seq(Block)
Needed(bytes) == (bytes + BLOCK - 1) \div BLOCK

LEMMA OctalType ==
    ASSUME NEW bytes \in Nat
    PROVE  Octal(bytes) \in [1..DIGITS -> Nat]
<1> DEFINE n == DIGITS
           R == Rests(bytes)
<1>1. n \in Nat  BY InitrdAssumption
<1>2. R \in [0..n -> Nat]  BY RestsAre DEF Halving
<1> HIDE DEF R
<1>3. ASSUME NEW j \in 1..n PROVE R[n - j] % 8 \in Nat
  <2> DEFINE x == R[n - j]
  <2>1. n - j \in 0..n  BY <1>1
  <2>2. x \in Nat  BY <1>2, <2>1
  <2> HIDE DEF x
  <2>3. x % 8 \in 0..7  BY <2>2, DivMod
  <2> QED BY <2>3 DEF x
<1> QED BY <1>3 DEF Octal, R

LEMMA BlockTypes ==
    ASSUME NEW bytes \in Nat
    PROVE  /\ Header(bytes) \in Block /\ Empty \in Block
           /\ Contents(bytes) \in Blocks /\ Len(Contents(bytes)) = Needed(bytes)
           /\ Needed(bytes) \in Nat
<1>1. Octal(bytes) \in [1..DIGITS -> Nat] /\ Octal(0) \in [1..DIGITS -> Nat]
  BY OctalType
<1>2. Needed(bytes) \in Nat
  <2> DEFINE x == bytes + BLOCK - 1
  <2>1. x \in Nat /\ BLOCK \in Nat /\ BLOCK > 0  BY InitrdAssumption
  <2> HIDE DEF x
  <2>2. x \div BLOCK \in Nat  BY <2>1, DivMod
  <2> QED BY <2>2 DEF Needed, x
<1>3. Header(bytes) \in Block /\ Empty \in Block
  <2>1. [j \in 1..DIGITS |-> -48] \in [1..DIGITS -> Int]  OBVIOUS
  <2> QED BY <1>1, <2>1 DEF Header, Empty, Block
<1> DEFINE data == [name |-> "data", size |-> Octal(0)]
           n == Needed(bytes)
<1>4. data \in Block  BY <1>1 DEF Block
<1>5. Contents(bytes) = [i \in 1..n |-> data]  BY DEF Contents, Needed
<1> HIDE DEF data, n, Block
<1>6. n \in Nat  BY <1>2 DEF n
<1>7. Contents(bytes) \in Seq(Block) /\ Len(Contents(bytes)) = n  BY <1>4, <1>5, <1>6
<1> QED BY <1>2, <1>3, <1>7 DEF Blocks, n

(* A file more at the end of the blocks. *)
Filed(blocks, bytes) == Append(blocks, Header(bytes)) \o Contents(bytes)
Filing(sizes) == [i \in DOMAIN sizes |-> [blocks \in Blocks |-> Filed(blocks, sizes[i])]]

LEMMA FiledIs ==
    ASSUME NEW blocks \in Blocks, NEW bytes \in Nat
    PROVE  /\ Filed(blocks, bytes) \in Blocks
           /\ Len(blocks) \in Nat
           /\ Len(Filed(blocks, bytes)) = Len(blocks) + 1 + Needed(bytes)
           /\ \A i \in 1..Len(blocks) : Filed(blocks, bytes)[i] = blocks[i]
           /\ Filed(blocks, bytes)[Len(blocks) + 1] = Header(bytes)
<1> DEFINE h == Header(bytes)
           c == Contents(bytes)
           b == Append(blocks, h)
           n == Len(blocks)
           m == Needed(bytes)
<1>1. h \in Block /\ c \in Seq(Block) /\ Len(c) = m /\ m \in Nat
  BY BlockTypes DEF Blocks
<1>2. blocks \in Seq(Block) /\ n \in Nat  BY LenProperties DEF Blocks
<1> HIDE DEF h, c, m, Block
<1>3. /\ b \in Seq(Block) /\ Len(b) = n + 1 /\ b[n + 1] = h
      /\ \A i \in 1..n : b[i] = blocks[i]
  BY <1>1, <1>2, AppendProperties
<1> HIDE DEF b, n
<1>4. /\ b \o c \in Seq(Block) /\ Len(b \o c) = Len(b) + Len(c)
      /\ \A i \in 1..(Len(b) + Len(c)) :
            (b \o c)[i] = IF i <= Len(b) THEN b[i] ELSE c[i - Len(b)]
  BY <1>1, <1>3, ConcatProperties
<1>5. \A i \in 1..(n + 1) : (b \o c)[i] = b[i]  BY <1>1, <1>2, <1>3, <1>4
<1>6. \A i \in 1..n : (b \o c)[i] = blocks[i]
  <2>1. \A i \in 1..n : i \in 1..(n + 1)  BY <1>2
  <2> QED BY <1>3, <1>5, <2>1
<1>7. (b \o c)[n + 1] = h
  <2> DEFINE j == n + 1
  <2>1. j \in 1..(n + 1)  BY <1>2
  <2>2. (b \o c)[j] = b[j]  BY <1>5, <2>1
  <2> QED BY <1>3, <2>2
<1>8. Len(b \o c) = n + 1 + m  BY <1>1, <1>2, <1>3, <1>4
<1>9. Filed(blocks, bytes) = b \o c  BY DEF Filed, b, c, h
<1> QED BY <1>2, <1>4, <1>6, <1>7, <1>8, <1>9 DEF Blocks, n, h, m

LEMMA ArchiveRuns ==
    ASSUME NEW sizes \in Seq(Nat)
    PROVE  \E V : /\ Runs(V, Len(sizes), Blocks, <<>>, Filing(sizes))
                  /\ Archive(sizes) = V[Len(sizes)] \o <<Empty, Empty>>
<1> DEFINE n == Len(sizes)
           U == 1..n
           none == <<>>
           Eq(g) == g = [s \in SUBSET U |->
               IF s = {} THEN none
               ELSE Append(g[s \ {Max(s)}], Header(sizes[Max(s)]))
                        \o Contents(sizes[Max(s)])]
           f == CHOOSE g : Eq(g)
           step == Filing(sizes)
<1>1. n \in Nat /\ DOMAIN sizes = U /\ \A i \in U : sizes[i] \in Nat  BY LenProperties
<1>2. Archive(sizes) = f[U] \o <<Empty, Empty>>
  <2>1. Archive(sizes) = (CHOOSE g : g = [s \in SUBSET DOMAIN sizes |->
            IF s = {} THEN none
            ELSE Append(g[s \ {Max(s)}], Header(sizes[Max(s)]))
                     \o Contents(sizes[Max(s)])])[DOMAIN sizes] \o <<Empty, Empty>>
    BY DEF Archive, FoldLeft, MapThenFoldSet
  <2> QED BY <1>1, <2>1
<1>3. /\ step \in [1..n -> [Blocks -> Blocks]]
      /\ \A i \in 1..n, b \in Blocks :
            step[i][b] = Append(b, Header(sizes[i])) \o Contents(sizes[i])
  <2>1. \A i \in 1..n, b \in Blocks : Filed(b, sizes[i]) \in Blocks  BY <1>1, FiledIs
  <2> HIDE DEF Blocks
  <2>2. step \in [1..n -> [Blocks -> Blocks]]  BY <1>1, <2>1 DEF Filing
  <2>3. \A i \in 1..n, b \in Blocks : step[i][b] = Filed(b, sizes[i])
    BY <1>1 DEF Filing
  <2> QED BY <2>2, <2>3 DEF Filed
<1>4. none \in Blocks  BY DEF Blocks
<1> HIDE DEF step, none, Blocks
<1>5. \E g : Eq(g)
  <2>1. PICK g : Folds(g, n, Blocks, none, step)  BY <1>1, <1>3, <1>4, FoldExists
  <2>2. ASSUME NEW s \in SUBSET U
        PROVE  g[s] = IF s = {} THEN none
               ELSE Append(g[s \ {Max(s)}], Header(sizes[Max(s)]))
                        \o Contents(sizes[Max(s)])
    <3>1. CASE s = {}  BY <2>1, <3>1 DEF Folds
    <3>2. CASE s # {}
      <4>1. Max(s) \in 1..n  BY <1>1, <3>2, MaxIn
      <4>2. g[s \ {Max(s)}] \in Blocks  BY <2>1 DEF Folds
      <4>3. g[s] = step[Max(s)][g[s \ {Max(s)}]]  BY <2>1, <3>2 DEF Folds
      <4> QED BY <1>3, <3>2, <4>1, <4>2, <4>3
    <3> QED BY <3>1, <3>2
  <2>3. g \in [SUBSET U -> Blocks]  BY <2>1 DEF Folds
  <2> HIDE DEF U
  <2>4. Eq(g)  BY <2>2, <2>3
  <2> QED BY <2>4
<1>6. Eq(f)
  <2> HIDE DEF Eq
  <2> QED BY <1>5
<1>7. \A s \in SUBSET U :
         f[s] = IF s = {} THEN none
                ELSE Append(f[s \ {Max(s)}], Header(sizes[Max(s)]))
                         \o Contents(sizes[Max(s)])
  BY <1>6
<1> HIDE DEF f
<1>8. ASSUME NEW s \in SUBSET (1..n), s # {}, f[s \ {Max(s)}] \in Blocks
      PROVE  f[s] = step[Max(s)][f[s \ {Max(s)}]]
  <2>1. Max(s) \in 1..n  BY <1>1, <1>8, MaxIn
  <2> QED BY <1>3, <1>7, <1>8, <2>1
<1>9. Obeys(f, n, Blocks, none, step)  BY <1>7, <1>8 DEF Obeys
<1> HIDE DEF n
<1>10. none \in Blocks /\ n \in Nat /\ step \in [1..n -> [Blocks -> Blocks]]
       /\ Obeys(f, n, Blocks, none, step)
  BY <1>1, <1>3, <1>4, <1>9
<1>11. RunsTo(f[1..n], n, Blocks, none, step)  BY ONLY <1>10, FoldRuns
<1>12. PICK V : Runs(V, n, Blocks, none, step) /\ f[1..n] = V[n]  BY <1>11 DEF RunsTo
<1>13. Archive(sizes) = V[n] \o <<Empty, Empty>>  BY <1>2, <1>12 DEF U
<1> QED BY <1>12, <1>13 DEF step, n, none

(* P[k] is the number of blocks in front of file k + 1.                    *)
Laid(P, memory, sizes) ==
    /\ P \in [0..Len(sizes) -> Nat] /\ P[0] = 0
    /\ \A k \in 1..Len(sizes) : /\ P[k] = P[k-1] + 1 + Needed(sizes[k])
                                /\ memory[P[k-1] + 1] = Header(sizes[k])
    /\ memory[P[Len(sizes)] + 1] = Empty
    /\ Len(memory) \in Nat /\ Len(sizes) <= Len(memory)
    /\ \A k \in 0..Len(sizes) : P[k] < Len(memory)

LEMMA ArchiveLaid ==
    ASSUME NEW sizes \in Seq(Nat)
    PROVE  \E P : Laid(P, Archive(sizes), sizes)
<1> DEFINE n == Len(sizes)
           end == <<Empty, Empty>>
           memory == Archive(sizes)
<1>1. n \in Nat /\ \A i \in 1..n : sizes[i] \in Nat  BY LenProperties
<1>2. PICK V : /\ Runs(V, n, Blocks, <<>>, Filing(sizes))
               /\ memory = V[n] \o end
  BY ArchiveRuns
<1> DEFINE P == [k \in 0..n |-> Len(V[k])]
<1>3. /\ V \in [0..n -> Blocks] /\ V[0] = <<>>
      /\ \A k \in 1..n : V[k] = Filed(V[k-1], sizes[k])
  <2>1. V \in [0..n -> Blocks] /\ V[0] = <<>>  BY <1>2 DEF Runs
  <2>2. ASSUME NEW k \in 1..n PROVE V[k] = Filed(V[k-1], sizes[k])
    <3>1. k - 1 \in 0..n /\ V[k-1] \in Blocks  BY <1>1, <2>1
    <3>2. V[k] = Filing(sizes)[k][V[k-1]]  BY <1>2 DEF Runs
    <3>3. DOMAIN sizes = 1..n  BY LenProperties
    <3> HIDE DEF n, Blocks
    <3> QED BY <3>1, <3>2, <3>3 DEF Filing
  <2> QED BY <2>1, <2>2
<1> HIDE DEF n, memory
<1>4. \A k \in 0..n : P[k] = Len(V[k])  OBVIOUS
<1>5. ASSUME NEW k \in 1..n
      PROVE  /\ k - 1 \in 0..n /\ k \in 0..n
             /\ P[k-1] \in Nat /\ P[k] = P[k-1] + 1 + Needed(sizes[k])
             /\ \A i \in 1..P[k-1] : V[k][i] = V[k-1][i]
             /\ V[k][P[k-1] + 1] = Header(sizes[k])
             /\ Needed(sizes[k]) \in Nat
  <2>1. k - 1 \in 0..n /\ k \in 0..n  BY <1>1
  <2>2. V[k-1] \in Blocks /\ sizes[k] \in Nat /\ V[k] = Filed(V[k-1], sizes[k])
    BY <1>1, <1>3, <2>1
  <2>3. P[k-1] = Len(V[k-1]) /\ P[k] = Len(V[k])  BY <1>4, <2>1
  <2>4. Needed(sizes[k]) \in Nat  BY <2>2, BlockTypes
  <2> HIDE DEF P
  <2> DEFINE b == V[k-1]
             bytes == sizes[k]
  <2> HIDE DEF b, bytes
  <2>5. b \in Blocks /\ bytes \in Nat /\ V[k] = Filed(b, bytes) /\ P[k-1] = Len(b)
        /\ Needed(bytes) \in Nat
    BY <2>2, <2>3, <2>4 DEF b, bytes
  <2>6. /\ Len(b) \in Nat /\ Len(V[k]) = Len(b) + 1 + Needed(bytes)
        /\ \A i \in 1..Len(b) : V[k][i] = b[i]
        /\ V[k][Len(b) + 1] = Header(bytes)
    <3>1. b \in Blocks /\ bytes \in Nat  BY <2>5
    <3>2. /\ Len(b) \in Nat /\ Len(Filed(b, bytes)) = Len(b) + 1 + Needed(bytes)
          /\ \A i \in 1..Len(b) : Filed(b, bytes)[i] = b[i]
          /\ Filed(b, bytes)[Len(b) + 1] = Header(bytes)
      BY ONLY <3>1, FiledIs
    <3> QED BY <2>5, <3>2
  <2> QED BY <2>1, <2>3, <2>5, <2>6 DEF b, bytes
<1>6. \A k \in 0..n : P[k] \in Nat
  <2>1. \A k \in 0..n : V[k] \in Seq(Block)  BY <1>3 DEF Blocks
  <2> HIDE DEF Block
  <2> QED BY <1>4, <2>1, LenProperties
<1> HIDE DEF P
<1>7. P[0] = 0
  <2>1. 0 \in 0..n  BY <1>1
  <2> QED BY <1>3, <1>4, <2>1
(* What is written stays where it is. *)
<1> DEFINE S == {k \in 0..n :
                    /\ k <= P[k]
                    /\ \A j \in 1..k : /\ P[j-1] + 1 \in 1..P[k]
                                       /\ V[k][P[j-1] + 1] = Header(sizes[j])}
<1>8. 0 \in S  BY <1>1, <1>7
<1>9. ASSUME NEW k \in 1..n, k - 1 \in S PROVE k \in S
  <2>1. k \in 0..n /\ k - 1 <= P[k-1] /\ P[k-1] \in Nat /\ P[k] \in Nat
        /\ Needed(sizes[k]) \in Nat /\ P[k] = P[k-1] + 1 + Needed(sizes[k])
    BY <1>5, <1>6, <1>9
  <2>2. k <= P[k] /\ P[k-1] <= P[k] /\ P[k-1] + 1 \in 1..P[k]
    <3> DEFINE p == P[k-1]
               q == P[k]
               m == Needed(sizes[k])
    <3>1. p \in Nat /\ q \in Nat /\ m \in Nat /\ q = p + 1 + m /\ k - 1 <= p  BY <2>1
    <3> HIDE DEF p, q, m
    <3>2. k <= q /\ p <= q /\ p + 1 \in 1..q  BY <1>1, <3>1
    <3> QED BY <3>2 DEF p, q
  <2>3. ASSUME NEW j \in 1..k
        PROVE  P[j-1] + 1 \in 1..P[k] /\ V[k][P[j-1] + 1] = Header(sizes[j])
    <3>1. CASE j = k  BY <1>5, <2>2, <3>1
    <3>2. CASE j # k
      <4>1. j \in 1..(k-1)  BY <1>1, <3>2
      <4> DEFINE i == P[j-1] + 1
      <4>2. i \in 1..P[k-1] /\ V[k-1][i] = Header(sizes[j])  BY <1>9, <4>1
      <4> HIDE DEF i
      <4>3. V[k][i] = V[k-1][i]  BY <1>5, <4>2
      <4>4. i \in 1..P[k]
        <5> DEFINE p == P[k-1]
                   q == P[k]
        <5>1. p \in Nat /\ q \in Nat /\ p <= q /\ i \in 1..p  BY <2>1, <2>2, <4>2
        <5> HIDE DEF p, q
        <5>2. i \in 1..q  BY <5>1
        <5> QED BY <5>2 DEF q
      <4> QED BY <4>2, <4>3, <4>4 DEF i
    <3> QED BY <3>1, <3>2
  <2> QED BY <2>1, <2>2, <2>3
<1>10. n \in S
  <2> HIDE DEF S
  <2>1. \A k \in 0..n : k \in S  BY <1>1, <1>8, <1>9, Climbs
  <2>2. n \in 0..n  BY <1>1
  <2> QED BY <2>1, <2>2
<1>11. /\ n <= P[n] /\ P[n] \in Nat
       /\ \A j \in 1..n : /\ P[j-1] + 1 \in 1..P[n]
                          /\ V[n][P[j-1] + 1] = Header(sizes[j])
  BY <1>6, <1>10
<1> HIDE DEF S
<1>12. Empty \in Block
  <2>1. 0 \in Nat  OBVIOUS
  <2> QED BY <2>1, BlockTypes
<1>13. /\ V[n] \in Seq(Block) /\ Len(V[n]) = P[n]
       /\ end \in Seq(Block) /\ Len(end) = 2 /\ end[1] = Empty
  <2>1. n \in 0..n  BY <1>1
  <2>2. V[n] \in Seq(Block)  BY <1>3, <2>1 DEF Blocks
  <2>3. Len(V[n]) = P[n]  BY <1>4, <2>1
  <2> HIDE DEF Block, Empty
  <2> QED BY <1>12, <2>2, <2>3
<1> HIDE DEF end, Block, Empty
<1> DEFINE body == V[n]
           m == P[n]
<1>14. /\ Len(memory) = m + 2
       /\ \A i \in 1..m : memory[i] = body[i]
       /\ memory[m + 1] = Empty
  <2>1. /\ body \in Seq(Block) /\ end \in Seq(Block) /\ m \in Nat
        /\ Len(body) = m /\ Len(end) = 2 /\ memory = body \o end
    BY <1>2, <1>11, <1>13
  <2> HIDE DEF body, m
  <2>2. /\ Len(body \o end) = Len(body) + Len(end)
        /\ \A i \in 1..(Len(body) + Len(end)) :
              (body \o end)[i] = IF i <= Len(body) THEN body[i] ELSE end[i - Len(body)]
    BY <2>1, ConcatProperties
  <2>3. \A i \in 1..m : memory[i] = body[i]  BY <2>1, <2>2
  <2>4. memory[m + 1] = Empty
    <3> DEFINE j == m + 1
    <3>1. j \in 1..(m + 2) /\ ~(j <= m) /\ j - m = 1  BY <2>1
    <3> HIDE DEF j
    <3>2. memory[j] = end[1]  BY <2>1, <2>2, <3>1
    <3> QED BY <1>13, <3>2 DEF j
  <2> QED BY <2>1, <2>2, <2>3, <2>4
<1>15. \A k \in 1..n : memory[P[k-1] + 1] = Header(sizes[k])  BY <1>11, <1>14
<1>16. Len(memory) \in Nat /\ n <= Len(memory)
  <2> HIDE DEF m
  <2>1. m \in Nat /\ n <= m  BY <1>11 DEF m
  <2> QED BY <1>1, <1>14, <2>1
<1>17. P \in [0..n -> Nat]  BY <1>6 DEF P
<1>18. \A k \in 0..n : P[k] < Len(memory)
  <2> SUFFICES ASSUME NEW k \in 0..n PROVE P[k] < Len(memory)  OBVIOUS
  <2>1. P[k] <= m
    <3>1. CASE k = n  BY <1>11, <3>1
    <3>2. CASE k # n
      <4> DEFINE j == k + 1
      <4>1. j \in 1..n /\ j - 1 = k  BY <1>1, <3>2
      <4> HIDE DEF j, m
      <4>2. P[j-1] + 1 \in 1..m  BY <1>11, <4>1 DEF m
      <4>3. P[k] \in Nat /\ P[k] + 1 \in 1..m  BY <1>6, <4>1, <4>2
      <4> QED BY <1>11, <4>3 DEF m
    <3> QED BY <3>1, <3>2
  <2> HIDE DEF m
  <2>2. P[k] \in Nat /\ m \in Nat  BY <1>6, <1>11 DEF m
  <2> QED BY <1>14, <2>1, <2>2
<1>19. Laid(P, memory, sizes)
  BY <1>5, <1>7, <1>14, <1>15, <1>16, <1>17, <1>18 DEF Laid, n
<1> QED BY <1>19 DEF memory

-----------------------------------------------------------------------------
(* The walk over the headers. *)

(* The code rounds a size up to whole blocks as tar does. *)
LEMMA RoundedUp ==
    ASSUME NEW B \in Nat, B > 0, NEW bytes \in Nat, NEW k \in Nat
    PROVE  /\ (bytes + B - 1) \div B \in Nat
           /\ bytes <= ((bytes + B - 1) \div B) * B
           /\ k * B + ((bytes \div B) + 1) * B + (IF bytes % B # 0 THEN B ELSE 0)
                 = (k + 1 + ((bytes + B - 1) \div B)) * B
<1> DEFINE q == bytes \div B
           r == bytes % B
           c == (bytes + B - 1) \div B
<1>1. q \in Nat /\ r \in 0..(B - 1) /\ bytes = q * B + r  BY DivMod
<1> HIDE DEF q, r
<1>2. CASE r = 0
  <2>1. B - 1 \in 0..(B - 1) /\ bytes + B - 1 = q * B + (B - 1)
    <3> DEFINE y == q * B
    <3>1. y \in Nat  BY <1>1
    <3> HIDE DEF y
    <3>2. bytes = y + r  BY <1>1 DEF y
    <3>3. bytes + B - 1 = y + (B - 1)  BY <1>2, <3>1, <3>2
    <3> QED BY <3>3 DEF y
  <2>2. c = q  BY <1>1, <2>1, DivUnique
  <2>3. k * B + (q + 1) * B + 0 = (k + 1 + q) * B
    <3>1. k * B \in Nat /\ (q + 1) * B \in Nat  BY <1>1
    <3>2. (k + 1 + q) * B = k * B + (q + 1) * B  BY <1>1
    <3> QED BY <3>1, <3>2
  <2> QED BY <1>1, <1>2, <2>2, <2>3 DEF q, r, c
<1>3. CASE r # 0
  <2>1. r - 1 \in 0..(B - 1) /\ q + 1 \in Nat /\ bytes + B - 1 = (q + 1) * B + (r - 1)
    <3> DEFINE y == q * B
    <3>1. y \in Nat /\ (q + 1) * B = y + B  BY <1>1
    <3> HIDE DEF y
    <3>2. bytes = y + r  BY <1>1 DEF y
    <3> QED BY <1>1, <1>3, <3>1, <3>2
  <2> DEFINE p == q + 1
  <2>2. c = p
    <3>1. p \in Nat /\ r - 1 \in 0..(B - 1) /\ bytes + B - 1 = p * B + (r - 1)  BY <2>1
    <3> HIDE DEF p
    <3> QED BY <3>1, DivUnique
  <2>3. k * B + (q + 1) * B + B = (k + 1 + p) * B
    <3>1. k * B \in Nat /\ (q + 1) * B \in Nat  BY <1>1
    <3>2. (k + 1 + (q + 1)) * B = k * B + (q + 1) * B + B  BY <1>1
    <3> QED BY <3>1, <3>2
  <2> QED BY <1>1, <1>3, <2>1, <2>2, <2>3 DEF q, r, c
<1>4. c \in Nat /\ bytes <= c * B
  <2> DEFINE x == bytes + B - 1
  <2>1. x \in Nat  OBVIOUS
  <2> HIDE DEF x
  <2>2. x \div B \in Nat /\ x % B \in 0..(B - 1) /\ x = (x \div B) * B + (x % B)
    BY <2>1, DivMod
  <2> DEFINE k1 == x \div B
             k2 == x % B
  <2> HIDE DEF k1, k2
  <2>3. k1 \in Nat /\ k2 \in 0..(B - 1) /\ x = k1 * B + k2  BY <2>2 DEF k1, k2
  <2>4. k1 * B \in Nat  BY <2>3
  <2> DEFINE y == k1 * B
  <2> HIDE DEF y
  <2>5. y \in Nat /\ bytes + B - 1 = y + k2  BY <2>3, <2>4 DEF y, x
  <2>6. bytes <= y  BY <2>3, <2>5
  <2> QED BY <2>3, <2>6 DEF y, k1, x
<1> QED BY <1>2, <1>3, <1>4

LEMMA BlockAt ==
    ASSUME NEW k \in Nat
    PROVE  ((k * BLOCK) \div BLOCK) + 1 = k + 1
<1>1. BLOCK \in Nat /\ BLOCK > 0 /\ 0 \in 0..(BLOCK - 1)  BY InitrdAssumption
<1>2. (k * BLOCK + 0) \div BLOCK = k  BY <1>1, DivUnique
<1>3. k * BLOCK + 0 = k * BLOCK  BY <1>1
<1> QED BY <1>2, <1>3

(* The addresses that the loop comes by, whatever it reads there. *)
Walks(W, memory) ==
    /\ DOMAIN W = 0..Len(memory) /\ W[0] = 0
    /\ \A k \in 1..Len(memory) : W[k] = next_header(memory, W[k-1])
WalksTo(W, memory, n) ==
    W = [k \in 0..n |-> IF k = 0 THEN 0 ELSE next_header(memory, W[k-1])]

LEMMA HeadersAre ==
    ASSUME NEW memory, Len(memory) \in Nat
    PROVE  Walks(headers(memory), memory)
<1> DEFINE n == Len(memory)
           f == CHOOSE w : WalksTo(w, memory, n)
           S == {k \in 0..n : \E w : WalksTo(w, memory, k)}
<1>1. headers(memory) = f  BY DEF headers, WalksTo
<1>2. 0 \in S
  <2> DEFINE w == [k \in 0..0 |-> 0]
  <2>1. w = [k \in 0..0 |-> IF k = 0 THEN 0 ELSE next_header(memory, w[k-1])]  OBVIOUS
  <2> HIDE DEF w
  <2>2. WalksTo(w, memory, 0)  BY <2>1 DEF WalksTo
  <2> QED BY <2>2
<1>3. ASSUME NEW k \in 1..n, k - 1 \in S PROVE k \in S
  <2>1. PICK w : WalksTo(w, memory, k - 1)  BY <1>3
  <2> DEFINE next == next_header(memory, w[k-1])
             x == [j \in 0..k |-> IF j = k THEN next ELSE w[j]]
  <2>2. ASSUME NEW j \in 0..k
        PROVE  x[j] = IF j = 0 THEN 0 ELSE next_header(memory, x[j-1])
    <3>1. CASE j = k
      <4>1. k - 1 \in 0..k /\ k - 1 # k /\ k # 0 /\ x[k-1] = w[k-1] /\ x[k] = next
        OBVIOUS
      <4> HIDE DEF x
      <4> QED BY <3>1, <4>1
    <3>2. CASE j # k
      <4>1. j \in 0..(k-1) /\ x[j] = w[j]  BY <3>2
      <4>2. j # 0 => x[j-1] = w[j-1]  BY <4>1
      <4>3. w[j] = IF j = 0 THEN 0 ELSE next_header(memory, w[j-1])
        BY <2>1, <4>1 DEF WalksTo
      <4> HIDE DEF x
      <4> QED BY <4>1, <4>2, <4>3
    <3> QED BY <3>1, <3>2
  <2>3. x = [j \in 0..k |-> x[j]]  OBVIOUS
  <2> HIDE DEF x
  <2>4. x = [j \in 0..k |-> IF j = 0 THEN 0 ELSE next_header(memory, x[j-1])]
    BY <2>2, <2>3
  <2>5. WalksTo(x, memory, k)  BY <2>4 DEF WalksTo
  <2> QED BY <2>5
<1>4. n \in S
  <2> HIDE DEF S
  <2>1. \A k \in 0..n : k \in S  BY <1>2, <1>3, Climbs
  <2>2. n \in 0..n  OBVIOUS
  <2> QED BY <2>1, <2>2
<1>5. WalksTo(f, memory, n)  BY <1>4
<1> HIDE DEF f, n
<1>6. f = [k \in 0..n |-> IF k = 0 THEN 0 ELSE next_header(memory, f[k-1])]
  BY <1>5 DEF WalksTo
<1>7. n \in Nat  BY DEF n
<1>8. /\ DOMAIN f = 0..n /\ f[0] = 0
      /\ \A k \in 1..n : f[k] = next_header(memory, f[k-1])
  BY <1>6, <1>7
<1> QED BY <1>1, <1>8 DEF Walks, n

(* The loop stops at every header and nowhere else. *)
LEMMA HeadersAt ==
    ASSUME NEW sizes \in Seq(Nat), \A i \in 1..Len(sizes) : Rests(sizes[i])[DIGITS] = 0,
           NEW memory, NEW P, Laid(P, memory, sizes), Len(memory) * BLOCK < U32
    PROVE  \A k \in 0..Len(sizes) : headers(memory)[k] = P[k] * BLOCK
<1> DEFINE n == Len(sizes)
           W == headers(memory)
           S == {k \in 0..n : W[k] = P[k] * BLOCK}
<1>0. /\ n \in Nat /\ (\A i \in 1..n : sizes[i] \in Nat)
      /\ BLOCK \in Nat /\ BLOCK > 0 /\ U32 \in Nat /\ U32 > 0
  BY LenProperties, InitrdAssumption
<1>1. /\ W[0] = 0
      /\ \A k \in 1..n : W[k] = next_header(memory, W[k-1])
  <2>1. Len(memory) \in Nat /\ n <= Len(memory)  BY DEF Laid
  <2>2. Walks(W, memory)  BY <2>1, HeadersAre
  <2> HIDE DEF W, n
  <2>3. \A k \in 1..n : k \in 1..Len(memory)  BY <1>0, <2>1
  <2> QED BY <2>2, <2>3 DEF Walks
<1>2. /\ P \in [0..n -> Nat] /\ P[0] = 0
      /\ \A k \in 1..n : /\ P[k] = P[k-1] + 1 + Needed(sizes[k])
                         /\ memory[P[k-1] + 1] = Header(sizes[k])
      /\ Len(memory) \in Nat /\ \A k \in 0..n : P[k] < Len(memory)
  BY DEF Laid
<1> HIDE DEF W
<1>3. 0 \in S
  <2>1. 0 * BLOCK = 0 /\ 0 \in 0..n  BY <1>0
  <2> QED BY <1>1, <1>2, <2>1
<1>4. ASSUME NEW k \in 1..n, k - 1 \in S PROVE k \in S
  <2> DEFINE p == P[k-1]
             bytes == sizes[k]
             a == p * BLOCK
             m == Needed(bytes)
  <2>1. k - 1 \in 0..n /\ k \in 0..n /\ p \in Nat /\ bytes \in Nat
    <3>1. k - 1 \in 0..n /\ k \in 0..n  BY <1>0
    <3> QED BY <1>0, <1>2, <3>1
  <2>2. W[k] = next_header(memory, a)  BY <1>1, <1>4
  <2>3. P[k] = p + 1 + m /\ memory[p + 1] = Header(bytes)  BY <1>2
  <2>4. Rests(bytes)[DIGITS] = 0  OBVIOUS
  <2> HIDE DEF p, bytes
  <2>5. memory[(a \div BLOCK) + 1] = Header(bytes)  BY <2>1, <2>3, BlockAt
  <2>6. m \in Nat /\ P[k] \in Nat /\ P[k] < Len(memory) /\ bytes <= m * BLOCK
    BY <1>0, <1>2, <2>1, RoundedUp DEF Needed
  <2> HIDE DEF m
  <2>7. P[k] * BLOCK < U32 /\ bytes < U32 /\ P[k] * BLOCK \in Nat
    <3> DEFINE l == Len(memory)
               e == P[k]
    <3>1. l \in Nat /\ e \in Nat /\ e < l /\ e = p + 1 + m /\ l * BLOCK < U32
      BY <1>2, <2>3, <2>6
    <3> HIDE DEF l, e
    <3>2. m < e  BY <2>1, <2>6, <3>1
    <3>3. e * BLOCK + BLOCK <= l * BLOCK /\ m * BLOCK + BLOCK <= e * BLOCK
      BY <1>0, <2>6, <3>1, <3>2, Grows
    <3>4. e * BLOCK \in Nat /\ l * BLOCK \in Nat /\ m * BLOCK \in Nat  BY <1>0, <2>6, <3>1
    <3> DEFINE x == e * BLOCK
               y == l * BLOCK
               z == m * BLOCK
    <3>5. /\ x \in Nat /\ y \in Nat /\ z \in Nat /\ x + BLOCK <= y /\ z + BLOCK <= x
          /\ y < U32 /\ bytes <= z
      BY <2>6, <3>1, <3>3, <3>4
    <3> HIDE DEF x, y, z
    <3>6. x < U32 /\ bytes < U32  BY <1>0, <2>1, <3>5
    <3> QED BY <3>4, <3>6 DEF x, e
  <2>8. get_size(memory[(a \div BLOCK) + 1].size) = bytes
    <3>1. memory[(a \div BLOCK) + 1].size = Octal(bytes)  BY <2>5 DEF Header
    <3>2. bytes \in 0..(U32 - 1)  BY <1>0, <2>1, <2>7
    <3> QED BY <2>4, <3>1, <3>2, SizeIs
  <2>9. next_header(memory, a)
           = (a + ((bytes \div BLOCK) + 1) * BLOCK
                + (IF bytes % BLOCK # 0 THEN BLOCK ELSE 0)) % U32
    BY <2>8 DEF next_header
  <2>10. next_header(memory, a) = ((p + 1 + m) * BLOCK) % U32
    BY <1>0, <2>1, <2>9, RoundedUp DEF Needed, m
  <2>11. W[k] = (P[k] * BLOCK) % U32  BY <2>2, <2>3, <2>10
  <2>12. W[k] = P[k] * BLOCK
    <3> DEFINE x == P[k] * BLOCK
    <3>1. x \in Nat /\ x < U32 /\ W[k] = x % U32  BY <2>7, <2>11
    <3> HIDE DEF x
    <3>2. U32 \in Nat /\ U32 > 0  BY <1>0
    <3>3. x % U32 = x
      <4>1. x \in 0..(U32 - 1) /\ 0 \in Nat  BY <3>1, <3>2
      <4>2. (0 * U32 + x) % U32 = x  BY ONLY <3>2, <4>1, DivUnique
      <4>3. 0 * U32 + x = x  BY <3>1, <3>2
      <4> QED BY <4>2, <4>3
    <3> QED BY <3>1, <3>3 DEF x
  <2> QED BY <2>1, <2>12
<1> HIDE DEF S
<1>5. \A k \in 0..n : k \in S  BY <1>0, <1>3, <1>4, Climbs
<1> QED BY <1>5 DEF S, W

(* The walk of count_headers over the initial RAM disk counts its files,   *)
(* however many they are and whatever their sizes are, those of 0 bytes    *)
(* and of whole blocks among them: it stops at each header and at nothing  *)
(* else, for every length of a block and of the octal number.              *)
THEOREM HeadersCountedAlways == HeadersCounted
<1> SUFFICES ASSUME NEW sizes \in Archives, sizes # <<>>
             PROVE  count_headers(Archive(sizes)) = Len(sizes)
  BY DEF HeadersCounted
<1> DEFINE n == Len(sizes)
           memory == Archive(sizes)
           W == headers(memory)
           ended(count) == memory[(W[count] \div BLOCK) + 1].name = "nul"
           first(count) == ended(count) /\ \A earlier \in 1..(count - 1) : ~ended(earlier)
<1>1. /\ sizes \in Seq(Nat) /\ sizes # <<>>
      /\ \A i \in 1..n : Rests(sizes[i])[DIGITS] = 0
  <2>1. sizes \in Seq(Nat)  BY InitrdAssumption
  <2>2. DOMAIN sizes = 1..n  BY <2>1, LenProperties
  <2> QED BY <2>1, <2>2, InitrdAssumption
<1>2. n \in Nat /\ n # 0 /\ \A i \in 1..n : sizes[i] \in Nat
  BY <1>1, EmptySeq, LenProperties
<1>3. PICK P : Laid(P, memory, sizes)  BY <1>1, ArchiveLaid
<1>4. \A k \in 0..n : W[k] = P[k] * BLOCK
  <2>1. Len(memory) * BLOCK < U32  BY InitrdAssumption
  <2> QED BY <1>1, <1>3, <2>1, HeadersAt
<1>5. /\ \A k \in 0..n : P[k] \in Nat
      /\ \A k \in 1..n : memory[P[k-1] + 1] = Header(sizes[k])
      /\ memory[P[n] + 1] = Empty
      /\ Len(memory) \in Nat /\ n <= Len(memory)
  BY <1>3 DEF Laid
<1>6. count_headers(memory) = CHOOSE count \in 1..Len(memory) : first(count)
  BY DEF count_headers
<1> HIDE DEF memory, W
<1>7. \A k \in 0..n : memory[(W[k] \div BLOCK) + 1] = memory[P[k] + 1]
  BY <1>4, <1>5, BlockAt
<1>8. ended(n)
  <2>1. n \in 0..n  BY <1>2
  <2> QED BY <1>5, <1>7, <2>1 DEF Empty
<1>9. ASSUME NEW k \in 1..(n - 1) PROVE ~ended(k)
  <2> DEFINE j == k + 1
  <2>1. j \in 1..n /\ j - 1 = k /\ k \in 0..n  BY <1>2
  <2> HIDE DEF j
  <2>2. memory[P[k] + 1] = Header(sizes[j])  BY <1>5, <2>1
  <2>3. memory[P[k] + 1].name = "file"  BY <2>2 DEF Header
  <2> QED BY <1>7, <2>1, <2>3
<1> HIDE DEF ended, n
<1>10. n \in 1..Len(memory) /\ first(n)  BY <1>2, <1>5, <1>8, <1>9
<1>11. ASSUME NEW count \in 1..Len(memory), first(count) PROVE count = n
  <2>1. CASE count < n
    <3>1. count \in 1..(n - 1)  BY <1>2, <2>1
    <3> QED BY <1>9, <1>11, <3>1
  <2>2. CASE n < count
    <3>1. n \in 1..(count - 1)  BY <1>2, <2>2
    <3> QED BY <1>8, <1>11, <3>1
  <2>3. count \in Int /\ n \in Int  BY <1>2
  <2> QED BY <2>1, <2>2, <2>3
<1> HIDE DEF first
<1>12. count_headers(memory) = n
  <2>1. \E count \in 1..Len(memory) : first(count)  BY <1>10
  <2> QED BY <1>6, <1>11, <2>1
<1> QED BY <1>12 DEF n, memory
=============================================================================
