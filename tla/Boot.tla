-------------------------------- MODULE Boot --------------------------------
(***************************************************************************)
(* kernel_main (src/src/c/kernel.c): the order in which the system is set  *)
(* up, with the interrupts that come meanwhile, and then the main loop of  *)
(* module Console.  Keys are presses and releases here, which the keyboard *)
(* presents one at a time and keyboard_interrupt_handler                   *)
(* (src/src/c/keyboard.c) reads.                                           *)
(***************************************************************************)
EXTENDS Console, Interrupts

CONSTANTS
    Plain, Shifts,   \* the keys that are no shift key, and the shift keys
    MaxCodes         \* bound: how many presses and releases there are

ASSUME BootAssumption ==
    /\ Plain \subseteq {"x", " ", "enter", "erase", "ctrl"}
    /\ Shifts \subseteq {"left shift", "right shift"}
    /\ 1 \in Lines /\ MaxCodes \in 0..MaxKeys

VARIABLES
    stage,           \* how far kernel_main has come
    mods_count,      \* the modules that GRUB has loaded
    node_area,       \* whether the page of the heap's nodes is mapped
    shiftKeyDown,
    port,            \* the code that waits at port 0x60, if any
    held,            \* for the properties: the keys that are down,
    codes,           \*   how many codes there were,
    unheard          \*   one came before keyboard_initialize

boot == <<stage, mods_count, node_area>>
typist == <<port, held, codes, unheard>>
bootVars == <<vars, dispatch, boot, shiftKeyDown, typist>>

(* Mutant: the table is cleared after its first entry has been made.       *)
kernel_main_late_memset ==
    <<"idt_initialize", "paging_initialize", "memset", "vmm_initialize",
      "initrd_initialize", "enable_interrupts", "timer_initialize",
      "keyboard_initialize", "keyboard_set_handler", "prompt", "loop", "halt">>

(* The calls that matter here, in their order, and where initrd_initialize *)
(* stops.                                                                  *)
kernel_main ==
    <<"idt_initialize", "memset", "paging_initialize", "vmm_initialize",
      "initrd_initialize", "enable_interrupts", "timer_initialize",
      "keyboard_initialize", "keyboard_set_handler", "prompt", "loop", "halt">>

At(call) == kernel_main[stage] = call

None == [key |-> "none", released |-> FALSE]

BootInit ==
    /\ PowerOn
    /\ keyboard_handler = "none"
    /\ vga_buffer = <<>>
    /\ InterruptsInit
    /\ stage = 1
    /\ mods_count \in {0, 1}
    /\ node_area = FALSE
    /\ shiftKeyDown = FALSE
    /\ port = None /\ held = {} /\ codes = 0 /\ unheard = FALSE

-----------------------------------------------------------------------------
(* kernel_main: each call returns to the next one. *)
Return(call) ==
    /\ At(call)
    /\ stage' = stage + 1
    /\ UNCHANGED <<mods_count, shiftKeyDown, typist>>

(* The controllers are set up and forget what has asked so far.            *)
idt_initialize ==
    /\ Return("idt_initialize")
    /\ request' = {} /\ in_service' = {}
    /\ UNCHANGED <<vars, interrupt_handler, IF_flag, node_area>>

memset ==
    /\ Return("memset")
    /\ interrupt_handler' = Cleared_table
    /\ UNCHANGED <<vars, IF_flag, request, in_service, node_area>>

Register(call, v, handler) ==
    /\ Return(call)
    /\ register_interrupt_handler(v, handler)
    /\ UNCHANGED <<vars, IF_flag, request, in_service, node_area>>

(* vmm_initialize writes to the page of the nodes, which is not mapped.    *)
(* isr_handler returns to the write whether or not it found a handler.     *)
PageFault ==
    /\ At("vmm_initialize") /\ ~node_area
    /\ node_area' = (interrupt_handler[14] # "none")
    /\ UNCHANGED <<vars, dispatch, stage, mods_count, shiftKeyDown, typist>>

vmm_initialize ==
    /\ node_area
    /\ Return("vmm_initialize")
    /\ UNCHANGED <<vars, dispatch, node_area>>

initrd_initialize ==
    /\ At("initrd_initialize")
    /\ stage' = IF mods_count < 1
                THEN CHOOSE s \in DOMAIN kernel_main : kernel_main[s] = "halt"
                ELSE stage + 1
    /\ UNCHANGED <<vars, dispatch, mods_count, node_area, shiftKeyDown, typist>>

enable_interrupts ==
    /\ Return("enable_interrupts")
    /\ IF_flag' = TRUE
    /\ UNCHANGED <<vars, interrupt_handler, request, in_service, node_area>>

keyboard_set_handler ==
    /\ Return("keyboard_set_handler")
    /\ keyboard_handler' = "kernel_keyboard_handler"
    /\ UNCHANGED <<keyboard_buffer, keyboard_buffer_length, terminal, display, pc,
                   size, wild, typed, overtaken, received, commands,
                   dispatch, node_area>>

Prompt ==
    /\ Return("prompt")
    /\ vga_buffer' = <<">">>
    /\ UNCHANGED <<keyboard, terminal, screen, pc, size, wild, typed,
                   overtaken, received, commands, dispatch, node_area>>

MainLoop == At("loop") /\ Loop /\ UNCHANGED <<dispatch, boot, shiftKeyDown, typist>>

Kernel ==
    \/ idt_initialize \/ memset
    \/ Register("paging_initialize", 14, "page_fault_interrupt_handler")
    \/ PageFault \/ vmm_initialize \/ initrd_initialize \/ enable_interrupts
    \/ Register("timer_initialize", IRQ(0), "timer_interrupt_handler")
    \/ Register("keyboard_initialize", IRQ(1), "keyboard_interrupt_handler")
    \/ keyboard_set_handler \/ Prompt \/ MainLoop

-----------------------------------------------------------------------------
asciiNonShift(key) == IF key = "ctrl" THEN NUL ELSE key
asciiShift(key) == IF key = "x" THEN "X" ELSE asciiNonShift(key)

(* Mutants: with one key in the buffer the handler does not read the code, *)
(* and only the left shift key is let go.                                  *)
keyboard_interrupt_handler_unread ==
    IF keyboard_buffer_length > 0 THEN UNCHANGED <<vars, port, shiftKeyDown>>
    ELSE /\ port' = None
         /\ \/ /\ (port.released \/ port.key \in Shifts)
               /\ shiftKeyDown' = ~port.released
               /\ UNCHANGED vars
            \/ /\ ~port.released /\ port.key \notin Shifts
               /\ Key(asciiNonShift(port.key))
               /\ UNCHANGED shiftKeyDown

keyboard_interrupt_handler_left ==
    /\ port' = None
    /\ \/ /\ port.released
          /\ shiftKeyDown' = (shiftKeyDown /\ port.key # "left shift")
          /\ UNCHANGED vars
       \/ /\ ~port.released /\ port.key \in Shifts
          /\ shiftKeyDown' = TRUE
          /\ UNCHANGED vars
       \/ /\ ~port.released /\ port.key \notin Shifts
          /\ Key(IF shiftKeyDown THEN asciiShift(port.key) ELSE asciiNonShift(port.key))
          /\ UNCHANGED shiftKeyDown

(* Reading the code frees the keyboard for the next one. *)
keyboard_interrupt_handler ==
    /\ port' = None
    /\ \/ /\ port.released
          /\ shiftKeyDown' = (shiftKeyDown /\ port.key \notin Shifts)
          /\ UNCHANGED vars
       \/ /\ ~port.released /\ port.key \in Shifts
          /\ shiftKeyDown' = TRUE
          /\ UNCHANGED vars
       \/ /\ ~port.released /\ port.key \notin Shifts
          /\ Key(IF shiftKeyDown THEN asciiShift(port.key) ELSE asciiNonShift(port.key))
          /\ UNCHANGED shiftKeyDown

(* irq_handler.  The timer's handler does nothing that shows here.         *)
irq_handler(n) ==
    /\ ~wild
    /\ Deliverable(n)
    /\ acknowledge(n)
    /\ IF interrupt_handler[IRQ(n)] = "keyboard_interrupt_handler"
       THEN keyboard_interrupt_handler
       ELSE UNCHANGED <<vars, shiftKeyDown, port>>
    /\ UNCHANGED <<interrupt_handler, IF_flag, boot, held, codes, unheard>>

-----------------------------------------------------------------------------
(* The keyboard presents a code when the last one has been read, and asks  *)
(* for an interrupt once.                                                  *)
Present(key, released) ==
    /\ port = None /\ codes < MaxCodes
    /\ released => key \in held
    /\ port' = [key |-> key, released |-> released]
    /\ held' = IF released THEN held \ {key} ELSE held \cup {key}
    /\ codes' = codes + 1
    /\ unheard' = (unheard \/ interrupt_handler[IRQ(1)] = "none")
    /\ request' = request \cup {1}
    /\ UNCHANGED <<vars, interrupt_handler, IF_flag, in_service, boot, shiftKeyDown>>

(* Another device asks for an interrupt. *)
Raise(n) ==
    /\ request' = request \cup {n}
    /\ UNCHANGED <<vars, interrupt_handler, IF_flag, in_service, boot, shiftKeyDown,
                   typist>>

Devices ==
    \/ \E key \in Plain \cup Shifts, released \in BOOLEAN : Present(key, released)
    \/ \E n \in Lines \ {1} : Raise(n)

BootNext == Kernel \/ (\E n \in Lines : irq_handler(n)) \/ Devices

BootSpec == BootInit /\ [][BootNext]_bootVars

(* The processor goes on with kernel_main when it does not serve an        *)
(* interrupt, and takes one that is asked for again and again: interrupts  *)
(* are never disabled for good.                                            *)
BootFairSpec ==
    /\ BootSpec
    /\ WF_bootVars(Kernel)
    /\ \A n \in Lines : SF_bootVars(irq_handler(n))

-----------------------------------------------------------------------------
BootTypeOK ==
    /\ TypeOK /\ InterruptsTypeOK
    /\ stage \in DOMAIN kernel_main
    /\ mods_count \in {0, 1}
    /\ {node_area, shiftKeyDown, unheard} \subseteq BOOLEAN
    /\ port \in {None} \cup [key : Plain \cup Shifts, released : BOOLEAN]
    /\ held \subseteq Plain \cup Shifts
    /\ codes \in 0..MaxCodes

(* When all codes have been read, letters are shifted only if a shift key  *)
(* is down, and are if all of them are.                                    *)
ShiftAsHeld == port = None =>
    /\ held \cap Shifts = {} => ~shiftKeyDown
    /\ Shifts # {} /\ Shifts \subseteq held => shiftKeyDown

(* A code that waits has asked for its interrupt: only a code that came    *)
(* before keyboard_initialize can be left at the port with nothing to      *)
(* make the processor read it.                                             *)
NoCodeForgotten == port # None /\ 1 \notin request => unheard

(* The boot comes to the main loop, with page faults on its way, unless    *)
(* GRUB has loaded no module.                                              *)
BootReachesLoop == mods_count >= 1 ~> At("loop")

(* Every interrupt that is asked for is served in the end, also behind     *)
(* those of a line without a handler.                                      *)
RequestsServed == \A n \in Lines :
    n \in request /\ mods_count >= 1 ~> n \notin request \/ wild
=============================================================================
