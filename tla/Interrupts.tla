---------------------------- MODULE Interrupts -----------------------------
(***************************************************************************)
(* Interrupts: the two controllers (external), the table of handlers       *)
(* (src/src/c/isr.c) and what irq_handler (src/src/c/irq.c) tells the      *)
(* controllers before it calls a handler.                                  *)
(***************************************************************************)
EXTENDS Integers, FiniteSetsExt

CONSTANT
    Lines    \* the devices that raise interrupts, by their line 0..15

ASSUME InterruptsAssumption == Lines \subseteq (0..15) \ {2}

First == 0..7          \* the lines of the first controller,
Second == 8..15        \* and of the second one, which is on line 2 of it
IRQ(n) == 32 + n

VARIABLES
    interrupt_handler,   \* the handler of an interrupt, "none" if it is 0
    IF_flag,             \* interrupts are enabled
    request,             \* the lines that ask for an interrupt
    in_service           \* the lines whose interrupt is not acknowledged

dispatch == <<interrupt_handler, IF_flag, request, in_service>>

Vectors == {14, IRQ(0), IRQ(1)} \cup {IRQ(n) : n \in Lines}

Cleared_table == [v \in Vectors |-> "none"]

InterruptsInit ==
    /\ interrupt_handler = Cleared_table
    /\ IF_flag = FALSE
    /\ request = {}
    /\ in_service = {}

register_interrupt_handler(v, handler) ==
    interrupt_handler' = [interrupt_handler EXCEPT ![v] = handler]

-----------------------------------------------------------------------------
(* An interrupt in service holds back those of its own and lower priority. *)
Held_back(n) ==
    \/ \E m \in in_service : m <= n /\ {m, n} \subseteq First
    \/ \E m \in in_service : m <= n /\ {m, n} \subseteq Second
    \/ n \in Second /\ \E m \in in_service : m <= 2

Rank(n) == IF n \in First THEN 10 * n ELSE 20 + (n - 8)

Deliverable(n) ==
    /\ IF_flag /\ n \in request /\ ~Held_back(n)
    /\ \A m \in request : ~Held_back(m) => Rank(n) <= Rank(m)

(* An end-of-interrupt for a controller: its most urgent one is done.      *)
eoi(lines, controller) ==
    IF lines \cap controller = {} THEN lines
    ELSE lines \ {Min(lines \cap controller)}

(* Mutants: only the controller of the line is told, and the second one    *)
(* never is.                                                               *)
acknowledge_one(n) ==
    LET taken == in_service \cup {n} \cup (IF n \in Second THEN {2} ELSE {})
    IN  /\ request' = request \ {n}
        /\ in_service' = eoi(taken, IF n \in Second THEN Second ELSE First)

acknowledge_first(n) ==
    /\ request' = request \ {n}
    /\ in_service' =
          eoi(in_service \cup {n} \cup (IF n \in Second THEN {2} ELSE {}), First)

(* The processor takes the interrupt, and irq_handler acknowledges it, to  *)
(* the second controller too for any int_no from 20 on.                    *)
acknowledge(n) ==
    LET taken == in_service \cup {n} \cup (IF n \in Second THEN {2} ELSE {})
    IN  /\ request' = request \ {n}
        /\ in_service' =
              eoi(IF IRQ(n) >= 20 THEN eoi(taken, Second) ELSE taken, First)

-----------------------------------------------------------------------------
InterruptsTypeOK ==
    /\ interrupt_handler \in [Vectors -> {"none", "page_fault_interrupt_handler",
                                          "timer_interrupt_handler",
                                          "keyboard_interrupt_handler"}]
    /\ IF_flag \in BOOLEAN
    /\ request \subseteq Lines
    /\ in_service \subseteq Lines \cup {2}

(* Every interrupt is acknowledged to its own controller before its        *)
(* handler is done: none stays in service and holds others back.           *)
AllAcknowledged == in_service = {}
=============================================================================
