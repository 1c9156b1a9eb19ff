----------------------------- MODULE FlatMemory -----------------------------
(***************************************************************************)
(* What demand paging promises to running code: pages that come with any   *)
(* content at their first use and from then on keep what is written.       *)
(***************************************************************************)
CONSTANTS
    Pages, Words,
    Contents,      \* what a page can contain
    Unused,        \* what stands for the content of a page not used so far
    Write(_, _)    \* Write(content, word) is a page's content after a write

VARIABLES
    content,   \* what each page contains
    full       \* no memory was left for a page

vars == <<content, full>>

Init == content = [page \in Pages |-> Unused] /\ full = FALSE

FirstUse(page) ==
    /\ content[page] = Unused
    /\ content'[page] \in Contents
    /\ content' = [content EXCEPT ![page] = content'[page]]
    /\ UNCHANGED full

Put(page, word) ==
    /\ content[page] # Unused
    /\ content' = [content EXCEPT ![page] = Write(@, word)]
    /\ UNCHANGED full

Exhausted == ~full /\ full' = TRUE /\ UNCHANGED content

Next ==
    \/ \E page \in Pages : FirstUse(page) \/ \E word \in Words : Put(page, word)
    \/ Exhausted

Spec == Init /\ [][~full /\ Next]_vars
=============================================================================
