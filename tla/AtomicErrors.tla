----------------------------- MODULE AtomicErrors -----------------------------
(***************************************************************************)
(* What the error attributes of the FME global error feature promise, with *)
(* no lock, no mask and no snapshot: the hardware latches an error of a   *)
(* class whenever its default mask lets it through; a clear of class c    *)
(* with value v takes effect in one step, and only if the status is v at  *)
(* that step, removing exactly v (and, for the FME error register, the    *)
(* first/next error record); an injection sets the injection register to *)
(* a value within FME_RAS_ERROR_INJ_MASK.  A refused clear, a refused     *)
(* injection and a read change nothing.                                     *)
(***************************************************************************)
EXTENDS FiniteSets

CONSTANTS
    Classes,    \* the error classes
    Latchable,  \* Latchable[c]: bits of c the default mask lets through
    InjValues   \* the values an injection may write

VARIABLES
    reg,        \* reg[c]: the status register of class c
    firstNext,  \* the first/next error registers hold a latched error
    inj         \* the RAS error injection register

avars == <<reg, firstNext, inj>>

Latch(c, b) ==
    /\ b \in Latchable[c]
    /\ reg' = [reg EXCEPT ![c] = @ \cup {b}]
    /\ firstNext' = TRUE
    /\ UNCHANGED inj

Clear(c, v) ==
    /\ reg[c] = v
    /\ reg' = [reg EXCEPT ![c] = @ \ v]
    /\ firstNext' = (firstNext /\ c # "error0")
    /\ UNCHANGED inj

Inject(d) ==
    /\ d \in InjValues
    /\ inj' = d
    /\ UNCHANGED <<reg, firstNext>>

Init ==
    /\ reg = [c \in Classes |-> {}]
    /\ firstNext = FALSE
    /\ inj = 0

Next ==
    \/ \E c \in Classes :
          \/ \E b \in Latchable[c] : Latch(c, b)
          \/ \E v \in SUBSET Latchable[c] : Clear(c, v)
    \/ \E d \in InjValues : Inject(d)

Spec == Init /\ [][Next]_avars
=============================================================================
