------------------------------- MODULE ErrorBank -------------------------------
(***************************************************************************)
(* The error registers of the FME global error feature                     *)
(* (drivers/fpga/intel/fme-error.c) and their compare-and-clear stores.    *)
(* Each error class has a status register (write 1 to clear) and a mask   *)
(* register (a set bit keeps the hardware from latching that error).  A   *)
(* user reads a status register (errors_show, pcie0_errors_show, ...,     *)
(* without the lock) and writes the value back to clear it: the store     *)
(* takes pdata->lock, masks the class, re-reads the status, and clears    *)
(* it only if it still equals the value written, else returns -EBUSY;    *)
(* it restores the default mask before unlocking.  Clearing the FME error *)
(* register also clears the first/next error registers.                    *)
(*                                                                         *)
(* A register value is the set of its set bits.  gen counts, per bit, the *)
(* times the hardware latched it afresh (a ghost, capped at MaxGen), so   *)
(* that a clear can be told apart from a clear of a later occurrence.     *)
(***************************************************************************)
EXTENDS Naturals, FiniteSets

CONSTANTS
    Threads,    \* user threads writing the error attributes
    NoThread,   \* the owner of pdata->lock when it is free
    Classes,    \* error classes: "error0", "pcie0", "pcie1", "warning"
    ModelBits,  \* the bit positions the model lets the hardware latch
    MaxGen      \* cap on the occurrence count per bit

ASSUME /\ NoThread \notin Threads
       /\ Classes \subseteq {"error0", "pcie0", "pcie1", "warning"}
       /\ ModelBits \subseteq 0..7 /\ MaxGen \in Nat \ {0}

(* FME_ERROR0_MASK, FME_PCIE0/1_ERROR_MASK (0xFF), FME_RAS_WERROR_MASK     *)
(* (0x1): the bits the store masks and writes back.                        *)
ClassMask(c) == IF c = "warning" THEN {0} ELSE 0..7

(* The mask outside a store: FME_ERROR0_MASK_DEFAULT (0x40, the MBP bit)  *)
(* for the FME error register (fme_error_enable), 0 for the others.       *)
DefaultMask(c) == IF c = "error0" THEN {6} ELSE {}

(* The bits of class c the hardware can latch in the model.               *)
LatchBits(c) == ModelBits \cap ClassMask(c)

(* FME_RAS_ERROR_INJ_MASK.                                                  *)
InjMask == 7

(* The inputs of inject_error_store: the bytes up to one past the mask,   *)
(* and 256 for a string kstrtou8 rejects.                                  *)
ParseFail == 256
InjInputs == 0..InjMask + 1 \cup {ParseFail}

VARIABLES
    lock,      \* owner of pdata->lock
    reg,       \* reg[c]: the status register of class c
    mask,      \* mask[c]: its mask register
    firstNext, \* the first/next error registers hold a latched error
    inj,       \* the RAS error injection register
    gen,       \* gen[c][b]: occurrences of bit b of class c (ghost)
    pc,        \* pc[t]: where thread t is
    cls,       \* cls[t]: the class t's store works on
    val,       \* val[t]: the value t read (and writes back to clear)
    seen,      \* seen[t]: gen of t's class when t read it (ghost)
    snap,      \* snap[t]: the status the store read under the lock
    unseen     \* a store cleared an occurrence its caller never read (ghost)

vars == <<lock, reg, mask, firstNext, inj, gen, pc, cls, val, seen, snap, unseen>>

GenOf(c) == [b \in ModelBits |-> gen[c][b]]

-----------------------------------------------------------------------------
(* The hardware latches error b of class c unless it is masked; a latch   *)
(* of an error already set merges with it.  Any latch is also recorded in *)
(* the first/next error registers.                                          *)
HwLatch(c, b) ==
    /\ b \notin mask[c]
    /\ b \notin reg[c] => gen[c][b] < MaxGen
    /\ reg' = [reg EXCEPT ![c] = @ \cup {b}]
    /\ gen' = IF b \in reg[c] THEN gen ELSE [gen EXCEPT ![c][b] = @ + 1]
    /\ firstNext' = TRUE
    /\ UNCHANGED <<lock, mask, inj, pc, cls, val, seen, snap, unseen>>

(* errors_show / pcie0_errors_show / ...: readq of the status, no lock.   *)
ErrorsShow(t, c) ==
    /\ pc[t] = "idle"
    /\ pc' = [pc EXCEPT ![t] = "has_value"]
    /\ cls' = [cls EXCEPT ![t] = c]
    /\ val' = [val EXCEPT ![t] = reg[c]]
    /\ seen' = [seen EXCEPT ![t] = GenOf(c)]
    /\ UNCHANGED <<lock, reg, mask, firstNext, inj, gen, snap, unseen>>

(* Mutant: the store does not mask the class before comparing.            *)
StoreLockNoMask(t) ==
    /\ pc[t] = "has_value"
    /\ lock = NoThread
    /\ lock' = t
    /\ pc' = [pc EXCEPT ![t] = "st_read"]
    /\ UNCHANGED <<reg, mask, firstNext, inj, gen, cls, val, seen, snap, unseen>>

(* clear_store / pcie0_errors_store / pcie1_errors_store /                 *)
(* warning_errors_store, after kstrtou64 of the value read: lock, then    *)
(* mask the class.                                                          *)
StoreLock(t) ==
    /\ pc[t] = "has_value"
    /\ lock = NoThread
    /\ lock' = t
    /\ mask' = [mask EXCEPT ![cls[t]] = ClassMask(cls[t])]
    /\ pc' = [pc EXCEPT ![t] = "st_read"]
    /\ UNCHANGED <<reg, firstNext, inj, gen, cls, val, seen, snap, unseen>>

(* Mutant: the -EBUSY path unlocks without restoring the mask.             *)
StoreReadNoRestore(t) ==
    /\ pc[t] = "st_read"
    /\ snap' = [snap EXCEPT ![t] = reg[cls[t]]]
    /\ IF val[t] # reg[cls[t]]
         THEN /\ lock' = NoThread
              /\ pc' = [pc EXCEPT ![t] = "idle"]
         ELSE /\ pc' = [pc EXCEPT ![t] = "st_write"]
              /\ UNCHANGED lock
    /\ UNCHANGED <<reg, mask, firstNext, inj, gen, cls, val, seen, unseen>>

(* Re-read the status; -EBUSY (goto exit) if it is not the value written. *)
StoreRead(t) ==
    /\ pc[t] = "st_read"
    /\ snap' = [snap EXCEPT ![t] = reg[cls[t]]]
    /\ pc' = [pc EXCEPT ![t] = IF val[t] # reg[cls[t]] THEN "st_exit"
                                                      ELSE "st_write"]
    /\ UNCHANGED <<lock, reg, mask, firstNext, inj, gen, cls, val, seen, unseen>>

(* clear_store: write 1 to clear the status bits read (csr & MASK), and  *)
(* read and clear the first and next error registers.                      *)
StoreWrite(t) ==
    LET cleared == snap[t] \cap ClassMask("error0") IN
    /\ pc[t] = "st_write"
    /\ cls[t] = "error0"
    /\ reg' = [reg EXCEPT !["error0"] = @ \ cleared]
    /\ firstNext' = FALSE
    /\ unseen' = (unseen \/ \E b \in cleared \cap ModelBits : gen["error0"][b] # seen[t][b])
    /\ pc' = [pc EXCEPT ![t] = "st_exit"]
    /\ UNCHANGED <<lock, mask, inj, gen, cls, val, seen, snap>>

(* exit: write FME_ERROR0_MASK_DEFAULT to the mask and unlock.            *)
StoreExit(t) ==
    /\ pc[t] = "st_exit"
    /\ cls[t] = "error0"
    /\ mask' = [mask EXCEPT !["error0"] = {6}]
    /\ lock' = NoThread
    /\ pc' = [pc EXCEPT ![t] = "idle"]
    /\ UNCHANGED <<reg, firstNext, inj, gen, cls, val, seen, snap, unseen>>

(* pcie0/pcie1/warning_errors_store, the else branch of the compare:      *)
(* write 1 to clear the status bits read; first/next are left alone.      *)
ClassStoreWrite(t) ==
    LET c == cls[t]
        cleared == snap[t] \cap ClassMask(c)
    IN
    /\ pc[t] = "st_write"
    /\ c # "error0"
    /\ reg' = [reg EXCEPT ![c] = @ \ cleared]
    /\ unseen' = (unseen \/ \E b \in cleared \cap ModelBits : gen[c][b] # seen[t][b])
    /\ pc' = [pc EXCEPT ![t] = "st_exit"]
    /\ UNCHANGED <<lock, mask, firstNext, inj, gen, cls, val, seen, snap>>

(* Both branches then write 0UL to the class's mask and unlock.           *)
ClassStoreExit(t) ==
    /\ pc[t] = "st_exit"
    /\ cls[t] # "error0"
    /\ mask' = [mask EXCEPT ![cls[t]] = {}]
    /\ lock' = NoThread
    /\ pc' = [pc EXCEPT ![t] = "idle"]
    /\ UNCHANGED <<reg, firstNext, inj, gen, cls, val, seen, snap, unseen>>

(* Mutant: the bound check of inject_error_store off by one.                *)
InjInRangeOffByOne(d) == d <= InjMask + 1

(* data <= FME_RAS_ERROR_INJ_MASK.                                          *)
InjInRange(d) == d <= InjMask

(* inject_error_store: under the lock, kstrtou8 of the input (d is the    *)
(* parsed byte, ParseFail a parse error) and, if in range, write it.           *)
InjectErrorStore(t, d) ==
    /\ pc[t] = "idle"
    /\ lock = NoThread
    /\ inj' = IF d # ParseFail /\ InjInRange(d) THEN d ELSE inj
    /\ UNCHANGED <<lock, reg, mask, firstNext, gen, pc, cls, val, seen, snap, unseen>>
-----------------------------------------------------------------------------
Init ==
    /\ lock = NoThread
    /\ reg = [c \in Classes |-> {}]
    /\ mask = [c \in Classes |-> DefaultMask(c)]
    /\ firstNext = FALSE
    /\ inj = 0
    /\ gen = [c \in Classes |-> [b \in ModelBits |-> 0]]
    /\ pc = [t \in Threads |-> "idle"]
    /\ cls = [t \in Threads |-> CHOOSE c \in Classes : TRUE]
    /\ val = [t \in Threads |-> {}]
    /\ seen = [t \in Threads |-> [b \in ModelBits |-> 0]]
    /\ snap = [t \in Threads |-> {}]
    /\ unseen = FALSE

Next ==
    \/ \E c \in Classes, b \in ModelBits : b \in LatchBits(c) /\ HwLatch(c, b)
    \/ \E t \in Threads :
          \/ \E c \in Classes : ErrorsShow(t, c)
          \/ StoreLock(t) \/ StoreRead(t)
          \/ StoreWrite(t) \/ StoreExit(t) \/ ClassStoreWrite(t) \/ ClassStoreExit(t)
          \/ \E d \in InjInputs : InjectErrorStore(t, d)

Spec == Init /\ [][Next]_vars

-----------------------------------------------------------------------------
TypeOK ==
    /\ lock \in Threads \cup {NoThread}
    /\ \A c \in Classes : reg[c] \subseteq LatchBits(c)
    /\ mask \in [Classes -> SUBSET (0..7)]
    /\ inj \in 0..InjMask
    /\ pc \in [Threads -> {"idle", "has_value", "st_read", "st_write", "st_exit"}]

(* Outside the stores every class carries its default mask: every path    *)
(* of the stores, the -EBUSY one included, restores the mask it changed   *)
(* before unlocking (clear_store's goto exit, the pcie/warning stores).    *)
MaskRestoredWhenUnlocked ==
    \A c \in Classes :
        (\A t \in Threads : pc[t] \in {"st_read", "st_write", "st_exit"} => cls[t] # c)
            => mask[c] = DefaultMask(c)

(* The stores are atomic compare-and-clears against the hardware: under  *)
(* the mapping that hides the lock, the masks and the snapshots, every    *)
(* step is a latch the default mask allows, a clear of class c with value *)
(* v taken when the status is exactly v and removing exactly v (and the   *)
(* first/next record for the FME error register), an injection within   *)
(* FME_RAS_ERROR_INJ_MASK, or nothing.  It fails if the hardware latches  *)
(* into the class between the compare under the lock and the write back,  *)
(* or if a store clears more or less than it compared.                     *)
Atomic == INSTANCE AtomicErrors
              WITH Latchable <- [c \in Classes |-> LatchBits(c) \ DefaultMask(c)],
                   InjValues <- 0..InjMask

ErrorsRefineAtomic == Atomic!Spec

(* A clear that succeeds clears only error occurrences its caller has     *)
(* read: the compare of the value written with the status catches every  *)
(* error latched since the caller read it.                                  *)
NoUnseenErrorCleared == ~unseen
=============================================================================
