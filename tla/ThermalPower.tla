------------------------------ MODULE ThermalPower ------------------------------
(***************************************************************************)
(* The threshold stores of the FME thermal and power management features  *)
(* (drivers/fpga/intel/fme-main.c).  Five sysfs stores share two 64-bit   *)
(* registers: threshold1, threshold2 and threshold1_policy write fields   *)
(* of the thermal threshold register, pwr_threshold1 and pwr_threshold2   *)
(* fields of the power threshold register.  Each store takes pdata->lock, *)
(* reads the whole register, parses its input (kstrtou8), checks it,      *)
(* and either returns an error or writes the register back with its field *)
(* changed; every path unlocks.  The thermal threshold stores refuse to   *)
(* write when the capability register's lock_bit is set.                  *)
(*                                                                         *)
(* A register is a function from field names to field values.  Each      *)
(* store is two steps: the lock with the read of the register, and the    *)
(* rest of the store (parse, checks, write, unlock), which touches only   *)
(* registers the lock serialises.                                          *)
(***************************************************************************)
EXTENDS Naturals

CONSTANTS
    Threads,    \* user threads writing the attributes
    NoThread,   \* the owner of pdata->lock when it is free
    Inputs      \* the parsed inputs offered to a store (ParseFail: rejected text)

(* kstrtou8 fails (bad text or a value above 255).                        *)
ParseFail == 256

ASSUME /\ NoThread \notin Threads
       /\ Inputs \subseteq 0..255 \cup {ParseFail}

(* The sysfs attributes with a store, and the register each one writes.   *)
ThermStores == {"threshold1", "threshold2"}
PolicyStore == "threshold1_policy"
PwrStores   == {"pwr_threshold1", "pwr_threshold2"}
Attrs       == ThermStores \cup {PolicyStore} \cup PwrStores

Reg(a) == IF a \in PwrStores THEN "power" ELSE "thermal"

(* struct feature_fme_tmp_threshold and feature_fme_pm_ap_threshold,      *)
(* reduced to the fields a store writes.                                   *)
Field == [threshold1 |-> "tmp_thshold1", threshold2 |-> "tmp_thshold2",
          threshold1_policy |-> "thshold_policy",
          pwr_threshold1 |-> "threshold1", pwr_threshold2 |-> "threshold2"]
Enable == [threshold1 |-> "tmp_thshold1_enable", threshold2 |-> "tmp_thshold2_enable"]
Width  == [tmp_thshold1 |-> 7, tmp_thshold1_enable |-> 1, tmp_thshold2 |-> 7,
           tmp_thshold2_enable |-> 1, thshold_policy |-> 1,
           threshold1 |-> 7, threshold2 |-> 7]
RegFields == [thermal |-> {"tmp_thshold1", "tmp_thshold1_enable", "tmp_thshold2",
                           "tmp_thshold2_enable", "thshold_policy"},
              power   |-> {"threshold1", "threshold2"}]

(* Assigning a u8 to a bit field keeps its low bits.                      *)
SetField(csr, f, v) == [csr EXCEPT ![f] = v % (2 ^ Width[f])]

(* Mutant: the thermal limit checked against the field width (127).      *)
ThermalMaxWide == 127

(* The thermal stores' "> 100" check.                                       *)
ThermalMax == 100

(* PWR_THRESHOLD_MAX.                                                       *)
PwrThresholdMax == 127

NoStore == 999   \* last[a] before any store of a succeeded

VARIABLES
    lock,     \* owner of pdata->lock
    regs,     \* regs[r]: the thermal and the power threshold registers
    lockBit,  \* the capability register's lock_bit (set by the platform)
    pc,       \* pc[t]: "idle" or "locked" (inside a store)
    attr,     \* attr[t]: the attribute t's store writes
    arg,      \* arg[t]: its parsed input
    snap,     \* snap[t]: the register value the store read under the lock
    last      \* last[a]: the input of the last store to a that succeeded (ghost)

vars == <<lock, regs, lockBit, pc, attr, arg, snap, last>>

-----------------------------------------------------------------------------
(* Mutant: the store reads the register without taking the lock.          *)
StoreLockUnlocked(t, a, v) ==
    /\ pc[t] = "idle"
    /\ pc' = [pc EXCEPT ![t] = "locked"]
    /\ attr' = [attr EXCEPT ![t] = a]
    /\ arg' = [arg EXCEPT ![t] = v]
    /\ snap' = [snap EXCEPT ![t] = regs[Reg(a)]]
    /\ UNCHANGED <<lock, regs, lockBit, last>>

(* mutex_lock(&pdata->lock); csr = readq(register); the input v is what  *)
(* kstrtou8 will make of the text written.                                 *)
StoreLock(t, a, v) ==
    /\ pc[t] = "idle"
    /\ lock = NoThread
    /\ lock' = t
    /\ pc' = [pc EXCEPT ![t] = "locked"]
    /\ attr' = [attr EXCEPT ![t] = a]
    /\ arg' = [arg EXCEPT ![t] = v]
    /\ snap' = [snap EXCEPT ![t] = regs[Reg(a)]]
    /\ UNCHANGED <<regs, lockBit, last>>

(* The end of every store: writeq(csr) when res is success, then unlock.  *)
Finish(t, res, csr) ==
    /\ regs' = IF res = "ok" THEN [regs EXCEPT ![Reg(attr[t])] = csr] ELSE regs
    /\ last' = IF res = "ok" THEN [last EXCEPT ![attr[t]] = arg[t]] ELSE last
    /\ lock' = NoThread
    /\ pc' = [pc EXCEPT ![t] = "idle"]
    /\ attr' = [attr EXCEPT ![t] = "threshold1"]
    /\ arg' = [arg EXCEPT ![t] = 0]
    /\ snap' = [snap EXCEPT ![t] = regs["thermal"]]
    /\ UNCHANGED lockBit

(* thermal_threshold1_store / thermal_threshold2_store: parse error,      *)
(* -EBUSY when lock_bit is set, -EINVAL above 100; else the threshold and *)
(* its enable bit (0 for a threshold of 0, 1 otherwise).                    *)
ThermalThresholdStore(t) ==
    LET v == arg[t]
        res == CASE v = ParseFail -> "parse"
                 [] lockBit       -> "EBUSY"
                 [] v > ThermalMax -> "EINVAL"
                 [] OTHER         -> "ok"
    IN /\ pc[t] = "locked" /\ attr[t] \in ThermStores
       /\ Finish(t, res, SetField(SetField(snap[t], Field[attr[t]], v),
                                  Enable[attr[t]], IF v = 0 THEN 0 ELSE 1))

(* Mutant: the policy store builds the register from zero, not from the   *)
(* value read.                                                              *)
ThresholdPolicyStoreNoRead(t) ==
    LET v == arg[t] IN
    /\ pc[t] = "locked" /\ attr[t] = PolicyStore
    /\ Finish(t, IF v \in {0, 1} THEN "ok" ELSE "EINVAL",
              SetField([f \in RegFields["thermal"] |-> 0], "thshold_policy", v))

(* thermal_threshold1_policy_store: 0 or 1, else -EINVAL (no lock_bit     *)
(* check).                                                                  *)
ThresholdPolicyStore(t) ==
    LET v == arg[t] IN
    /\ pc[t] = "locked" /\ attr[t] = PolicyStore
    /\ Finish(t, IF v \in {0, 1} THEN "ok" ELSE "EINVAL",
              SetField(snap[t], "thshold_policy", v))

(* pwr_threshold1_store / pwr_threshold2_store: up to PWR_THRESHOLD_MAX.  *)
PwrThresholdStore(t) ==
    LET v == arg[t] IN
    /\ pc[t] = "locked" /\ attr[t] \in PwrStores
    /\ Finish(t, IF v # ParseFail /\ v <= PwrThresholdMax THEN "ok" ELSE "EINVAL",
              SetField(snap[t], Field[attr[t]], v))
-----------------------------------------------------------------------------
(* The registers as the platform left them: any thresholds, enables and   *)
(* policy among a few values; lock_bit set or not for the whole run.      *)
Init ==
    /\ lock = NoThread
    /\ regs \in {r \in [thermal : [RegFields["thermal"] -> {0, 1, 90}],
                        power   : [RegFields["power"] -> {0, 1, 90}]] :
                     \A x \in {"thermal", "power"} : \A f \in RegFields[x] :
                         r[x][f] < 2 ^ Width[f] /\ (Width[f] > 1 => r[x][f] # 1)}
    /\ lockBit \in BOOLEAN
    /\ pc = [t \in Threads |-> "idle"]
    /\ attr = [t \in Threads |-> "threshold1"]
    /\ arg = [t \in Threads |-> 0]
    /\ snap = [t \in Threads |-> regs["thermal"]]   \* locals, unused when idle
    /\ last = [a \in Attrs |-> NoStore]

Next ==
    \E t \in Threads :
        \/ \E a \in Attrs, v \in Inputs : StoreLock(t, a, v)
        \/ ThermalThresholdStore(t)
        \/ ThresholdPolicyStore(t)
        \/ PwrThresholdStore(t)

Spec == Init /\ [][Next]_vars

-----------------------------------------------------------------------------
(* Every threshold holds the value of the last store to it that succeeded, *)
(* and a thermal threshold's enable bit says whether it is nonzero: the    *)
(* stores of the five attributes read, change and write back whole shared *)
(* registers, so one store's write-back must never undo another's field,  *)
(* and no accepted value may be cut down by the width of its bit field.   *)
ThresholdsHoldLastAccepted ==
    \A a \in Attrs :
        last[a] # NoStore =>
            /\ regs[Reg(a)][Field[a]] = last[a]
            /\ a \in ThermStores =>
                  regs["thermal"][Enable[a]] = IF last[a] = 0 THEN 0 ELSE 1

(* While the platform has set lock_bit no store changes a thermal         *)
(* threshold or its enable bit; thermal_threshold1_policy_store, which     *)
(* writes the same register without checking lock_bit, must write them    *)
(* back as it read them.                                                    *)
LockBitFreezesThresholds ==
    [][lockBit => \A a \in ThermStores :
                    /\ regs'["thermal"][Field[a]] = regs["thermal"][Field[a]]
                    /\ regs'["thermal"][Enable[a]] = regs["thermal"][Enable[a]]]_vars

(* The stores implement the atomic threshold attributes: seen only through *)
(* the two registers and lock_bit, every behaviour of the locked          *)
(* read-modify-write stores is one in which each store happens in a      *)
(* single step that sets just its own fields to an accepted value within *)
(* the field's width, or changes nothing.                                   *)
Atomic == INSTANCE AtomicThresholds

ThresholdsRefineAtomic == Atomic!Spec
=============================================================================
