--------------------------- MODULE AtomicThresholds ---------------------------
(***************************************************************************)
(* What the threshold attributes of the FME thermal and power features    *)
(* promise, with no lock and no read-modify-write: each store takes effect *)
(* in one step, either changing nothing (a refused value) or setting the  *)
(* fields its attribute names and no other field of the shared register. *)
(* A value is accepted when it is at most the attribute's documented      *)
(* maximum, which fits its bit field, and, for the two thermal thresholds, *)
(* only while the platform has not set lock_bit.                          *)
(***************************************************************************)
EXTENDS Naturals, TLC

VARIABLES
    regs,     \* regs["thermal"], regs["power"]: field name -> value
    lockBit   \* the capability register's lock_bit

avars == <<regs, lockBit>>

ThermalFields == {"tmp_thshold1", "tmp_thshold1_enable", "tmp_thshold2",
                  "tmp_thshold2_enable", "thshold_policy"}
PowerFields   == {"threshold1", "threshold2"}

(* The documented maximum of each attribute (degrees, policy 0/1,         *)
(* PWR_THRESHOLD_MAX).                                                       *)
Limit == [threshold1 |-> 100, threshold2 |-> 100, threshold1_policy |-> 1,
          pwr_threshold1 |-> 127, pwr_threshold2 |-> 127]

Target(a) == IF a \in {"pwr_threshold1", "pwr_threshold2"} THEN "power"
                                                         ELSE "thermal"

Frozen(a) == a \in {"threshold1", "threshold2"} /\ lockBit

(* The fields a store of v to attribute a sets.                            *)
Sets(a, v) ==
    LET on == IF v = 0 THEN 0 ELSE 1 IN
    CASE a = "threshold1"        -> [tmp_thshold1 |-> v, tmp_thshold1_enable |-> on]
      [] a = "threshold2"        -> [tmp_thshold2 |-> v, tmp_thshold2_enable |-> on]
      [] a = "threshold1_policy" -> [thshold_policy |-> v]
      [] a = "pwr_threshold1"    -> [threshold1 |-> v]
      [] a = "pwr_threshold2"    -> [threshold2 |-> v]

Store(a, v) ==
    /\ v <= Limit[a]
    /\ ~Frozen(a)
    /\ regs' = [regs EXCEPT ![Target(a)] = Sets(a, v) @@ @]
    /\ UNCHANGED lockBit

Init ==
    /\ regs \in [thermal : [ThermalFields -> 0..127], power : [PowerFields -> 0..127]]
    /\ lockBit \in BOOLEAN

Next == \E a \in DOMAIN Limit, v \in 0..127 : Store(a, v)

Spec == Init /\ [][Next]_avars
=============================================================================
