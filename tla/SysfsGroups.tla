----------------------------- MODULE SysfsGroups -----------------------------
(***************************************************************************)
(* sysfs_create_groups and sysfs_remove_groups as backported for kernels  *)
(* before 3.12 (drivers/fpga/intel/backport.c).  create walks the NULL-    *)
(* terminated array of attribute groups, creating each on the kobject; if *)
(* one fails it removes the groups created so far, last first, and        *)
(* returns the error.  remove removes every group of the array.  A NULL   *)
(* array is a no-op for both.                                              *)
(*                                                                         *)
(* One step per loop iteration; sysfs_create_group itself is one step that *)
(* succeeds or fails (it cleans up after itself).  A caller creates the   *)
(* groups, and after a success later removes them, any number of times.   *)
(***************************************************************************)
EXTENDS Integers

CONSTANTS
    NGroups,  \* entries of the groups array before its NULL terminator
    Null      \* a NULL groups pointer

ASSUME NGroups \in Nat /\ Null \notin Nat

VARIABLES
    groups,   \* the array passed in: Null or its length
    created,  \* indices of the groups present on the kobject
    i,        \* the loop index
    error,    \* the error of the failed sysfs_create_group, 0 if none
    pc,       \* "idle", "create", "rollback", "created", "remove"
    absent    \* sysfs_remove_group was called on a group not present (ghost)

vars == <<groups, created, i, error, pc, absent>>

RemoveGroup(g) ==
    /\ created' = created \ {g}
    /\ absent' = (absent \/ g \notin created)

(* The caller passes an array (or NULL) to sysfs_create_groups.           *)
CreateGroups ==
    /\ pc = "idle"
    /\ \E gs \in {Null} \cup 0..NGroups :
          /\ groups' = gs
          /\ IF gs = Null THEN pc' = "created" /\ error' = 0
                          ELSE pc' = "create" /\ error' = error
    /\ i' = 0
    /\ UNCHANGED <<created, absent>>

(* for (i = 0; groups[i]; i++) error = sysfs_create_group(...): a group  *)
(* created, or a failure that breaks to the rollback.                     *)
CreateGroup ==
    /\ pc = "create"
    /\ i < groups
    /\ \/ /\ created' = created \cup {i}
          /\ i' = i + 1
          /\ UNCHANGED <<error, pc>>
       \/ /\ error' = -12
          /\ pc' = "rollback"
          /\ UNCHANGED <<created, i>>
    /\ UNCHANGED <<groups, absent>>

(* groups[i] is NULL: every group was created, return 0.                  *)
CreateDone ==
    /\ pc = "create"
    /\ i = groups
    /\ error' = 0
    /\ pc' = "created"
    /\ UNCHANGED <<groups, created, i, absent>>

(* Mutant: while (--i > 0) stops before groups[0].                          *)
RollbackSkipFirst ==
    /\ pc = "rollback"
    /\ i' = i - 1
    /\ IF i - 1 > 0 THEN RemoveGroup(i - 1) /\ UNCHANGED pc
                    ELSE pc' = "created" /\ UNCHANGED <<created, absent>>
    /\ UNCHANGED <<groups, error>>

(* Mutant: while (i-- >= 0) removes groups[i] after testing i, down to  *)
(* groups[-1].                                                              *)
RollbackPostDec ==
    /\ pc = "rollback"
    /\ i' = i - 1
    /\ IF i >= 0 THEN RemoveGroup(i - 1) /\ UNCHANGED pc
                 ELSE pc' = "created" /\ UNCHANGED <<created, absent>>
    /\ UNCHANGED <<groups, error>>

(* while (--i >= 0) sysfs_remove_group(kobj, groups[i]); then return the  *)
(* error.                                                                   *)
Rollback ==
    /\ pc = "rollback"
    /\ i' = i - 1
    /\ IF i - 1 >= 0 THEN RemoveGroup(i - 1) /\ UNCHANGED pc
                     ELSE pc' = "created" /\ UNCHANGED <<created, absent>>
    /\ UNCHANGED <<groups, error>>

(* The caller sees the result: on success it keeps the groups and later   *)
(* calls sysfs_remove_groups with the same array; on failure it is back   *)
(* where it started.                                                        *)
CreateReturn ==
    /\ pc = "created"
    /\ pc' = IF error = 0 /\ groups # Null THEN "remove" ELSE "idle"
    /\ i' = 0
    /\ UNCHANGED <<groups, created, error, absent>>

(* sysfs_remove_groups: for (i = 0; groups[i]; i++) sysfs_remove_group.   *)
RemoveStep ==
    /\ pc = "remove"
    /\ IF i < groups
         THEN RemoveGroup(i) /\ i' = i + 1 /\ UNCHANGED pc
         ELSE pc' = "idle" /\ UNCHANGED <<created, absent, i>>
    /\ UNCHANGED <<groups, error>>

Init ==
    /\ groups = Null
    /\ created = {}
    /\ i = 0
    /\ error = 0
    /\ pc = "idle"
    /\ absent = FALSE

Next == CreateGroups \/ CreateGroup \/ CreateDone \/ Rollback
        \/ CreateReturn \/ RemoveStep

Spec == Init /\ [][Next]_vars

-----------------------------------------------------------------------------
TypeOK ==
    /\ groups \in {Null} \cup 0..NGroups
    /\ created \subseteq 0..NGroups - 1
    /\ i \in -1..NGroups
    /\ pc \in {"idle", "create", "rollback", "created", "remove"}

(* sysfs_create_groups is all or nothing: when it returns, either it      *)
(* returned 0 and every group of the array is on the kobject, or it       *)
(* returned the error and the rollback removed every group it had          *)
(* created, so the kobject carries none (create_perf_obj and              *)
(* global_error_init rely on this when they unwind).                      *)
CreateAllOrNothing ==
    pc = "created" =>
        IF error = 0 THEN created = IF groups = Null THEN {} ELSE 0..groups - 1
                     ELSE created = {}

(* The rollback and sysfs_remove_groups remove only groups that are on    *)
(* the kobject: the rollback starts just below the group that failed and *)
(* stops at groups[0].                                                     *)
NoRemoveOfAbsentGroup == ~absent
=============================================================================
