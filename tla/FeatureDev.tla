------------------------------ MODULE FeatureDev ------------------------------
(***************************************************************************)
(* The life of one FME platform device (drivers/fpga/intel/fme-main.c     *)
(* and the inline helpers of include/feature-dev.h): probe (fme_dev_init,  *)
(* the sub-feature init loop, fpga_register_dev_ops, with the unwinding of *)
(* each failure), remove, the open/close accounting of the character      *)
(* device, the FPGA_FME_GET_INFO ioctl, and the sysfs stores of the error *)
(* feature racing the teardown of its attribute groups.                    *)
(*                                                                         *)
(* One process (Remover) runs probe and then, once the device is live,    *)
(* remove.  User threads open and close the device file, issue GET_INFO   *)
(* on an open file, and write the error feature's sysfs attributes.  The  *)
(* kernfs active reference a sysfs store holds while it runs is modelled  *)
(* explicitly: removing an attribute group first stops new stores, then   *)
(* waits until no store holds a reference (kernfs_drain).                  *)
(***************************************************************************)
EXTENDS Naturals, FiniteSets

CONSTANTS
    Threads,    \* user threads
    Remover,    \* the context running fme_probe and fme_remove
    NoThread,   \* the owner of pdata->lock when it is free
    NFeat,      \* entries of fme_feature_drvs that match a discovered feature
    ErrFeat,    \* the index of the global error feature among them
    QspiFeat    \* the index of the QSPI flash feature among them

ASSUME /\ Remover \notin Threads /\ NoThread \notin Threads \cup {Remover}
       /\ NFeat \in Nat \ {0} /\ ErrFeat \in 1..NFeat
       /\ QspiFeat \in 1..NFeat /\ QspiFeat # ErrFeat

VARIABLES
    lock,       \* owner of pdata->lock
    life,       \* where probe / remove of the device is
    k,          \* the feature index of the init / uinit loop
    eu,         \* the step of global_error_uinit in progress
    inited,     \* the features whose init succeeded and uinit has not run
    errGroup,   \* kernfs state of the error feature's attribute groups
    priv,       \* pdata->private is non-NULL (fme_dev_init has run)
    cdev,       \* the character device is registered (fme_fops reachable)
    openCount,  \* pdata->open_count
    exclOpen,   \* pdata->excl_open
    fd,         \* fd[t]: how thread t holds the device file open
    tpc,        \* tpc[t]: "idle", or "st_lock" inside an error sysfs store
    oops,       \* a NULL pdata->private was dereferenced
    qrefs,      \* references held on the QSPI flash child platform device
    qreg        \* that child is registered (a child of the FME device)

qspi == <<qrefs, qreg>>

vars == <<lock, life, k, eu, inited, errGroup, priv, cdev, openCount,
          exclOpen, fd, tpc, oops, qspi>>

Feats == 1..NFeat

(* Threads holding a kernfs active reference on the error attributes.     *)
ActiveRefs == {t \in Threads : tpc[t] = "st_lock"}

OpenFds == {t \in Threads : fd[t] # "none"}

-----------------------------------------------------------------------------
(* fme_dev_init: allocate struct fpga_fme (may fail with -ENOMEM) and     *)
(* publish it as pdata->private under the lock.                            *)
FmeDevInit ==
    /\ life = "dev_init"
    /\ \/ /\ life' = "failed"
          /\ UNCHANGED <<lock, k, priv, qspi>>
       \/ /\ lock = NoThread
          /\ priv' = TRUE
          /\ life' = "feat_init" /\ k' = 1
          /\ UNCHANGED lock
    /\ UNCHANGED <<eu, inited, errGroup, cdev, openCount, exclOpen, fd, tpc, oops, qspi>>

(* qspi_flash_init that succeeds: platform_device_alloc (one reference,   *)
(* which the platform core owns once the device is added),                *)
(* platform_device_add_data, platform_device_add (the parent's list of    *)
(* children takes a second one).  Each failure path ends in               *)
(* platform_device_put, leaving no reference and nothing registered.       *)
QspiFlashInit ==
    /\ qrefs' = 2 /\ qreg' = TRUE

(* One iteration of the sub-feature init loop (fpga_dev_feature_init):     *)
(* feature k's init either succeeds (global_error_init makes its sysfs    *)
(* groups visible and records dev_err under the lock) or fails after      *)
(* undoing its own partial work, and the features initialised before it   *)
(* are uninitialised in reverse order.                                     *)
FeatureInit ==
    /\ life = "feat_init"
    /\ IF k > NFeat
         THEN /\ life' = "register"
              /\ UNCHANGED <<k, inited, errGroup, qspi>>
         ELSE \/ /\ k = ErrFeat => lock = NoThread
                 /\ inited' = inited \cup {k}
                 /\ errGroup' = IF k = ErrFeat THEN "active" ELSE errGroup
                 /\ IF k = QspiFeat THEN QspiFlashInit ELSE UNCHANGED qspi
                 /\ k' = k + 1
                 /\ UNCHANGED life
              \/ /\ life' = "unwind" /\ k' = k - 1
                 /\ UNCHANGED <<inited, errGroup, qspi>>
    /\ UNCHANGED <<lock, eu, priv, cdev, openCount, exclOpen, fd, tpc, oops>>

(* Mutant: the uinit of everything starts one past the last feature.      *)
UinitFromLast == NFeat + 1

(* fpga_dev_feature_uinit: start with the last feature.                    *)
UinitFrom == NFeat

(* fpga_register_dev_ops: on failure fme_probe runs fpga_dev_feature_uinit *)
(* and then fme_dev_destroy.                                               *)
RegisterDevOps ==
    /\ life = "register"
    /\ \/ /\ cdev' = TRUE /\ life' = "live"
          /\ UNCHANGED k
       \/ /\ life' = "unwind" /\ k' = UinitFrom
          /\ UNCHANGED cdev
    /\ UNCHANGED <<lock, eu, inited, errGroup, priv, openCount, exclOpen, fd, tpc, oops, qspi>>

(* The uinit of a feature other than the error one: it removes its sysfs  *)
(* files or groups, none of which takes pdata->lock.                       *)
PlainUinit ==
    /\ life \in {"unwind", "remove"} /\ k \in Feats /\ k \notin {ErrFeat, QspiFeat}
    /\ inited' = inited \ {k}
    /\ k' = k - 1
    /\ UNCHANGED <<lock, life, eu, errGroup, priv, cdev, openCount, exclOpen, fd, tpc, oops, qspi>>

(* qspi_flash_uinit: device_find_child with qspi_match finds the child    *)
(* (and takes a reference on it, which the caller is to drop with         *)
(* put_device); platform_device_unregister removes it from the parent's  *)
(* children and drops the platform core's reference.                       *)
QspiFlashUinit ==
    /\ life \in {"unwind", "remove"} /\ k = QspiFeat
    /\ IF qreg
         THEN /\ qrefs' = qrefs + 1 - 2
              /\ qreg' = FALSE
         ELSE UNCHANGED qspi
    /\ inited' = inited \ {k}
    /\ k' = k - 1
    /\ UNCHANGED <<lock, life, eu, errGroup, priv, cdev, openCount, exclOpen, fd, tpc, oops>>

(* global_error_uinit takes pdata->lock, reads pdata->private, and with   *)
(* the lock held removes the attribute groups: kernfs first stops new     *)
(* stores, then waits for the running ones, then the device is            *)
(* unregistered, dev_err cleared and the lock released.                    *)
ErrUinitLock ==
    /\ life \in {"unwind", "remove"} /\ k = ErrFeat /\ eu = "none"
    /\ lock = NoThread
    /\ lock' = Remover /\ eu' = "deactivate"
    /\ oops' = (oops \/ ~priv)
    /\ UNCHANGED <<life, k, inited, errGroup, priv, cdev, openCount, exclOpen, fd, tpc, qspi>>

ErrUinitDeactivate ==
    /\ eu = "deactivate"
    /\ errGroup' = "draining" /\ eu' = "drain"
    /\ UNCHANGED <<lock, life, k, inited, priv, cdev, openCount, exclOpen, fd, tpc, oops, qspi>>

ErrUinitDrain ==
    /\ eu = "drain"
    /\ ActiveRefs = {}
    /\ errGroup' = "absent" /\ eu' = "none"
    /\ inited' = inited \ {k}
    /\ k' = k - 1
    /\ lock' = NoThread
    /\ UNCHANGED <<life, priv, cdev, openCount, exclOpen, fd, tpc, oops, qspi>>

(* The uinit loop has run out: after a failed probe fme_dev_destroy       *)
(* follows; after remove, fpga_unregister_dev_ops.                          *)
UinitDone ==
    /\ life \in {"unwind", "remove"} /\ k = 0
    /\ life' = IF life = "unwind" THEN "fail_destroy" ELSE "unregister"
    /\ UNCHANGED <<lock, k, eu, inited, errGroup, priv, cdev, openCount, exclOpen, fd, tpc, oops, qspi>>
(* Mutant: the failed probe returns without fme_dev_destroy (goto exit).  *)
FailDestroySkipped ==
    /\ life = "fail_destroy"
    /\ life' = "failed"
    /\ UNCHANGED <<lock, k, eu, inited, errGroup, priv, cdev, openCount, exclOpen, fd, tpc, oops, qspi>>

(* fme_dev_destroy: clear pdata->private under the lock, free the fme.     *)
FmeDevDestroy ==
    /\ life \in {"fail_destroy", "destroy"}
    /\ lock = NoThread
    /\ priv' = FALSE
    /\ life' = IF life = "fail_destroy" THEN "failed" ELSE "gone"
    /\ UNCHANGED <<lock, k, eu, inited, errGroup, cdev, openCount, exclOpen, fd, tpc, oops, qspi>>

(* Mutant: fme_remove destroys the fme before the feature uinit.          *)
FmeRemoveDestroyFirst ==
    /\ life = "live"
    /\ lock = NoThread
    /\ life' = "remove" /\ k' = UinitFrom /\ priv' = FALSE
    /\ UNCHANGED <<lock, eu, inited, errGroup, cdev, openCount, exclOpen, fd, tpc, oops, qspi>>

(* fme_remove: fpga_dev_feature_uinit, fpga_unregister_dev_ops, then      *)
(* fme_dev_destroy.  The platform core may call it while files are open.  *)
FmeRemove ==
    /\ life = "live"
    /\ life' = "remove" /\ k' = UinitFrom
    /\ UNCHANGED <<lock, eu, inited, errGroup, priv, cdev, openCount, exclOpen, fd, tpc, oops, qspi>>

(* fpga_unregister_dev_ops: no new open reaches fme_fops; files already   *)
(* open keep their file operations.                                        *)
UnregisterDevOps ==
    /\ life = "unregister"
    /\ cdev' = FALSE /\ life' = "destroy"
    /\ UNCHANGED <<lock, k, eu, inited, errGroup, priv, openCount, exclOpen, fd, tpc, oops, qspi>>

-----------------------------------------------------------------------------
(* Mutant: the O_EXCL open does not look at open_count.                    *)
UseExclBeginNoCheck(t) ==
    /\ exclOpen' = 1 /\ openCount' = openCount + 1
    /\ fd' = [fd EXCEPT ![t] = "excl"]

(* feature_dev_use_excl_begin, under the lock: -EBUSY if open at all.     *)
UseExclBegin(t) ==
    IF openCount # 0
      THEN UNCHANGED <<exclOpen, openCount, fd>>
      ELSE /\ exclOpen' = 1 /\ openCount' = openCount + 1
           /\ fd' = [fd EXCEPT ![t] = "excl"]

(* feature_dev_use_begin, under the lock: -EBUSY if opened exclusively.   *)
UseBegin(t) ==
    IF exclOpen # 0
      THEN UNCHANGED <<exclOpen, openCount, fd>>
      ELSE /\ openCount' = openCount + 1
           /\ fd' = [fd EXCEPT ![t] = "shared"]
           /\ UNCHANGED exclOpen

(* fme_open on a registered device, with or without O_EXCL.                *)
FmeOpen(t, excl) ==
    /\ cdev /\ fd[t] = "none" /\ tpc[t] = "idle"
    /\ lock = NoThread
    /\ IF excl THEN UseExclBegin(t) ELSE UseBegin(t)
    /\ UNCHANGED <<lock, life, k, eu, inited, errGroup, priv, cdev, tpc, oops, qspi>>

(* fme_release: __feature_dev_use_end under the lock (it clears excl_open *)
(* and drops open_count); the last close also quiesces the error          *)
(* feature's MSI-X block, which has no other state in this model.          *)
FmeRelease(t) ==
    /\ fd[t] # "none" /\ tpc[t] = "idle"
    /\ lock = NoThread
    /\ exclOpen' = 0 /\ openCount' = openCount - 1
    /\ fd' = [fd EXCEPT ![t] = "none"]
    /\ UNCHANGED <<lock, life, k, eu, inited, errGroup, priv, cdev, tpc, oops, qspi>>

(* fme_ioctl(FPGA_FME_GET_INFO) -> fme_ioctl_get_info: with argsz big      *)
(* enough it reads fme->capability through pdata->private under the lock. *)
FmeIoctlGetInfo(t) ==
    /\ fd[t] # "none" /\ tpc[t] = "idle"
    /\ lock = NoThread
    /\ oops' = (oops \/ ~priv)
    /\ UNCHANGED <<lock, life, k, eu, inited, errGroup, priv, cdev, openCount, exclOpen, fd, tpc, qspi>>

(* A write to an error attribute (clear_store, pcie0/1_errors_store, ...): *)
(* kernfs takes an active reference while the group is live, then the     *)
(* store waits for pdata->lock, does its register work and returns.        *)
ErrStoreEnter(t) ==
    /\ tpc[t] = "idle" /\ errGroup = "active"
    /\ tpc' = [tpc EXCEPT ![t] = "st_lock"]
    /\ UNCHANGED <<lock, life, k, eu, inited, errGroup, priv, cdev, openCount, exclOpen, fd, oops, qspi>>

ErrStoreLocked(t) ==
    /\ tpc[t] = "st_lock"
    /\ lock = NoThread
    /\ tpc' = [tpc EXCEPT ![t] = "idle"]
    /\ UNCHANGED <<lock, life, k, eu, inited, errGroup, priv, cdev, openCount, exclOpen, fd, oops, qspi>>

-----------------------------------------------------------------------------
Init ==
    /\ lock = NoThread
    /\ life = "dev_init" /\ k = 0 /\ eu = "none"
    /\ inited = {} /\ errGroup = "absent"
    /\ priv = FALSE /\ cdev = FALSE
    /\ openCount = 0 /\ exclOpen = 0
    /\ fd = [t \in Threads |-> "none"]
    /\ tpc = [t \in Threads |-> "idle"]
    /\ oops = FALSE
    /\ qrefs = 0 /\ qreg = FALSE

(* The steps of the probe / remove context.                                *)
RemoverStep ==
    \/ FmeDevInit \/ FeatureInit \/ RegisterDevOps
    \/ PlainUinit \/ QspiFlashUinit \/ ErrUinitLock \/ ErrUinitDeactivate \/ ErrUinitDrain
    \/ UinitDone \/ FmeDevDestroy \/ UnregisterDevOps

Next ==
    \/ RemoverStep
    \/ FmeRemove
    \/ \E t \in Threads :
          \/ \E excl \in BOOLEAN : FmeOpen(t, excl)
          \/ FmeRelease(t)
          \/ FmeIoctlGetInfo(t)
          \/ ErrStoreEnter(t)
          \/ ErrStoreLocked(t)

(* Once probe or remove has started it is carried on (mutex waiters are   *)
(* handed the lock, so strong fairness on the steps that need it), and a  *)
(* store that holds an active reference is carried on too.  When remove   *)
(* starts and whether users call in are not assumed.                       *)
Fairness ==
    /\ SF_vars(RemoverStep)
    /\ \A t \in Threads : SF_vars(ErrStoreLocked(t))

Spec == Init /\ [][Next]_vars /\ Fairness

-----------------------------------------------------------------------------
TypeOK ==
    /\ lock \in {NoThread, Remover}
    /\ life \in {"dev_init", "feat_init", "register", "live", "unwind",
                 "fail_destroy", "failed", "remove", "unregister", "destroy", "gone"}
    /\ k \in 0..NFeat + 1
    /\ eu \in {"none", "deactivate", "drain"}
    /\ inited \subseteq Feats
    /\ errGroup \in {"absent", "active", "draining"}
    /\ openCount \in 0..Cardinality(Threads) /\ exclOpen \in {0, 1}
    /\ fd \in [Threads -> {"none", "shared", "excl"}]
    /\ tpc \in [Threads -> {"idle", "st_lock"}]
    /\ (life \in {"unwind", "remove"}) => k \in 0..NFeat
    /\ qrefs \in 0..2 /\ qreg \in BOOLEAN

(* open_count counts the open files, and a file opened with O_EXCL is the *)
(* only open file (feature_dev_use_excl_begin / feature_dev_use_begin /    *)
(* __feature_dev_use_end across interleaved opens and closes).            *)
OpenAccounting ==
    /\ openCount = Cardinality(OpenFds)
    /\ exclOpen = 1 <=> \E t \in Threads : fd[t] = "excl"
    /\ \A t \in Threads : fd[t] = "excl" => OpenFds = {t}

(* After a failed probe, and after remove, nothing of the device is left: *)
(* no feature initialised, no error attributes, pdata->private cleared    *)
(* and the character device gone (fme_probe's unwinding, fme_remove).     *)
DetachedIsClean ==
    life \in {"failed", "gone"} =>
        /\ inited = {} /\ errGroup = "absent" /\ ~priv /\ ~cdev

(* A feature is initialised only while pdata->private is set: the feature *)
(* init and uinit callbacks (global_error_init/uinit) dereference it.     *)
FeaturesSeePrivate == inited # {} => priv

(* pdata->private is never dereferenced once it has been cleared:        *)
(* fme_ioctl_get_info reads fme->capability from it.                       *)
NoNullPrivateDeref == ~oops

(* remove, once started, finishes: global_error_uinit's teardown of the  *)
(* error attributes is not blocked forever by a store of those attributes *)
(* (clear_store and the other error stores take pdata->lock).              *)
RemoveCompletes == (life = "remove") ~> (life = "gone")

(* Once the QSPI flash feature is not initialised (never, or after        *)
(* qspi_flash_uinit) no reference to its child platform device is left,   *)
(* so the device is freed: device_find_child's reference is dropped.       *)
QspiChildReleased == QspiFeat \notin inited => qrefs = 0 /\ ~qreg
=============================================================================
