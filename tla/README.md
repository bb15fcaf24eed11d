# TLA+ models of the Intel FPGA FME driver

These modules model the FPGA Management Engine (FME) platform driver in
`src/drivers/fpga/intel/` (`fme-main.c`, `fme-perf.c`, `fme-error.c`) and
the register layouts and helpers in `src/include/feature-dev.h`. The TLC
configurations check the interleavings of user threads that write sysfs
attributes and ioctls, of device probe and remove, and of the hardware that
latches events and errors.

## The system and how its parts interact

- **Device lifecycle** (`fme-main.c`). `fme_probe` runs `fme_dev_init`,
  initialises every sub-feature of `fme_feature_drvs` (header, thermal,
  power, global error, QSPI flash, HSSI), and registers the character device.
  Each failure unwinds the steps before it. `fme_remove` uninitialises the
  features, unregisters the device and clears `pdata->private`.
  `fme_open` and `fme_release` count opens through
  `feature_dev_use_(excl_)begin/end`.
- **Per-device lock.** Every store, every counter read and every init or
  uinit step serialises on `pdata->lock`. sysfs stores run inside a kernfs
  active reference. `sysfs_remove_groups` waits for those references to
  drain.
- **Global performance counters** (`fme-perf.c`). The cache, IOMMU and
  fabric counters are multiplexed. A read selects the event by a
  read-modify-write of a control register, polls (`fpga_wait_register_field`)
  until the hardware echoes the event code, and then reads the counter. The
  freeze and enable stores read-modify-write the same control registers.
  The attributes live in a tree of `perf_object` kobjects, built by
  `fme_perf_init` and destroyed children-first.
- **Global errors** (`fme-error.c`). Errors are cleared by compare-and-clear.
  The user writes back the value they read. The store masks the class,
  re-reads the status, and clears it with write-1-to-clear only if the two
  still agree. It then restores the default mask.
- **Thermal and power thresholds** (`fme-main.c`). Five stores
  read-modify-write fields of two shared 64-bit registers. The thermal ones
  refuse to write while `lock_bit` is set.
- **ioctl** (`fme_ioctl`). Fixed commands are served directly. Any other
  command goes down the sub-features' handlers until one does not return
  `-ENODEV`.

## Modules

| Module | Models | State ↔ code |
|---|---|---|
| `CounterMux` (+`MCCounterMux`) | `read_cache_counter`, `read_iommu_counter`, `read_fabric_counter`, `freeze_store`, `vtd_freeze_store`, `fab_freeze_store`, `fab_enable_store`, `fpga_wait_register_field` | Control registers as records of fields; the hardware's latched event per bank; each thread's pc, request and poll counter `wait`. Each read is split into the steps between which another thread can run: select, each poll iteration, ctr0, ctr1. |
| `PerfTree` | `fme_perf_init`, `create_perf_obj`, `create_perf_iommu_obj/fabric_obj/dev`, `destroy_perf_obj`, `fme_perf_uinit`, `perf_obj_attr_show/store` | The kobject list (a sequence built by `list_add` at the head), each node's state (allocated, added, has groups, deactivated, put), and readers holding active references. |
| `ErrorBank` (+`MCErrorBank`) | `errors_show` and friends, `clear_store`, `pcie0/1_errors_store`, `warning_errors_store`, `inject_error_store`, `fme_error_enable` | Status registers and mask registers as sets of bits. A ghost `gen` counts each bit's occurrences, so a clear of a re-latched error can be told apart. The stores share the lock, mask and compare steps; `clear_store`'s write and exit (`StoreWrite`, `StoreExit`: first/next cleared, `FME_ERROR0_MASK_DEFAULT` restored) and those of the other classes (`ClassStoreWrite`, `ClassStoreExit`: `0UL` restored) are separate actions. |
| `ThermalPower` (+`MCThermalPower`) | `thermal_threshold1/2_store`, `thermal_threshold1_policy_store`, `pwr_threshold1/2_store` | The two registers as field maps. Bit fields truncate (`v % 2^width`). A ghost `last` holds the last accepted value per attribute. |
| `FeatureDev` (+`MCFeatureDev`) | `fme_probe`, `fme_remove`, `fme_dev_init/destroy`, feature init/uinit (`global_error_init/uinit`, `qspi_flash_init/uinit`, plain ones), `fme_open/release`, `fme_ioctl_get_info`, an error store racing uinit | `pdata->private`, the features initialised so far, the lock, open/exclusive counts, kernfs active references of the error device, and the QSPI child's registration and reference count. |
| `SysfsGroups` | `sysfs_create_groups`, `sysfs_remove_groups` (`backport.c`) | The array length (or `Null`), the set of groups on the kobject, the loop index `i`, the error, a pc, and a ghost `absent` set when a group not on the kobject is removed. One step per loop iteration; the rollback `while (--i >= 0)` is its own action. |
| `AtomicCounters` | what the counter attributes promise | Each read, freeze or enable is one step on the domains' control registers; a read returns the count of the event and scope it selected. |
| `AtomicErrors` | what the error attributes promise | The hardware latches an error its default mask lets through; a clear of value `v` takes effect in one step only when the status is `v`, removing `v` (and first/next for the FME error register); an injection writes a value within `FME_RAS_ERROR_INJ_MASK`. |
| `AtomicThresholds` | what the threshold attributes promise | Each threshold store is one step that either changes nothing or sets exactly its fields of the shared register, refusing values above the documented maximum and the thermal thresholds while `lock_bit` is set. |
| `IoctlDispatch` (+`MCIoctlDispatch`) | `fme_ioctl` with `check_extension`, `get_info`, `release/assign_port`, `config_port` checks | The handler table is a constant chosen in Init over all tables. The last call and its result are recorded. `ForEachFeature` is a RECURSIVE operator checked against a reference definition (`RefDispatch`). |

`fpga_dev_feature_init/uinit`, `fpga_register/unregister_dev_ops` and the
kernfs active-reference protocol are not in this tree. They are modelled
from their contracts and marked `spec_modelled` in `PROJECT.json`.

## Refinements

Three components are checked against an abstract specification of what they
promise, by `INSTANCE ... WITH` and the abstract `Spec` as a `PROPERTY`.

- `CounterMux` implements `AtomicCounters` (`CountersRefineAtomic`). The
  mapping `AbsCtl` hides a read in progress: while the lock holder is between
  its select and its return, the abstract control register is the value it
  read before the select (`snap`), so the whole read appears as one step at
  its return. A read that times out still takes effect (the event stays
  selected), as in the code.
- `ThermalPower` implements `AtomicThresholds` (`ThresholdsRefineAtomic`).
  The registers map to themselves; every store, refused or accepted, is one
  abstract step. A store that accepted a value above its documented maximum, or that
  changed another field of the shared register, would not be an abstract
  step.
- `ErrorBank` implements `AtomicErrors` (`ErrorsRefineAtomic`). Status
  registers, first/next and the injection register map to themselves; the
  lock, the masks and the snapshots are hidden. A successful store takes
  effect at its write back (an abstract `Clear(c, v)` with `v` the status at
  that step), a refused one and a read are stuttering steps, and a hardware
  latch must be one the default mask lets through. If the store did not mask
  the class before its compare, a latch between compare and write back would
  leave the status non-empty after the clear, which no abstract step does.
  The ABA case (an error cleared and re-latched between the user's read and
  the store) is a legal abstract behaviour; `err_aba` checks it separately.

## Runs

| Run | Expect | What it shows |
|---|---|---|
| `mux_safety` | pass | Two threads reading cache and fabric counters and writing freeze/enable: each read returns the count of the event and scope it selected (`ReadReturnsRequestedCount`), no control-register read-modify-write loses another's field (`NoLostUpdate`), and the whole is an implementation of `AtomicCounters` (`CountersRefineAtomic`). |
| `mux_live` | pass | With hardware that may never echo the event, the bounded poll always ends and the lock is released (`LockReleased`); every IOMMU read selects the event code that `enum gperf_vtd_events` assigns to its kind and its own AFU (`VtdEventDecodes`: `read_iommu_counter` computes `base_event + pobj->id`, which relies on the enum interleaving AFU0 and AFU1 and on the 4-bit `vtd_evtcode`); and the IOMMU reads and `vtd_freeze_store`, which both read-modify-write `vtd_ctl`, never undo each other's field (`NoLostUpdate`, which `mux_safety` checks for `ch_ctl` and `fab_ctl`). The IOMMU base events are `VTD_AFU0_MEM_RD_TRANS` and `VTD_AFU0_TLB_WR_TRANS`, the first and last pair of the enum; the second reaches code 7, the top of what the base plus the AFU id can produce. |
| `fd_lifecycle` | pass | Probe with every failure and its unwinding, remove, opens and closes: open accounting is exact (`OpenAccounting`), a failed or removed device leaves nothing behind (`DetachedIsClean`), and features never see a NULL private while initialised (`FeaturesSeePrivate`). |
| `fd_null` | violation | GET_INFO on a file still open after remove dereferences the NULL `pdata->private`. |
| `fd_drain` | violation | `global_error_uinit` holds `pdata->lock` across `sysfs_remove_groups`, which waits for an error store blocked on that lock: remove never completes. |
| `fd_qspi` | violation | `qspi_flash_uinit` never drops the reference `device_find_child` took. |
| `ioctl_dispatch` | pass | For every table of 3 handlers, the dispatch equals the reference chain of responsibility, and a port request reaches `config_port` exactly when its argument block and port are valid. |
| `err_clear` | pass | Masks are restored on every exit path (`MaskRestoredWhenUnlocked`), and the stores implement `AtomicErrors` (`ErrorsRefineAtomic`). |
| `err_aba` | violation | Comparing values cannot tell a re-latched error from the one the user read: a user clears an occurrence they never saw. |
| `perf_tree` | pass | Every creation failure is fully unwound, destruction is the exact reverse of creation (so children go before parents), and teardown completes while readers are active. |
| `thermal_power` | pass | Each field holds the last accepted value despite the shared-register read-modify-writes, `lock_bit` freezes the thermal thresholds (the policy store writes them back unchanged), and the stores implement `AtomicThresholds` (`ThresholdsRefineAtomic`). |
| `sysfs_groups` | pass | With six groups, any one of which may fail: `sysfs_create_groups` leaves all groups or none (`CreateAllOrNothing`), and neither its rollback nor `sysfs_remove_groups` removes a group that is not there (`NoRemoveOfAbsentGroup`). |

The findings are stated in `PROJECT.json` ("findings"). Three are code bugs:
the deadlock in `global_error_uinit`, the NULL dereference in GET_INFO after
remove, and the QSPI reference leak. One is a gap in the stated behaviour:
the ABA in compare-and-clear.

`MCCounterMuxBanks.cfg` is a configuration of `MCCounterMux` with
`CacheBanksLatchTogether = FALSE`. It is not one of the runs. It reproduces
the case the code leaves open: `read_cache_counter` confirms the event only
in `ch_ctr0` and then adds `ch_ctr1`, so if the two banks could switch at
different times the sum would include a count of the previous event
(`ReadReturnsRequestedCount` fails). Whether they can is a property of the
hardware that this tree does not state; the hazards list records it.

Every property of a passing run has a mutant in `PROJECT.json`. The mutant
is a plausible bug of the mapped code, defined next to it (`...NoRead`,
`...OffByOne`, `...Locked`, ...), and TLC finds the property violated when
the mutant replaces the code.

## Bounds

- **Threads.** Two user threads, three in `fd_lifecycle`. Every race checked
  involves at most two users plus the remover or the hardware.
- **Poll timeout.** `Timeout` 1 or 2 stands in for `GPERF_TIMEOUT` (30). The
  loop's shape (`wait <= timeout`) is kept, so an off-by-one shows at any
  bound.
- **VT-d events.** Two base events of the four, the first and last pair of
  `enum gperf_vtd_events` (codes 0/1 and 6/7). With all four bases the run
  takes about four minutes; the two middle pairs add no new position in the
  enum or the 4-bit field.
- **Features and ports.** Three features, with the error and QSPI features
  in distinct positions, so that unwinding crosses both. Two ports.
- **Error model.** Two error bits per class and two occurrences per bit,
  enough for a clear, a re-latch and a second clear. The FME class and the
  warning class are checked; a third class (pcie0) takes the warning class's
  actions and makes the run exceed ten minutes.
- **sysfs groups.** Arrays of 0 to 6 groups and NULL; a failure at any index
  is enabled, so the rollback runs from every depth.
- **Threshold inputs.** `{0, 100, 101, 128, ParseFail}` hit each boundary:
  zero (enable off), the thermal maximum and one past it, a value past the
  7-bit width, and a parse error. `PWR_THRESHOLD_MAX` is 127 and 128 is
  refused.

Symmetry over threads is used only in safety runs.

## Fairness

Waiters on `pdata->lock` are eventually handed the mutex, modelled as strong
fairness on lock acquisition. A thread holding the lock keeps running, so
steps taken under the lock are weakly fair. The hardware is not fair: it may
never echo an event. This is why `LockReleased` rests on the poll bound and
not on the hardware.

## Not modelled

- `pcie_check.c` only logs, and its callers, which choose the feature id,
  are not in this tree (`spec.md` excludes physical enumeration). The
  `WARN_ON` of an out-of-range id does not return, so the read past the
  table is recorded as a hazard without a property. The one thing a model
  could check is constant: the tables have `FME_FEATURE_ID_MAX` and
  `PORT_FEATURE_ID_MAX` entries in enum order (the port PR and UAFU entries
  are all zero, so those features always log a failed check). Checking that
  needs a run of its own, and every run of the project's budget checks a
  stateful component; merging the two counter runs to free one takes TLC
  more than twenty minutes.
- `backport.h` only declares attribute macros.
- `fpga_port_enable/disable/reset` in `feature-dev.h` call
  `__fpga_port_enable/disable`, which are not in this tree, and nothing in
  this tree calls them.
- The read-only `*_show` attributes change no state.
- The MSI-X reset on the last close calls `fpga_msix_set_block` with
  `ctx_num`, neither of which is defined in this tree, so the close is
  modelled without it.
- What writing back the threshold status bits does is undefined here.

The hazards list in `PROJECT.json` records the out-of-range feature id and
the threshold status write-back.

Later work could add a run with the pcie0/pcie1 classes in `ErrorBank`
alongside the FME class, if a smaller bit model keeps it within minutes.
