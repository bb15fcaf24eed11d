------------------------------ MODULE CounterMux ------------------------------
(***************************************************************************)
(* The global performance counters of the FPGA Management Engine           *)
(* (drivers/fpga/intel/fme-perf.c).  Three hardware domains (the cache     *)
(* channel, the fabric and the IOMMU/VT-d unit) each have a control        *)
(* register (event selector, freeze bit; the fabric one also a port       *)
(* filter) and a counter register that echoes the event code it latched.  *)
(* A counter read selects the event, polls until the echo matches          *)
(* (fpga_wait_register_field, at most Timeout+1 reads) and reads the       *)
(* count, all under the one device mutex pdata->lock.  The freeze stores   *)
(* and the fabric enable store read-modify-write the same control          *)
(* registers under the same lock.                                          *)
(*                                                                         *)
(* The count itself is abstracted to what it counts: the event code (and,  *)
(* for the fabric, the port scope) latched in the counter bank when the    *)
(* driver reads it.  The cache channel selector (cci_chsel) is left out:   *)
(* every cache event of the code is bound to one fixed channel.            *)
(***************************************************************************)
EXTENDS Naturals, FiniteSets, Sequences

CONSTANTS
    Threads,        \* kernel threads issuing sysfs reads and stores
    NoThread,       \* the lock owner when pdata->lock is free
    Timeout,        \* GPERF_TIMEOUT, in polls of 1 microsecond
    CacheEvents,    \* the cache event codes the attributes select
    FabEvents,      \* the fabric event codes the attributes select
    VtdBases,       \* the VT-d base event codes (AFU0 variants)
    Ports,          \* the child ids 0..PERF_MAX_PORT_NUM-1
    Root,           \* PERF_OBJ_ROOT_ID, the aggregate scope
    Domains,        \* the counter domains of the model: "cache", "fabric", "iommu"
    CacheBanksLatchTogether \* do ch_ctr0 and ch_ctr1 switch event at once?

ASSUME /\ NoThread \notin Threads
       /\ Timeout \in Nat
       /\ 0 \in CacheEvents /\ 0 \in FabEvents /\ 0 \in VtdBases
       /\ 0 \in Ports /\ Root \notin Ports
       /\ CacheBanksLatchTogether \in BOOLEAN
       /\ Domains \subseteq {"cache", "fabric", "iommu"}

VARIABLES
    lock,      \* owner of pdata->lock
    ctl,       \* ctl[d]: the control register of domain d
    echo,      \* echo[d][b]: event code latched in counter bank b of d
    pc,        \* pc[t]: where thread t is in its current call
    req,       \* req[t]: the arguments of t's current call
    snap,      \* snap[t]: t's local copy of a control register (ctl.csr)
    polls,     \* polls[t]: the loop variable `wait` of the poll loop
    got,       \* got[t]: what the counter registers t read so far count
    ret,       \* ret[t]: the count t's last completed call returned, if any
    intended   \* intended[d]: ctl[d] as the completed writes left it

vars == <<lock, ctl, echo, pc, req, snap, polls, got, ret, intended>>

Scopes == {Root} \cup Ports

(* enum gperf_vtd_events: the entry at index e + 1 is event code e.       *)
VtdEnum == <<[kind |-> "mem_rd", afu |-> 0], [kind |-> "mem_rd", afu |-> 1],
             [kind |-> "mem_wr", afu |-> 0], [kind |-> "mem_wr", afu |-> 1],
             [kind |-> "tlb_rd", afu |-> 0], [kind |-> "tlb_rd", afu |-> 1],
             [kind |-> "tlb_wr", afu |-> 0], [kind |-> "tlb_wr", afu |-> 1]>>

(* Mutant: the AFU id scaled by two, as if each AFU had its own pair.    *)
VtdEventScaled(base, id) == base + 2 * id

(* read_iommu_counter: the event of AFU id is base_event + pobj->id. *)
VtdEvent(base, id) == base + id

Events(d) ==
    CASE d = "cache"  -> CacheEvents
      [] d = "fabric" -> FabEvents
      [] d = "iommu"  -> {VtdEvent(b, i) : b \in VtdBases, i \in Ports}

(* ch_ctr0/ch_ctr1 for the cache, one counter register elsewhere. *)
Banks(d) == IF d = "cache" THEN {0, 1} ELSE {0}

(* Control register fields; filter/portId exist in fab_ctl only. *)
CtlReset == [event |-> 0, freeze |-> FALSE, filter |-> FALSE, portId |-> 0]
Ctl == [event : UNION {Events(d) : d \in Domains}, freeze : BOOLEAN,
        filter : BOOLEAN, portId : Ports]

NoReq == [op |-> "none", dom |-> "cache", ev |-> 0, scope |-> Root,
          frz |-> FALSE, base |-> 0, afu |-> 0]
NoRet == [op |-> "none", st |-> "none", dom |-> "cache", ev |-> 0,
          scope |-> Root, counted |-> {}]

(* The scope the fabric counter currently counts for. *)
CountingScope == IF ctl["fabric"].filter THEN ctl["fabric"].portId ELSE Root

-----------------------------------------------------------------------------
(* Mutant: the port_filter test dropped, only the port id compared.      *)
FabricPobjIsEnabledIdOnly(c, s) == s = c.portId

(* fabric_pobj_is_enabled: is scope s the active filter of fab_ctl c?      *)
FabricPobjIsEnabled(c, s) ==
    IF ~c.filter THEN s = Root ELSE s = c.portId

(* Mutant: fab_ctl built from zero instead of read-modify-written.         *)
EnabledCtlNoRead(c, s) ==
    IF s = Root THEN [CtlReset EXCEPT !.filter = FALSE]
                ELSE [CtlReset EXCEPT !.filter = TRUE, !.portId = s]

(* fab_enable_store: the new fab_ctl when scope s is enabled.              *)
EnabledCtl(c, s) ==
    IF s = Root THEN [c EXCEPT !.filter = FALSE]
                ELSE [c EXCEPT !.filter = TRUE, !.portId = s]

(* Return r to the caller; the call's locals go out of scope.             *)
Done(t, r) ==
    /\ pc' = [pc EXCEPT ![t] = "idle"]
    /\ ret' = [ret EXCEPT ![t] = r]
    /\ req' = [req EXCEPT ![t] = NoReq]
    /\ snap' = [snap EXCEPT ![t] = CtlReset]
    /\ polls' = [polls EXCEPT ![t] = 0]
    /\ got' = [got EXCEPT ![t] = {}]

-----------------------------------------------------------------------------
(* read_cache_counter, up to the read of ch_ctl: take the lock and read   *)
(* the control register.                                                   *)
ReadCacheCounter(t, e) ==
    /\ pc[t] = "idle" /\ lock = NoThread
    /\ lock' = t
    /\ req' = [req EXCEPT ![t] = [NoReq EXCEPT !.op = "read", !.dom = "cache",
                                               !.ev = e]]
    /\ snap' = [snap EXCEPT ![t] = ctl["cache"]]
    /\ pc' = [pc EXCEPT ![t] = "rd_select"]
    /\ UNCHANGED <<ctl, echo, polls, got, ret, intended>>

(* read_iommu_counter, up to the read of vtd_ctl.                          *)
ReadIommuCounter(t, base, id) ==
    /\ pc[t] = "idle" /\ lock = NoThread
    /\ lock' = t
    /\ req' = [req EXCEPT ![t] = [NoReq EXCEPT !.op = "read", !.dom = "iommu",
                                               !.ev = VtdEvent(base, id),
                                               !.base = base, !.afu = id]]
    /\ snap' = [snap EXCEPT ![t] = ctl["iommu"]]
    /\ pc' = [pc EXCEPT ![t] = "rd_select"]
    /\ UNCHANGED <<ctl, echo, polls, got, ret, intended>>

(* read_fabric_counter for scope s, up to the read of fab_ctl: under the  *)
(* lock, a scope that is not the active filter reads as zero.              *)
ReadFabricCounter(t, e, s) ==
    /\ pc[t] = "idle" /\ lock = NoThread
    /\ IF FabricPobjIsEnabled(ctl["fabric"], s)
         THEN /\ lock' = t
              /\ req' = [req EXCEPT ![t] = [NoReq EXCEPT !.op = "read",
                                  !.dom = "fabric", !.ev = e, !.scope = s]]
              /\ snap' = [snap EXCEPT ![t] = ctl["fabric"]]
              /\ pc' = [pc EXCEPT ![t] = "rd_select"]
              /\ UNCHANGED <<polls, got, ret>>
         ELSE /\ Done(t, NoRet)
              /\ UNCHANGED lock
    /\ UNCHANGED <<ctl, echo, intended>>

(* Mutant: the control register written from zero with only the event set. *)
ReadSelectFromReset(t) ==
    LET d == req[t].dom IN
    /\ pc[t] = "rd_select"
    /\ ctl' = [ctl EXCEPT ![d] = [CtlReset EXCEPT !.event = req[t].ev]]
    /\ intended' = [intended EXCEPT ![d].event = req[t].ev]
    /\ polls' = [polls EXCEPT ![t] = 0]
    /\ pc' = [pc EXCEPT ![t] = "rd_poll"]
    /\ UNCHANGED <<lock, echo, req, snap, got, ret>>

(* Write the control register back with the requested event code.         *)
ReadSelect(t) ==
    LET d == req[t].dom IN
    /\ pc[t] = "rd_select"
    /\ ctl' = [ctl EXCEPT ![d] = [snap[t] EXCEPT !.event = req[t].ev]]
    /\ intended' = [intended EXCEPT ![d].event = req[t].ev]
    /\ polls' = [polls EXCEPT ![t] = 0]
    /\ pc' = [pc EXCEPT ![t] = "rd_poll"]
    /\ UNCHANGED <<lock, echo, req, snap, got, ret>>

(* Mutant: the event is not confirmed before the count is read.           *)
EventConfirmedNoWait(d, e) == TRUE

(* The comparison of fpga_wait_register_field: the echoed event code of   *)
(* the (first) counter register against the requested one.                 *)
EventConfirmed(d, e) == echo[d][0] = e

(* Mutant: the poll interval passed as 0.                                  *)
NextWaitNoInterval(w) == w

(* wait += _invl, with _invl = 1.                                          *)
NextWait(w) == w + 1

(* Mutant: one poll more than the loop allows.                             *)
InLoopOffByOne(w) == w <= Timeout + 1

(* for (; wait <= _timeout; ...).                                          *)
InLoop(w) == w <= Timeout

(* One iteration of fpga_wait_register_field (polls[t] is its `wait`);    *)
(* when the loop ends unmatched the caller unlocks and returns -ETIMEDOUT. *)
ReadPoll(t) ==
    LET d == req[t].dom IN
    /\ pc[t] = "rd_poll"
    /\ IF EventConfirmed(d, req[t].ev)
         THEN /\ pc' = [pc EXCEPT ![t] = "rd_ctr0"]
              /\ UNCHANGED <<lock, req, snap, polls, got, ret>>
         ELSE IF InLoop(NextWait(polls[t]))
           THEN /\ polls' = [polls EXCEPT ![t] = NextWait(@)]
                /\ UNCHANGED <<lock, pc, req, snap, got, ret>>
           ELSE /\ lock' = NoThread
                /\ Done(t, NoRet)
    /\ UNCHANGED <<ctl, echo, intended>>

(* read_cache_counter: ctr0 = readq(ch_ctr0).                              *)
ReadCacheCtr0(t) ==
    /\ pc[t] = "rd_ctr0" /\ req[t].dom = "cache"
    /\ got' = [got EXCEPT ![t] = {<<echo["cache"][0], Root>>}]
    /\ pc' = [pc EXCEPT ![t] = "rd_ctr1"]
    /\ UNCHANGED <<lock, ctl, echo, req, snap, polls, ret, intended>>

(* ctr1 = readq(ch_ctr1); the count is ctr0 + ctr1; unlock.                *)
ReadCacheCtr1(t) ==
    /\ pc[t] = "rd_ctr1"
    /\ lock' = NoThread
    /\ Done(t, [NoRet EXCEPT !.op = "read", !.st = "ok", !.dom = "cache",
                !.ev = req[t].ev,
                !.counted = got[t] \cup {<<echo["cache"][1], Root>>}])
    /\ UNCHANGED <<ctl, echo, intended>>

(* read_iommu_counter: ctr = readq(vtd_ctr); unlock.                       *)
ReadVtdCtr(t) ==
    /\ pc[t] = "rd_ctr0" /\ req[t].dom = "iommu"
    /\ lock' = NoThread
    /\ Done(t, [NoRet EXCEPT !.op = "read", !.st = "ok", !.dom = "iommu",
                !.ev = req[t].ev, !.counted = {<<echo["iommu"][0], Root>>}])
    /\ UNCHANGED <<ctl, echo, intended>>

(* read_fabric_counter: ctr = readq(fab_ctr); unlock.                      *)
ReadFabCtr(t) ==
    /\ pc[t] = "rd_ctr0" /\ req[t].dom = "fabric"
    /\ lock' = NoThread
    /\ Done(t, [NoRet EXCEPT !.op = "read", !.st = "ok", !.dom = "fabric",
                !.ev = req[t].ev, !.scope = req[t].scope,
                !.counted = {<<echo["fabric"][0], CountingScope>>}])
    /\ UNCHANGED <<ctl, echo, intended>>

-----------------------------------------------------------------------------
(* The freeze stores: lock, read the domain's control register ...         *)
FreezeBegin(t, d, s) ==
    /\ pc[t] = "idle" /\ lock = NoThread
    /\ lock' = t
    /\ req' = [req EXCEPT ![t] = [NoReq EXCEPT !.op = "freeze", !.dom = d,
                                               !.frz = s]]
    /\ snap' = [snap EXCEPT ![t] = ctl[d]]
    /\ pc' = [pc EXCEPT ![t] = "frz_write"]
    /\ UNCHANGED <<ctl, echo, polls, got, ret, intended>>

FreezeStore(t, s) == FreezeBegin(t, "cache", s)
VtdFreezeStore(t, s) == FreezeBegin(t, "iommu", s)
FabFreezeStore(t, s) == FreezeBegin(t, "fabric", s)

(* ... set the freeze bit, write it back and unlock.                       *)
FreezeEnd(t) ==
    LET d == req[t].dom IN
    /\ pc[t] = "frz_write"
    /\ ctl' = [ctl EXCEPT ![d] = [snap[t] EXCEPT !.freeze = req[t].frz]]
    /\ intended' = [intended EXCEPT ![d].freeze = req[t].frz]
    /\ lock' = NoThread
    /\ Done(t, NoRet)
    /\ UNCHANGED echo

-----------------------------------------------------------------------------
(* fab_enable_store for scope s: the "already enabled" test reads fab_ctl *)
(* without the lock and returns at once if s is the active filter.         *)
FabEnableStore(t, s) ==
    /\ pc[t] = "idle"
    /\ IF FabricPobjIsEnabled(ctl["fabric"], s)
         THEN Done(t, NoRet)
         ELSE /\ req' = [req EXCEPT ![t] = [NoReq EXCEPT !.op = "enable",
                                  !.dom = "fabric", !.scope = s]]
              /\ pc' = [pc EXCEPT ![t] = "en_lock"]
              /\ UNCHANGED <<snap, polls, got, ret>>
    /\ UNCHANGED <<lock, ctl, echo, intended>>

(* Lock and read fab_ctl.                                                  *)
FabEnableLock(t) ==
    /\ pc[t] = "en_lock" /\ lock = NoThread
    /\ lock' = t
    /\ snap' = [snap EXCEPT ![t] = ctl["fabric"]]
    /\ pc' = [pc EXCEPT ![t] = "en_write"]
    /\ UNCHANGED <<ctl, echo, req, polls, got, ret, intended>>

(* Set the port filter (or clear it for the root scope), write, unlock.    *)
FabEnableWrite(t) ==
    /\ pc[t] = "en_write"
    /\ ctl' = [ctl EXCEPT !["fabric"] = EnabledCtl(snap[t], req[t].scope)]
    /\ intended' = IF req[t].scope = Root
                     THEN [intended EXCEPT !["fabric"].filter = FALSE]
                     ELSE [intended EXCEPT !["fabric"].filter = TRUE,
                                           !["fabric"].portId = req[t].scope]
    /\ lock' = NoThread
    /\ Done(t, NoRet)
    /\ UNCHANGED echo

-----------------------------------------------------------------------------
(* The counter hardware latches the selected event code into a group of  *)
(* banks, at a time the driver does not control.                           *)
LatchGroups(d) ==
    IF CacheBanksLatchTogether THEN {Banks(d)} ELSE {{b} : b \in Banks(d)}

HwLatch(d, bs) ==
    /\ \E b \in bs : echo[d][b] # ctl[d].event
    /\ echo' = [echo EXCEPT ![d] = [b \in Banks(d) |->
                    IF b \in bs THEN ctl[d].event ELSE echo[d][b]]]
    /\ UNCHANGED <<lock, ctl, pc, req, snap, polls, got, ret, intended>>

-----------------------------------------------------------------------------
Init ==
    /\ lock = NoThread
    /\ ctl = [d \in Domains |-> CtlReset]
    /\ echo = [d \in Domains |-> [b \in Banks(d) |-> 0]]
    /\ pc = [t \in Threads |-> "idle"]
    /\ req = [t \in Threads |-> NoReq]
    /\ snap = [t \in Threads |-> CtlReset]
    /\ polls = [t \in Threads |-> 0]
    /\ got = [t \in Threads |-> {}]
    /\ ret = [t \in Threads |-> NoRet]
    /\ intended = ctl

(* The steps a thread takes while it holds the lock.                       *)
Locked(t) ==
    \/ ReadSelect(t) \/ ReadPoll(t)
    \/ ReadCacheCtr0(t) \/ ReadCacheCtr1(t) \/ ReadVtdCtr(t) \/ ReadFabCtr(t)
    \/ FreezeEnd(t) \/ FabEnableWrite(t)

Next ==
    \/ \E t \in Threads :
          \/ "cache" \in Domains /\ \E e \in CacheEvents : ReadCacheCounter(t, e)
          \/ "iommu" \in Domains /\ \E b \in VtdBases, i \in Ports :
                                       ReadIommuCounter(t, b, i)
          \/ "fabric" \in Domains /\ \E e \in FabEvents, s \in Scopes :
                                        ReadFabricCounter(t, e, s)
          \/ "cache" \in Domains /\ \E s \in BOOLEAN : FreezeStore(t, s)
          \/ "iommu" \in Domains /\ \E s \in BOOLEAN : VtdFreezeStore(t, s)
          \/ "fabric" \in Domains /\ \E s \in BOOLEAN : FabFreezeStore(t, s)
          \/ "fabric" \in Domains /\ \E s \in Scopes : FabEnableStore(t, s)
          \/ FabEnableLock(t)
          \/ Locked(t)
    \/ \E d \in Domains : \E bs \in LatchGroups(d) : HwLatch(d, bs)

(* A thread holding the mutex is scheduled again (weak fairness); callers *)
(* and the hardware latch are not assumed to act.                          *)
Fairness == \A t \in Threads : WF_vars(Locked(t))

Spec == Init /\ [][Next]_vars /\ Fairness

-----------------------------------------------------------------------------
TypeOK ==
    /\ lock \in Threads \cup {NoThread}
    /\ ctl \in [Domains -> Ctl]
    /\ \A d \in Domains : echo[d] \in [Banks(d) -> Events(d)]
    /\ pc \in [Threads -> {"idle", "rd_select", "rd_poll", "rd_ctr0", "rd_ctr1",
                           "frz_write", "en_lock", "en_write"}]
    /\ polls \in [Threads -> 0..Timeout]
    /\ intended \in [Domains -> Ctl]

(* A counter read that returns a value returns the count of the event it  *)
(* selected, and for a fabric scope the count under that scope's filter:  *)
(* read_*_counter's select, confirm and read under pdata->lock.            *)
ReadReturnsRequestedCount ==
    \A t \in Threads :
        ret[t].op = "read" /\ ret[t].st = "ok"
            => ret[t].counted = {<<ret[t].ev, ret[t].scope>>}

(* No read-modify-write of a control register undoes another: ctl holds   *)
(* every field as the last completed store or select wrote it (freeze_    *)
(* store, fab_enable_store and the counter selects share the registers).  *)
NoLostUpdate == ctl = intended

(* A thread that holds pdata->lock releases it: the bounded poll loop     *)
(* caps the lock hold time even if the hardware never echoes the event.   *)
LockReleased == \A t \in Threads : (lock = t) ~> (lock # t)

(* The control registers as a caller can tell them: while a reader holds  *)
(* the lock between its select and its return, the selection it wrote is  *)
(* not yet its effect (the register as it read it).                         *)
AbsCtl ==
    [d \in Domains |->
        IF \E t \in Threads : lock = t /\ req[t].op = "read" /\ req[t].dom = d
                              /\ pc[t] \in {"rd_poll", "rd_ctr0", "rd_ctr1"}
          THEN snap[CHOOSE t \in Threads : lock = t]
          ELSE ctl[d]]

Atomic == INSTANCE AtomicCounters
    WITH ctl <- AbsCtl,
         EventCodes <- UNION {Events(d) : d \in Domains}

(* The counter attributes are linearizable: every behaviour of the select, *)
(* poll and read steps, the freeze and enable read-modify-writes and the   *)
(* hardware latch is, seen through the control registers and the values  *)
(* returned, one of the atomic counter specification: each call takes    *)
(* effect at one point, a read returns exactly the count of what it        *)
(* selected for its scope, and a fabric read refuses exactly the scopes   *)
(* that are not the active filter.                                           *)
CountersRefineAtomic == Atomic!Spec

(* An IOMMU counter read counts its own AFU's event: read_iommu_counter   *)
(* selects base_event + pobj->id, where base_event is the AFU0 entry of    *)
(* gperf_vtd_events its attribute names (VTD_SHOW) and pobj->id the child  *)
(* id create_perf_iommu_obj gave; that code fits vtd_evtcode (4 bits) and  *)
(* is the enum's entry of the same transaction kind for that AFU, not     *)
(* another kind's or AFU's (the enum interleaves AFU0 and AFU1).           *)
VtdEventDecodes ==
    \A t \in Threads :
        req[t].op = "read" /\ req[t].dom = "iommu" =>
            LET e == req[t].ev IN
            /\ e < 2^4
            /\ e + 1 \in DOMAIN VtdEnum
            /\ VtdEnum[e + 1] = [kind |-> VtdEnum[req[t].base + 1].kind, afu |-> req[t].afu]

=============================================================================
