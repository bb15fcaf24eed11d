------------------------------- MODULE PerfTree -------------------------------
(***************************************************************************)
(* The tree of perf objects of the FME global performance feature          *)
(* (drivers/fpga/intel/fme-perf.c): fme_perf_init builds the "perf" root, *)
(* then, if the capability register has iommu_support, an "iommu" node    *)
(* with children afu0..afuN-1, then a "fabric" node with children          *)
(* port0..portN-1.  Each node is a kobject with attribute groups, made by *)
(* create_perf_obj in three steps that can each fail (kzalloc,             *)
(* kobject_init_and_add, sysfs_create_groups).  Any failure after the     *)
(* root exists destroys the whole tree built so far; fme_perf_uinit       *)
(* destroys it too.  destroy_perf_obj is recursive: the children of a     *)
(* node, in list order, then the node.  list_add inserts at the head.     *)
(*                                                                         *)
(* Readers read the attributes of live objects meanwhile: kernfs holds an *)
(* active reference on the object's attributes for the read, and the      *)
(* counter read takes pdata->lock (the protocol itself is CounterMux's).  *)
(* sysfs_remove_groups stops new reads of the object and waits for the    *)
(* running ones.  fme_perf_uinit and the unwinding of fme_perf_init do    *)
(* not hold pdata->lock.                                                   *)
(***************************************************************************)
EXTENDS Naturals, Sequences, SequencesExt

CONSTANTS
    PortNum,    \* PERF_MAX_PORT_NUM
    Root,       \* PERF_OBJ_ROOT_ID
    Readers,    \* threads reading perf attributes through sysfs
    NoThread    \* the owner of pdata->lock when it is free

ASSUME PortNum \in Nat /\ Root \notin Nat /\ NoThread \notin Readers

NoParent == <<"none", Root>>
PerfDev == <<"perf", Root>>
IommuTop == <<"iommu", Root>>
FabricTop == <<"fabric", Root>>

(* One create_perf_obj call: the node it makes and the parent it is      *)
(* linked under.                                                           *)
Make(n, p) == [node |-> n, parent |-> p]

(* create_perf_dev.                                                        *)
PerfDevPlan == <<Make(PerfDev, NoParent)>>

(* create_perf_iommu_obj: nothing unless iommu_support; else the iommu    *)
(* node, then "afu"i for i in 0..PERF_MAX_PORT_NUM-1.                       *)
IommuPlan(support) ==
    IF ~support THEN <<>>
    ELSE <<Make(IommuTop, PerfDev)>>
         \o [i \in 1..PortNum |-> Make(<<"afu", i - 1>>, IommuTop)]

(* create_perf_fabric_obj: the fabric node, then "port"i.                  *)
FabricPlan ==
    <<Make(FabricTop, PerfDev)>>
    \o [i \in 1..PortNum |-> Make(<<"port", i - 1>>, FabricTop)]

(* fme_perf_init's order of creation.                                      *)
Plan(support) == PerfDevPlan \o IommuPlan(support) \o FabricPlan

Nodes == {Plan(TRUE)[i].node : i \in 1..Len(Plan(TRUE))}

VARIABLES
    iommu,      \* the iommu_support capability bit
    pc,         \* where fme_perf_init / fme_perf_uinit is
    i,          \* the create_perf_obj call of Plan in progress
    live,       \* nodes whose kobject is in the sysfs tree
    children,   \* children[n]: the children list of n
    pending,    \* the nodes a destroy_perf_obj in progress has left to put
    created,    \* the nodes created, in order (ghost)
    destroyed,  \* the nodes destroyed, in order (ghost)
    attrs,      \* nodes whose attribute groups are in sysfs
    dying,      \* the node whose attributes are being removed, if any
    lock,       \* owner of pdata->lock
    rd,         \* rd[t]: the node reader t holds an active reference on
    rpc         \* rpc[t]: "idle", "wait" (for the lock) or "locked"

tree == <<iommu, pc, i, live, children, pending, created, destroyed>>
readers == <<rd, rpc>>
vars == <<tree, attrs, dying, lock, readers>>

NoNode == <<"none", Root>>

Cur == Plan(iommu)[i]

-----------------------------------------------------------------------------
(* Mutant: list_add_tail instead of list_add.                              *)
ListAddTail(s, x) == Append(s, x)

(* list_add(&obj->node, &parent->children): insert at the head.            *)
ListAdd(s, x) == <<x>> \o s

(* destroy_perf_obj(n): the order in which it puts the kobjects of the    *)
(* subtree of n: each child's subtree in list order, then n.               *)
RECURSIVE DestroyList(_), DestroyOrder(_)
DestroyList(s) ==
    IF s = <<>> THEN <<>> ELSE DestroyOrder(Head(s)) \o DestroyList(Tail(s))
DestroyOrder(n) == DestroyList(children[n]) \o <<n>>

(* A create_perf_obj call failed: fme_perf_init destroys the tree built   *)
(* so far, unless it was create_perf_dev's and there is none.              *)
CreateFailed ==
    IF i = 1 THEN /\ pc' = "failed" /\ UNCHANGED pending
             ELSE /\ pc' = "unwind" /\ pending' = DestroyOrder(PerfDev)

(* kzalloc of the perf_object.                                              *)
CreateAlloc ==
    /\ pc = "alloc"
    /\ \/ /\ pc' = "add"
          /\ UNCHANGED pending
       \/ CreateFailed
    /\ UNCHANGED <<iommu, i, live, children, created, destroyed, attrs, dying, lock, readers>>

(* kobject_init_and_add under the parent; on failure kobject_put frees   *)
(* the object (put_exit).                                                  *)
CreateAdd ==
    /\ pc = "add"
    /\ \/ /\ live' = live \cup {Cur.node}
          /\ pc' = "groups"
          /\ UNCHANGED pending
       \/ /\ CreateFailed
          /\ UNCHANGED live
    /\ UNCHANGED <<iommu, i, children, created, destroyed, attrs, dying, lock, readers>>

(* The success path of create_perf_obj's last step: the attributes are in *)
(* sysfs, the caller links the object into its parent's children          *)
(* (list_add) and goes on with the next create_perf_obj call.              *)
Created ==
    /\ attrs' = attrs \cup {Cur.node}
    /\ children' = IF Cur.parent = NoParent THEN children
                   ELSE [children EXCEPT ![Cur.parent] = ListAdd(@, Cur.node)]
    /\ created' = Append(created, Cur.node)
    /\ IF i = Len(Plan(iommu))
         THEN pc' = "ready" /\ UNCHANGED i
         ELSE pc' = "alloc" /\ i' = i + 1
    /\ UNCHANGED <<live, pending>>

(* Mutant: a failed sysfs_create_groups returns without kobject_put.       *)
CreateGroupsNoPut ==
    /\ pc = "groups"
    /\ \/ Created
       \/ /\ CreateFailed
          /\ UNCHANGED <<live, attrs, children, created, i>>
    /\ UNCHANGED <<iommu, destroyed, dying, lock, readers>>

(* sysfs_create_groups; on failure kobject_put removes and frees the       *)
(* object (put_exit).                                                      *)
CreateGroups ==
    /\ pc = "groups"
    /\ \/ Created
       \/ /\ CreateFailed
          /\ live' = live \ {Cur.node}
          /\ UNCHANGED <<attrs, children, created, i>>
    /\ UNCHANGED <<iommu, destroyed, dying, lock, readers>>

(* Mutant: fme_perf_uinit holds pdata->lock over the destroy.              *)
PerfUinitLocked ==
    /\ pc = "ready" /\ lock = NoThread
    /\ pc' = "uinit" /\ pending' = DestroyOrder(PerfDev)
    /\ lock' = "perf_uinit"
    /\ UNCHANGED <<iommu, i, live, children, created, destroyed, attrs, dying, readers>>

(* fme_perf_uinit: destroy_perf_obj of the root, fme->perf_dev = NULL.     *)
PerfUinit ==
    /\ pc = "ready"
    /\ pc' = "uinit" /\ pending' = DestroyOrder(PerfDev)
    /\ UNCHANGED <<iommu, i, live, children, created, destroyed, attrs, dying, lock, readers>>

(* One object of destroy_perf_obj's walk.  sysfs_remove_groups first      *)
(* stops new reads of its attributes, ...                                   *)
DestroyDeactivate ==
    /\ pc \in {"unwind", "uinit"} /\ pending # <<>> /\ dying = NoNode
    /\ dying' = Head(pending)
    /\ UNCHANGED <<tree, attrs, lock, readers>>

(* ... then waits for the running reads, removes the attributes; then     *)
(* list_del from the parent and kobject_put.                               *)
DestroyPut ==
    /\ dying # NoNode
    /\ \A t \in Readers : rd[t] # dying
    /\ attrs' = attrs \ {dying}
    /\ live' = live \ {dying}
    /\ children' = [m \in DOMAIN children |-> SelectSeq(children[m], LAMBDA x : x # dying)]
    /\ destroyed' = Append(destroyed, dying)
    /\ pending' = Tail(pending)
    /\ dying' = NoNode
    /\ UNCHANGED <<iommu, pc, i, created, lock, readers>>

(* destroy_perf_obj has returned: fme_perf_init returns the error, or    *)
(* fme_perf_uinit is done.                                                 *)
DestroyDone ==
    /\ pc \in {"unwind", "uinit"} /\ pending = <<>>
    /\ pc' = IF pc = "unwind" THEN "failed" ELSE "removed"
    /\ UNCHANGED <<iommu, i, live, children, pending, created, destroyed, attrs, dying, lock, readers>>

(* perf_obj_attr_show / _store: kernfs takes an active reference on an    *)
(* attribute of a live object whose removal has not begun, ...             *)
ReadEnter(t, n) ==
    /\ rpc[t] = "idle" /\ n \in attrs /\ n # dying
    /\ rd' = [rd EXCEPT ![t] = n]
    /\ rpc' = [rpc EXCEPT ![t] = "wait"]
    /\ UNCHANGED <<tree, attrs, dying, lock>>

(* ... the show or store takes pdata->lock (a counter read, a freeze or   *)
(* enable store), ...                                                      *)
ReadLock(t) ==
    /\ rpc[t] = "wait" /\ lock = NoThread
    /\ lock' = t
    /\ rpc' = [rpc EXCEPT ![t] = "locked"]
    /\ UNCHANGED <<tree, attrs, dying, rd>>

(* ... and releases it and the active reference.                           *)
ReadDone(t) ==
    /\ rpc[t] = "locked"
    /\ lock' = NoThread
    /\ rd' = [rd EXCEPT ![t] = NoNode]
    /\ rpc' = [rpc EXCEPT ![t] = "idle"]
    /\ UNCHANGED <<tree, attrs, dying>>

Init ==
    /\ iommu \in BOOLEAN
    /\ pc = "alloc" /\ i = 1
    /\ live = {} /\ attrs = {} /\ dying = NoNode
    /\ children = [n \in Nodes |-> <<>>]
    /\ pending = <<>>
    /\ created = <<>> /\ destroyed = <<>>
    /\ lock = NoThread
    /\ rd = [t \in Readers |-> NoNode]
    /\ rpc = [t \in Readers |-> "idle"]

Teardown == DestroyDeactivate \/ DestroyPut \/ DestroyDone

Next ==
    \/ CreateAlloc \/ CreateAdd \/ CreateGroups \/ PerfUinit \/ Teardown
    \/ \E t \in Readers :
          \/ \E n \in Nodes : ReadEnter(t, n)
          \/ ReadLock(t) \/ ReadDone(t)

(* The teardown, once begun, is carried on, and so is a read that holds   *)
(* an active reference (strong fairness on its lock acquisition: mutex    *)
(* waiters are handed the lock).  When reads start is not assumed.        *)
Fairness ==
    /\ WF_vars(Teardown)
    /\ \A t \in Readers : SF_vars(ReadLock(t)) /\ WF_vars(ReadDone(t))

Spec == Init /\ [][Next]_vars /\ Fairness

-----------------------------------------------------------------------------
(* Once fme_perf_init has failed or fme_perf_uinit has run, no perf       *)
(* object is left in sysfs, whichever create_perf_obj step failed.         *)
NothingLeftBehind == pc \in {"failed", "removed"} => live = {}

(* The objects are destroyed in exactly the reverse order of their        *)
(* creation, each once (destroy_perf_obj's walk over list_add-ordered     *)
(* children).                                                              *)
DestroyReversesCreate ==
    pc \in {"failed", "removed"} => destroyed = Reverse(created)

(* The teardown of the tree finishes even while attributes are read:     *)
(* the reads it waits for only need pdata->lock, which fme_perf_uinit    *)
(* and fme_perf_init's unwinding do not hold.                               *)
TeardownCompletes ==
    (pc \in {"unwind", "uinit"}) ~> (pc \in {"failed", "removed"})
=============================================================================
