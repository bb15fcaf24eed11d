---------------------------- MODULE IoctlDispatch ----------------------------
(***************************************************************************)
(* The command dispatch of fme_ioctl (drivers/fpga/intel/fme-main.c): the *)
(* fixed FME commands are served directly, after the checks of the        *)
(* argument block they copy from user space; any other command is offered *)
(* to the sub-features in table order, skipping those without an ioctl   *)
(* handler, until one returns something other than -ENODEV ("not mine"); *)
(* if none claims it the result is -EINVAL.                                *)
(*                                                                         *)
(* The behaviour of each feature's handler is a constant of a behaviour:  *)
(* Init picks one table out of all of them, so the check covers every     *)
(* table of NFeat features over the command set.  (No feature of          *)
(* fme_feature_drvs has an ioctl handler in this tree; the all-"none"     *)
(* table is among those checked.)                                          *)
(***************************************************************************)
EXTENDS Naturals, Sequences, SequencesExt, FiniteSetsExt

CONSTANTS
    NFeat,      \* features in the device's table
    FeatCmds,   \* other command codes
    Results,    \* what a handler that claims a command may return
    NumPorts,   \* capability.num_ports of the FME header
    MinSz       \* MinSz[c]: offsetofend of the last field c needs (minsz)

(* FPGA_GET_API_VERSION, FPGA_CHECK_EXTENSION, FPGA_FME_GET_INFO,         *)
(* FPGA_FME_PORT_RELEASE, FPGA_FME_PORT_ASSIGN.                            *)
FixedCmds == {"api_version", "check_extension", "get_info",
              "port_release", "port_assign"}
PortCmds == {"port_release", "port_assign"}
BlockCmds == {"get_info"} \cup PortCmds

ASSUME /\ NFeat \in Nat /\ NumPorts \in Nat
       /\ FixedCmds \cap FeatCmds = {}
       /\ "ENODEV" \notin Results /\ "EINVAL" \notin Results
       /\ MinSz \in [BlockCmds -> Nat \ {0}]

Feats == 1..NFeat

(* The argument blocks a caller may pass: copy_from_user faults or not,   *)
(* argsz one short of minsz or enough, flags zero or not, a port id up to *)
(* one past the last port.                                                 *)
Args(c) == [fault : BOOLEAN, argsz : {MinSz[c] - 1, MinSz[c]},
            flags : {0, 1}, port_id : 0..NumPorts]
NoArg == [fault |-> FALSE, argsz |-> 0, flags |-> 0, port_id |-> 0]

(* A feature without ops or ops->ioctl, and the set of handlers: that, or *)
(* an ioctl with its answer to every command.                              *)
NoIoctl == [c \in FeatCmds |-> "none"]

Handler == {NoIoctl} \cup [FeatCmds -> Results \cup {"ENODEV"}]

VARIABLES
    ops,    \* ops[i]: the ioctl handler of feature i
    last    \* the last command issued, its result and the handlers tried

vars == <<ops, last>>

NoCall == [cmd |-> "none", arg |-> NoArg, res |-> "none", tried |-> <<>>]

(* Mutant: -ENODEV from a handler is returned instead of continuing.      *)
RECURSIVE ForEachFeatureNoContinue(_, _)
ForEachFeatureNoContinue(i, c) ==
    IF i > NFeat THEN [res |-> "EINVAL", tried |-> <<>>]
    ELSE IF ops[i] = NoIoctl THEN ForEachFeatureNoContinue(i + 1, c)
    ELSE [res |-> ops[i][c], tried |-> <<i>>]

(* The fpga_dev_for_each_feature loop of fme_ioctl's default case, from   *)
(* feature i on: its result and the features whose handler it called.      *)
RECURSIVE ForEachFeature(_, _)
ForEachFeature(i, c) ==
    IF i > NFeat THEN [res |-> "EINVAL", tried |-> <<>>]
    ELSE IF ops[i] = NoIoctl THEN ForEachFeature(i + 1, c)
    ELSE IF ops[i][c] = "ENODEV"
         THEN LET rest == ForEachFeature(i + 1, c)
              IN  [rest EXCEPT !.tried = <<i>> \o @]
         ELSE [res |-> ops[i][c], tried |-> <<i>>]

(* Mutant: the port id check lets num_ports through.                      *)
PortInRangeOffByOne(p) == p <= NumPorts

(* fme_ioctl_config_port: port_id >= capability.num_ports is -EINVAL.     *)
PortInRange(p) == p < NumPorts

(* fme_ioctl_get_info, fme_ioctl_release_port / _assign_port and          *)
(* fme_ioctl_config_port: -EFAULT if the block cannot be copied, -EINVAL  *)
(* if argsz < minsz, for a port command -EINVAL if flags are set or the   *)
(* port does not exist; else GET_INFO answers and a port command is       *)
(* passed to pdata->config_port.                                           *)
FixedCmdResult(c, a) ==
    CASE c = "api_version"     -> "api_version"
      [] c = "check_extension" -> "no_extension"
      [] a.fault               -> "EFAULT"
      [] a.argsz < MinSz[c]    -> "EINVAL"
      [] c = "get_info"        -> "info"
      [] a.flags # 0           -> "EINVAL"
      [] ~PortInRange(a.port_id) -> "EINVAL"
      [] OTHER                 -> "config_port"

(* fme_ioctl(cmd, arg): a fixed command is served by its own function      *)
(* without consulting any feature; any other goes down the feature loop.  *)
FmeIoctl(c, a) ==
    /\ last' = IF c \in FixedCmds
                 THEN [cmd |-> c, arg |-> a, res |-> FixedCmdResult(c, a),
                       tried |-> <<>>]
                 ELSE [cmd |-> c, arg |-> a] @@ ForEachFeature(1, c)
    /\ UNCHANGED ops

Init ==
    /\ ops \in [Feats -> Handler]
    /\ last = NoCall

Next ==
    \/ \E c \in BlockCmds : \E a \in Args(c) : FmeIoctl(c, a)
    \/ \E c \in (FixedCmds \ BlockCmds) \cup FeatCmds : FmeIoctl(c, NoArg)

Spec == Init /\ [][Next]_vars

-----------------------------------------------------------------------------
(* The reference: the handlers a command reaches are those with an ioctl, *)
(* in table order, up to the first that claims it; the result is that     *)
(* claimer's, or -EINVAL if none claims it.                                *)
WithIoctl == {i \in Feats : ops[i] # NoIoctl}

Claimers(c) == {i \in WithIoctl : ops[i][c] # "ENODEV"}

RefDispatch(c) ==
    IF Claimers(c) = {}
      THEN [res |-> "EINVAL", tried |-> SetToSortSeq(WithIoctl, <)]
      ELSE LET first == Min(Claimers(c)) IN
           [res |-> ops[first][c],
            tried |-> SetToSortSeq({i \in WithIoctl : i <= first}, <)]

(* fme_ioctl answers every feature command as the reference chain of      *)
(* responsibility does, for every handler table: an unclaimed command     *)
(* yields -EINVAL after every handler was tried, and a                    *)
(* claimed one is tried in table order on exactly the handlers before the *)
(* claimer (the -ENODEV "continue" of the loop).                           *)
DispatchIsFirstClaim ==
    last.cmd \in FeatCmds =>
        [res |-> last.res, tried |-> last.tried] = RefDispatch(last.cmd)

(* The control-request contract: a port is assigned or released (the      *)
(* request reaches pdata->config_port) exactly when the block was copied, *)
(* its argsz covers the fields the command reads, no flag is set, and the *)
(* port index is below the number of ports the capability register       *)
(* reports; every other port request is refused before config_port.       *)
PortRequestsReachConfigPortOnlyValid ==
    last.cmd \in PortCmds =>
        (last.res = "config_port" <=>
            /\ ~last.arg.fault /\ last.arg.argsz >= MinSz[last.cmd]
            /\ last.arg.flags = 0 /\ last.arg.port_id < NumPorts)
=============================================================================
