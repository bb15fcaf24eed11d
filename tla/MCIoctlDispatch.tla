--------------------------- MODULE MCIoctlDispatch ---------------------------
EXTENDS IoctlDispatch

(* offsetofend(struct fpga_fme_info, capability) and                       *)
(* offsetofend(struct fpga_fme_port_release / _assign, port_id): argsz,    *)
(* flags and the 64-bit capability, or argsz, flags and the 32-bit port.  *)
MCMinSz == [c \in BlockCmds |-> IF c = "get_info" THEN 16 ELSE 12]
=============================================================================
