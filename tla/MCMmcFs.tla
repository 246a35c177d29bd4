------------------------------ MODULE MCMmcFs ------------------------------
(***************************************************************************)
(* MmcFs for TLC.  LiveState leaves out what no step looks at again: the   *)
(* object of no open file, the stack above its top, the id and the card of *)
(* a volume that is not mounted.                                           *)
(***************************************************************************)
EXTENDS MmcFs

LiveState ==
    <<dev, fd_flags, priv, dev_mmcfs_fd_num,
      [i \in 0 .. dev_mmcfs_fd_num - 1 |-> dev_mmcfs_fd[i]],
      [o \in Held |-> dev_mmcfs_table[o]],
      IF fs_type THEN <<fs_id, volume>> ELSE <<>>,
      Fsid, noinit, card, ready, call, lost>>
=============================================================================
