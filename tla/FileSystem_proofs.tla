------------------------- MODULE FileSystem_proofs -------------------------
(***************************************************************************)
(* Theorems about the files of the cassette: MmcFs (the file device, for   *)
(* every number of descriptors, objects, cards and mounts) and FatChain    *)
(* (the FAT volume below it, for every size of the volume, set of names,   *)
(* length, and number of failed accesses and losses of power).             *)
(***************************************************************************)
EXTENDS MmcFs, FatChain, FiniteSetTheorems, WellFoundedInduction, TLAPS

-----------------------------------------------------------------------------
(* The file device. *)

\* The call in progress and what it works on: a call that opens has its descriptor,
\* and an object waiting for it; every other works on an open file.
CallInv ==
    /\ call.at = "idle" <=> call.op = "none"
    /\ call.at \in {"status", "init", "mount", "lookup"} => call.op = "open"
    /\ call.at \in {"validate", "transfer"} => call.op \notin {"none", "open"}
    /\ call.at # "idle" => dev[call.fd]
    /\ call.at \in {"status", "init", "mount", "lookup"} => dev_mmcfs_fd_num # 0

\* The stack, the open files and the lost objects, element by element.
StackInv ==
    /\ \A i, j \in 0 .. dev_mmcfs_fd_num - 1 : dev_mmcfs_fd[i] = dev_mmcfs_fd[j] => i = j
    /\ \A i \in 0 .. dev_mmcfs_fd_num - 1 : dev_mmcfs_fd[i] \notin lost
HolderInv ==
    /\ \A f, g \in Fds : Open(f) /\ Open(g) /\ priv[f] = priv[g] => f = g
    /\ \A f \in Fds : Open(f) => /\ priv[f] \in Objects /\ fd_flags[f] = priv[f]
                                 /\ priv[f] \notin lost
    /\ \A f \in Fds, i \in 0 .. dev_mmcfs_fd_num - 1 : Open(f) => priv[f] # dev_mmcfs_fd[i]
CoverInv ==
    \A o \in Objects :
        \/ \E i \in 0 .. dev_mmcfs_fd_num - 1 : dev_mmcfs_fd[i] = o
        \/ \E f \in Fds : Open(f) /\ priv[f] = o
        \/ o \in lost

Inv == TypeOK /\ CallInv /\ StackInv /\ HolderInv /\ CoverInv

\* Numbers and names the types rest on.
LEMMA SizeType ==
    /\ 0 \in Nat /\ MMCFS_FD_MAXNUM \in 0 .. MMCFS_FD_MAXNUM /\ NULL \notin Objects
    /\ 3 \in Fds
  BY SizeAssumption DEF NULL, Objects, Fds

\* disk_status() keeps the status words Boolean.
LEMMA DiskStatusType ==
    ASSUME TypeOK, DiskStatus \/ DiskTrouble
    PROVE  noinit' \in BOOLEAN /\ ready' \in BOOLEAN /\ ready' = ready
  BY Zenon DEF TypeOK, DiskStatus, DiskTrouble

\* A stack with every object on it holds each of them.
LEMMA FullStack ==
    ASSUME TypeOK, StackInv, dev_mmcfs_fd_num = MMCFS_FD_MAXNUM, NEW o \in Objects
    PROVE  \E i \in 0 .. dev_mmcfs_fd_num - 1 : dev_mmcfs_fd[i] = o
  <1>1. IsFiniteSet(Objects)
    BY FS_Interval, SizeAssumption DEF Objects
  <1>2. dev_mmcfs_fd \in Injection(Objects, Objects)
    BY DEF TypeOK, StackInv, Injection, IsInjective, Objects
  <1>3. dev_mmcfs_fd \in Surjection(Objects, Objects)
    BY <1>1, <1>2, FS_Injection
  <1> QED BY <1>3 DEF Surjection, Objects

\* So the stack has room for the object of an open file.
LEMMA RoomForOne ==
    ASSUME TypeOK, StackInv, HolderInv, NEW f \in Fds, Open(f)
    PROVE  dev_mmcfs_fd_num \in Objects
  <1>1. dev_mmcfs_fd_num # MMCFS_FD_MAXNUM
    BY FullStack DEF HolderInv
  <1> QED BY <1>1, SizeAssumption DEF TypeOK, Objects

\* The object of a call on an open file.
LEMMA FileOfCall ==
    ASSUME TypeOK, CallInv, HolderInv, call.at \in {"validate", "transfer"}
    PROVE  /\ call.fd \in Fds /\ Open(call.fd)
           /\ priv[call.fd] \in Objects /\ fd_flags[call.fd] = priv[call.fd]
           /\ priv[call.fd] \notin lost
  BY DEF TypeOK, CallInv, HolderInv, Open, Calls

-----------------------------------------------------------------------------
(* Each step keeps Inv. *)

\* An open that fails gives its descriptor back.
LEMMA OpenFailsKeeps ==
    ASSUME Inv, OpenFails, call.at \in {"status", "init", "mount", "lookup"},
           noinit' \in BOOLEAN, ready' \in BOOLEAN, fs_type' \in BOOLEAN,
           UNCHANGED <<fs_id, Fsid, volume, card>>
    PROVE  Inv'
  <1> USE DEF Inv
  <1>1. /\ call.fd \in Fds /\ dev[call.fd] /\ call.op = "open" /\ ~Open(call.fd)
    BY DEF TypeOK, CallInv, Calls, Open
  <1>2. /\ dev' = [dev EXCEPT ![call.fd] = FALSE]
        /\ fd_flags' = [fd_flags EXCEPT ![call.fd] = 0]
        /\ UNCHANGED <<priv, device>> /\ call' = Idle
    BY DEF OpenFails, Released, Returns, FreeFlags
  <1>3. dev' \in [Fds -> BOOLEAN] /\ fd_flags' \in [Fds -> Nat]
    BY <1>1, <1>2 DEF TypeOK
  <1>4. call' \in Calls /\ call'.at = "idle" /\ call'.op = "none"
    BY <1>2, SizeType DEF Idle, Calls
  <1>5. TypeOK'
    BY <1>2, <1>3, <1>4 DEF TypeOK, device
  <1>6. CallInv'
    BY <1>4 DEF CallInv
  <1>7. \A f \in Fds : Open(f)' <=> Open(f)
    BY <1>1, <1>2, <1>4 DEF TypeOK, Open
  <1>8. StackInv' /\ CoverInv'
    BY <1>2, <1>7 DEF StackInv, CoverInv, device
  <1>9. HolderInv'
    BY <1>1, <1>2, <1>7 DEF HolderInv, TypeOK, device
  <1> QED BY <1>5, <1>6, <1>8, <1>9

\* A close that fails loses the object, and no other.
LEMMA CloseFailsKeeps ==
    ASSUME Inv, CloseFails, Returns, call.at \in {"validate", "transfer"},
           noinit' \in BOOLEAN, UNCHANGED <<fat, ready, card>>
    PROVE  Inv'
  <1> USE DEF Inv
  <1>1. /\ call.fd \in Fds /\ Open(call.fd) /\ call.op # "open"
        /\ priv[call.fd] \in Objects
    BY FileOfCall DEF CallInv
  <1>2. /\ dev' = [dev EXCEPT ![call.fd] = FALSE]
        /\ fd_flags' = [fd_flags EXCEPT ![call.fd] = 0]
        /\ lost' = lost \cup {priv[call.fd]}
        /\ UNCHANGED <<priv, dev_mmcfs_fd_num, dev_mmcfs_fd, dev_mmcfs_table>> /\ call' = Idle
    BY DEF CloseFails, Released, Returns, FreeFlags
  <1>3. /\ dev' \in [Fds -> BOOLEAN] /\ fd_flags' \in [Fds -> Nat]
        /\ lost' \subseteq Objects
    BY <1>1, <1>2 DEF TypeOK
  <1>4. call' \in Calls /\ call'.at = "idle" /\ call'.op = "none"
    BY <1>2, SizeType DEF Idle, Calls
  <1>5. TypeOK'
    BY <1>2, <1>3, <1>4 DEF TypeOK, fat
  <1>6. CallInv'
    BY <1>4 DEF CallInv
  <1>7. \A f \in Fds : Open(f)' <=> Open(f) /\ f # call.fd
    BY <1>1, <1>2, <1>4 DEF TypeOK, Open
  <1>8. StackInv'
    BY <1>1, <1>2 DEF StackInv, HolderInv
  <1>9. HolderInv'
    BY <1>1, <1>2, <1>7 DEF HolderInv, TypeOK
  <1>10. CoverInv'
    BY <1>1, <1>2, <1>7 DEF CoverInv
  <1> QED BY <1>5, <1>6, <1>8, <1>9, <1>10

\* A close that succeeds puts the object back on the stack.
LEMMA CloseOkKeeps ==
    ASSUME Inv, CloseOk, Returns, call.at \in {"validate", "transfer"},
           noinit' \in BOOLEAN, UNCHANGED <<fat, ready, card>>
    PROVE  Inv'
  <1> USE DEF Inv
  <1>1. /\ call.fd \in Fds /\ Open(call.fd) /\ call.op # "open"
        /\ priv[call.fd] \in Objects /\ fd_flags[call.fd] = priv[call.fd]
        /\ priv[call.fd] \notin lost
    BY FileOfCall DEF CallInv
  <1>2. dev_mmcfs_fd_num \in Objects
    BY <1>1, RoomForOne
  <1>3. /\ dev' = [dev EXCEPT ![call.fd] = FALSE]
        /\ fd_flags' = [fd_flags EXCEPT ![call.fd] = 0]
        /\ priv' = [priv EXCEPT ![call.fd] = NULL]
        /\ dev_mmcfs_fd_num' = dev_mmcfs_fd_num + 1
        /\ dev_mmcfs_fd' = [dev_mmcfs_fd EXCEPT ![dev_mmcfs_fd_num] = priv[call.fd]]
        /\ dev_mmcfs_table' = [dev_mmcfs_table EXCEPT ![priv[call.fd]].fs = FALSE]
        /\ UNCHANGED lost /\ call' = Idle
    BY <1>1 DEF CloseOk, Released, Returns, FreeFlags
  <1>4. /\ dev' \in [Fds -> BOOLEAN] /\ fd_flags' \in [Fds -> Nat]
        /\ priv' \in [Fds -> Objects \cup {NULL}]
        /\ dev_mmcfs_fd_num' \in 0 .. MMCFS_FD_MAXNUM
        /\ dev_mmcfs_fd' \in [Objects -> Objects]
    BY <1>1, <1>2, <1>3, SizeAssumption DEF TypeOK, Objects
  <1>5. dev_mmcfs_table' \in [Objects -> FIL]
    BY ZenonT(60), <1>1, <1>3 DEF TypeOK, FIL
  <1>6. call' \in Calls /\ call'.at = "idle" /\ call'.op = "none"
    BY <1>3, SizeType DEF Idle, Calls
  <1>7. TypeOK'
    BY <1>3, <1>4, <1>5, <1>6 DEF TypeOK, fat
  <1>8. CallInv'
    BY <1>6 DEF CallInv
  <1>9. \A f \in Fds : Open(f)' <=> Open(f) /\ f # call.fd
    BY <1>1, <1>3, <1>6 DEF TypeOK, Open
  <1>10. \A i \in 0 .. dev_mmcfs_fd_num' - 1 :
            \/ i = dev_mmcfs_fd_num /\ dev_mmcfs_fd'[i] = priv[call.fd]
            \/ i \in 0 .. dev_mmcfs_fd_num - 1 /\ dev_mmcfs_fd'[i] = dev_mmcfs_fd[i]
    BY <1>2, <1>3 DEF TypeOK, Objects
  <1>11. StackInv'
    BY <1>1, <1>3, <1>10 DEF StackInv, HolderInv
  <1>12. \A f \in Fds : f # call.fd => priv'[f] = priv[f] /\ fd_flags'[f] = fd_flags[f]
    BY <1>3 DEF TypeOK
  <1>13. HolderInv'
    BY <1>1, <1>3, <1>9, <1>10, <1>12 DEF HolderInv
  <1>14. CoverInv'
    <2> SUFFICES ASSUME NEW o \in Objects
                 PROVE  \/ \E i \in 0 .. dev_mmcfs_fd_num' - 1 : dev_mmcfs_fd'[i] = o
                        \/ \E f \in Fds : Open(f)' /\ priv'[f] = o
                        \/ o \in lost'
      BY DEF CoverInv
    <2>1. CASE o = priv[call.fd]
      <3>1. dev_mmcfs_fd_num \in 0 .. dev_mmcfs_fd_num' - 1
        BY <1>2, <1>3 DEF Objects
      <3>2. dev_mmcfs_fd'[dev_mmcfs_fd_num] = o
        BY <1>2, <1>3, <2>1 DEF TypeOK
      <3> QED BY <3>1, <3>2
    <2>2. CASE \E i \in 0 .. dev_mmcfs_fd_num - 1 : dev_mmcfs_fd[i] = o
      <3>1. PICK i \in 0 .. dev_mmcfs_fd_num - 1 : dev_mmcfs_fd[i] = o
        BY <2>2
      <3>2. i \in 0 .. dev_mmcfs_fd_num' - 1 /\ dev_mmcfs_fd'[i] = o
        BY <1>2, <1>3, <3>1 DEF TypeOK, Objects
      <3> QED BY <3>2
    <2>3. CASE o # priv[call.fd] /\ \E f \in Fds : Open(f) /\ priv[f] = o
      BY <1>9, <1>12, <2>3
    <2> QED BY <1>3, <2>1, <2>2, <2>3 DEF CoverInv
  <1> QED BY <1>7, <1>8, <1>11, <1>13, <1>14

\* A call that only moves on, or ends, leaves descriptors, stack and files alone.
LEMMA OnlyCallKeeps ==
    ASSUME Inv, UNCHANGED <<hal, device>>, call' \in Calls,
           CallInv', call.op # "open" => call'.op # "open",
           call.op = "open" => call'.op = "open" /\ call'.fd = call.fd,
           fs_type' \in BOOLEAN, fs_id' \in Nat, Fsid' \in Nat,
           noinit' \in BOOLEAN, ready' \in BOOLEAN,
           card' \in Cards \cup {NoCard}, volume' \in Cards \cup {NoCard}
    PROVE  Inv'
  <1> USE DEF Inv
  <1>1. /\ UNCHANGED <<dev, fd_flags, priv>>
        /\ UNCHANGED <<dev_mmcfs_fd_num, dev_mmcfs_fd, dev_mmcfs_table, lost>>
    BY DEF hal, device
  <1>2. TypeOK'
    BY <1>1, Zenon DEF TypeOK
  <1>3. \A f \in Fds : Open(f)' <=> Open(f)
    BY <1>1 DEF Open, CallInv
  <1>4. StackInv'
    BY <1>1 DEF StackInv
  <1>5. HolderInv'
    BY <1>1, <1>3 DEF HolderInv
  <1>6. CoverInv'
    BY <1>1, <1>3 DEF CoverInv
  <1> QED BY <1>2, <1>4, <1>5, <1>6

\* A call begins to open a file.
LEMMA AltOpenKeeps ==
    ASSUME Inv, NEW flags \in OpenFlags, AltOpen(flags)
    PROVE  Inv'
  <1> USE DEF Inv
  <1>1. PICK f \in Fds :
            /\ ~dev[f]
            /\ dev' = [dev EXCEPT ![f] = TRUE]
            /\ fd_flags' = [fd_flags EXCEPT ![f] = flags]
            /\ call' = [op |-> "open", fd |-> f,
                        at |-> IF fs_type THEN "status" ELSE "init"]
    BY DEF AltOpen
  <1>2. /\ call.at = "idle" /\ dev_mmcfs_fd_num # 0
        /\ UNCHANGED <<priv, device, fat, disk, card>>
    BY DEF AltOpen
  <1>3. flags \in Nat
    BY FlagsAssumption
  <1>4. dev' \in [Fds -> BOOLEAN] /\ fd_flags' \in [Fds -> Nat] /\ dev'[f]
    BY <1>1, <1>3 DEF TypeOK
  <1>5. /\ call' \in Calls /\ call'.op = "open" /\ call'.fd = f
        /\ call'.at \in {"status", "init"}
    BY <1>1 DEF Calls
  <1>6. TypeOK'
    BY <1>2, <1>4, <1>5, Zenon DEF TypeOK, device, fat, disk
  <1>7. CallInv'
    BY <1>2, <1>4, <1>5 DEF CallInv, device
  <1>8. \A g \in Fds : Open(g)' <=> Open(g)
    BY <1>1, <1>2, <1>5 DEF Open, CallInv, TypeOK
  <1>9. ~Open(f) /\ \A g \in Fds : g # f => fd_flags'[g] = fd_flags[g]
    BY <1>1 DEF Open, TypeOK
  <1>10. StackInv'
    BY <1>2 DEF StackInv, device
  <1>11. HolderInv'
    BY <1>2, <1>8, <1>9 DEF HolderInv, device
  <1>12. CoverInv'
    BY <1>2, <1>8 DEF CoverInv, device
  <1> QED BY <1>6, <1>7, <1>10, <1>11, <1>12

\* The file is found: the top of the stack becomes the object of the descriptor.
LEMMA OpenOkKeeps ==
    ASSUME Inv, Lookup, ~OpenFails
    PROVE  Inv'
  <1> USE DEF Inv
  <1>1. PICK mode \in FileModes(fd_flags[call.fd]) :
            dev_mmcfs_table' = [dev_mmcfs_table EXCEPT ![Top] =
                    [fs |-> TRUE, id |-> fs_id, flag |-> mode, on |-> volume]]
    BY DEF Lookup
  <1>2. /\ call.at = "lookup"
        /\ dev_mmcfs_fd_num' = dev_mmcfs_fd_num - 1
        /\ priv' = [priv EXCEPT ![call.fd] = Top]
        /\ fd_flags' = [fd_flags EXCEPT ![call.fd] = Top]
        /\ call' = Idle
        /\ UNCHANGED <<dev, dev_mmcfs_fd, lost>> /\ UNCHANGED <<fat, noinit, ready, card>>
    BY DEF Lookup, Returns
  <1>3. /\ call.fd \in Fds /\ dev[call.fd] /\ call.op = "open" /\ ~Open(call.fd)
        /\ dev_mmcfs_fd_num \in 1 .. MMCFS_FD_MAXNUM
    BY <1>2, SizeAssumption DEF TypeOK, CallInv, Calls, Open
  <1>4. Top \in Objects /\ dev_mmcfs_fd_num - 1 \in Objects
    BY <1>3, SizeAssumption DEF Top, TypeOK, Objects
  <1>5. /\ fd_flags' \in [Fds -> Nat] /\ priv' \in [Fds -> Objects \cup {NULL}]
        /\ dev_mmcfs_fd_num' \in 0 .. MMCFS_FD_MAXNUM
    <2>1. Top \in Nat
      BY <1>4 DEF Objects
    <2>2. fd_flags' \in [Fds -> Nat]
      BY <1>2, <1>3, <2>1 DEF TypeOK
    <2>3. priv' \in [Fds -> Objects \cup {NULL}]
      BY <1>2, <1>3, <1>4 DEF TypeOK
    <2>4. dev_mmcfs_fd_num' \in 0 .. MMCFS_FD_MAXNUM
      BY <1>2, <1>3, SizeAssumption
    <2> QED BY <2>2, <2>3, <2>4
  <1>6. dev_mmcfs_table' \in [Objects -> FIL]
    <2>1. mode \subseteq FaFlags
      BY DEF FileModes, FaFlags
    <2>2. [fs |-> TRUE, id |-> fs_id, flag |-> mode, on |-> volume] \in FIL
      BY <2>1 DEF FIL, TypeOK
    <2> QED BY <1>1, <1>4, <2>2 DEF TypeOK
  <1>7. call' \in Calls /\ call'.at = "idle" /\ call'.op = "none"
    BY <1>2, SizeType DEF Idle, Calls
  <1>8. TypeOK'
    BY <1>2, <1>5, <1>6, <1>7, Zenon DEF TypeOK, fat
  <1>9. CallInv'
    BY <1>7 DEF CallInv
  <1>10. \A f \in Fds : Open(f)' <=> Open(f) \/ f = call.fd
    BY <1>2, <1>3, <1>7 DEF TypeOK, Open
  <1>11. /\ priv'[call.fd] = Top /\ fd_flags'[call.fd] = Top
         /\ \A f \in Fds : f # call.fd => priv'[f] = priv[f] /\ fd_flags'[f] = fd_flags[f]
    BY <1>2, <1>3 DEF TypeOK
  <1>12. \A i \in 0 .. dev_mmcfs_fd_num' - 1 :
            /\ i \in 0 .. dev_mmcfs_fd_num - 1 /\ dev_mmcfs_fd'[i] = dev_mmcfs_fd[i]
            /\ dev_mmcfs_fd[i] # Top
    BY <1>2, <1>3, <1>4 DEF StackInv, Top, Objects
  <1>13. Top \notin lost /\ \A f \in Fds : Open(f) => priv[f] # Top
    BY <1>3, <1>4 DEF Top, StackInv, HolderInv, Objects
  <1>14. StackInv'
    BY <1>2, <1>12 DEF StackInv
  <1>15. HolderInv'
    BY <1>2, <1>3, <1>4, <1>10, <1>11, <1>12, <1>13 DEF HolderInv
  <1>16. CoverInv'
    <2> SUFFICES ASSUME NEW o \in Objects
                 PROVE  \/ \E i \in 0 .. dev_mmcfs_fd_num' - 1 : dev_mmcfs_fd'[i] = o
                        \/ \E f \in Fds : Open(f)' /\ priv'[f] = o
                        \/ o \in lost'
      BY DEF CoverInv
    <2>1. CASE o = Top
      BY <1>3, <1>10, <1>11, <2>1
    <2>2. CASE o # Top /\ \E i \in 0 .. dev_mmcfs_fd_num - 1 : dev_mmcfs_fd[i] = o
      <3>1. PICK i \in 0 .. dev_mmcfs_fd_num - 1 : dev_mmcfs_fd[i] = o
        BY <2>2
      <3>2. i \in 0 .. dev_mmcfs_fd_num' - 1 /\ dev_mmcfs_fd'[i] = o
        BY <1>2, <1>3, <2>2, <3>1 DEF Top
      <3> QED BY <3>2
    <2>3. CASE \E f \in Fds : Open(f) /\ priv[f] = o
      BY <1>3, <1>10, <1>11, <2>3
    <2> QED BY <1>2, <2>1, <2>2, <2>3 DEF CoverInv
  <1> QED BY <1>8, <1>9, <1>14, <1>15, <1>16

\* Looking a file up, found or not.
LEMMA LookupKeeps ==
    ASSUME Inv, Lookup
    PROVE  Inv'
  <1>1. CASE OpenFails
    <2>1. /\ noinit' \in BOOLEAN /\ ready' \in BOOLEAN /\ fs_type' \in BOOLEAN
      BY Zenon DEF Lookup, DiskTrouble, Inv, TypeOK, fat
    <2> QED BY <1>1, <2>1, OpenFailsKeeps DEF Lookup, fat
  <1>2. CASE ~OpenFails
    BY <1>2, OpenOkKeeps
  <1> QED BY <1>1, <1>2

\* A write leaves its mark in the object, and nothing else.
LEMMA MarkKeeps ==
    ASSUME Inv, call.at = "transfer", NEW bits \in SUBSET FaFlags, SetFlag(bits), Returns,
           UNCHANGED <<hal, dev_mmcfs_fd_num, dev_mmcfs_fd, lost>>,
           noinit' \in BOOLEAN, UNCHANGED <<fat, ready, card>>
    PROVE  Inv'
  <1> USE DEF Inv
  <1>1. priv[call.fd] \in Objects /\ call.fd \in Fds /\ call.op # "open"
    BY FileOfCall DEF CallInv
  <1>2. dev_mmcfs_table' \in [Objects -> FIL]
    BY SMTT(60), <1>1 DEF SetFlag, TypeOK, FIL
  <1>3. call' \in Calls /\ call'.at = "idle" /\ call'.op = "none"
    BY SizeType DEF Returns, Idle, Calls
  <1>4. TypeOK'
    BY <1>2, <1>3, Zenon DEF TypeOK, hal, fat
  <1>5. CallInv'
    BY <1>3 DEF CallInv
  <1>6. \A f \in Fds : Open(f)' <=> Open(f)
    BY <1>1, <1>3 DEF Open, hal
  <1>7. StackInv' /\ HolderInv' /\ CoverInv'
    BY <1>6 DEF StackInv, HolderInv, CoverInv, hal
  <1> QED BY <1>4, <1>5, <1>7

\* The steps of an open before the file is found.
LEMMA OpeningKeeps ==
    ASSUME Inv, ChkMounted \/ Initialize \/ Mount
    PROVE  Inv'
  <1> USE DEF Inv
  <1>1. /\ call.at \in {"status", "init", "mount"} /\ call.op = "open" /\ call.fd \in Fds
        /\ dev[call.fd] /\ dev_mmcfs_fd_num # 0
    BY DEF ChkMounted, Initialize, Mount, CallInv, TypeOK, Calls
  <1>2. ASSUME NEW place \in {"init", "mount", "lookup"}, At(place), UNCHANGED <<hal, device>>
        PROVE  /\ call' \in Calls /\ CallInv'
               /\ call'.op = "open" /\ call'.fd = call.fd
    BY <1>1, <1>2 DEF At, TypeOK, Calls, CallInv, hal, device
  <1>3. CASE ChkMounted
    <2>1. noinit' \in BOOLEAN /\ ready' \in BOOLEAN
      BY <1>3, DiskStatusType DEF ChkMounted
    <2>2. fs_type' \in BOOLEAN
      BY <1>3, <2>1, Zenon DEF ChkMounted
    <2>3. UNCHANGED <<fs_id, Fsid, volume, card>>
      BY <1>3 DEF ChkMounted
    <2>4. CASE OpenFails
      BY <1>1, <2>1, <2>2, <2>3, <2>4, OpenFailsKeeps
    <2>5. CASE ~OpenFails
      <3>1. PICK place \in {"init", "mount", "lookup"} : At(place) /\ UNCHANGED <<hal, device>>
        BY <1>3, <2>5 DEF ChkMounted
      <3>2. /\ fs_id' \in Nat /\ Fsid' \in Nat /\ card' \in Cards \cup {NoCard}
            /\ volume' \in Cards \cup {NoCard}
        BY <2>3 DEF TypeOK
      <3> QED BY <1>1, <1>2, <2>1, <2>2, <2>3, <3>1, <3>2, OnlyCallKeeps
    <2> QED BY <2>4, <2>5
  <1>4. CASE Initialize
    <2>1. UNCHANGED <<fat, card>>
      BY <1>4 DEF Initialize
    <2>2. /\ fs_type' \in BOOLEAN /\ fs_id' \in Nat /\ Fsid' \in Nat
          /\ card' \in Cards \cup {NoCard} /\ volume' \in Cards \cup {NoCard}
      BY <2>1, Zenon DEF TypeOK, fat
    <2>3. CASE DiskInitialized /\ At("mount") /\ UNCHANGED <<hal, device>>
      <3>1. noinit' \in BOOLEAN /\ ready' \in BOOLEAN
        BY <2>3, Zenon DEF DiskInitialized
      <3> QED BY <1>1, <1>2, <2>2, <2>3, <3>1, OnlyCallKeeps
    <2>4. CASE (DiskInitialized \/ DiskFailed) /\ OpenFails
      <3>1. noinit' \in BOOLEAN /\ ready' \in BOOLEAN
        BY <2>4, Zenon DEF DiskInitialized, DiskFailed, TypeOK
      <3> QED BY <1>1, <2>1, <2>2, <2>4, <3>1, OpenFailsKeeps DEF fat
    <2> QED BY <1>4, <2>3, <2>4 DEF Initialize
  <1>5. CASE Mount
    <2>1. DiskTrouble /\ UNCHANGED card /\ card' \in Cards \cup {NoCard}
      BY <1>5 DEF Mount, TypeOK
    <2>2. noinit' \in BOOLEAN /\ ready' \in BOOLEAN
      BY <2>1, DiskStatusType
    <2>3. CASE OpenFails /\ UNCHANGED fat
      <3>1. fs_type' \in BOOLEAN
        BY <2>3, Zenon DEF TypeOK, fat
      <3> QED BY <1>1, <2>1, <2>2, <2>3, <3>1, OpenFailsKeeps DEF fat
    <2>4. CASE /\ fs_type' = TRUE /\ Fsid' = NewId /\ fs_id' = NewId /\ volume' = card
               /\ At("lookup") /\ UNCHANGED <<hal, device>>
      <3>1. Fsid' \in Nat /\ fs_id' \in Nat /\ volume' \in Cards \cup {NoCard}
        BY <2>4 DEF NewId, TypeOK
      <3>2. fs_type' \in BOOLEAN
        BY <2>4
      <3> QED BY <1>1, <1>2, <2>1, <2>2, <2>4, <3>1, <3>2, OnlyCallKeeps
    <2> QED BY <1>5, <2>3, <2>4 DEF Mount
  <1> QED BY <1>3, <1>4, <1>5

\* The steps of a call on an open file.
LEMMA UsingKeeps ==
    ASSUME Inv, \/ \E f \in Fds, op \in {"read", "write", "seek", "close"} : AltCall(op, f)
                \/ Validate \/ Transfer
    PROVE  Inv'
  <1> USE DEF Inv
  <1>1. ASSUME Fails, call.at \in {"validate", "transfer"}, noinit' \in BOOLEAN,
               UNCHANGED <<fat, ready, card>>
        PROVE  Inv'
    <2>1. CASE call.op = "close"
      BY <1>1, <2>1, CloseFailsKeeps DEF Fails
    <2>2. CASE call.op # "close"
      <3>1. UNCHANGED <<hal, device>> /\ call' = Idle
        BY <1>1, <2>2 DEF Fails, Returns
      <3>2. /\ call' \in Calls /\ call'.at = "idle" /\ call'.op = "none" /\ CallInv'
            /\ call.op # "open"
        BY <1>1, <3>1, SizeType DEF Idle, Calls, CallInv
      <3>3. /\ fs_type' \in BOOLEAN /\ fs_id' \in Nat /\ Fsid' \in Nat /\ ready' \in BOOLEAN
            /\ card' \in Cards \cup {NoCard} /\ volume' \in Cards \cup {NoCard}
        BY <1>1, Zenon DEF TypeOK, fat
      <3> QED BY <1>1, <3>1, <3>2, <3>3, OnlyCallKeeps
    <2> QED BY <2>1, <2>2
  <1>2. ASSUME NEW f \in Fds, NEW op \in {"read", "write", "seek", "close"}, AltCall(op, f)
        PROVE  Inv'
    <2>1. /\ call' = [op |-> op, fd |-> f, at |-> "validate"] /\ call.at = "idle" /\ Open(f)
          /\ UNCHANGED <<hal, device>> /\ UNCHANGED <<fat, disk, card>>
      BY <1>2 DEF AltCall
    <2>2. call' \in Calls /\ call'.op # "open" /\ call.op = "none" /\ CallInv'
      BY <2>1 DEF Calls, CallInv, Open, hal
    <2>3. /\ fs_type' \in BOOLEAN /\ fs_id' \in Nat /\ Fsid' \in Nat
          /\ noinit' \in BOOLEAN /\ ready' \in BOOLEAN
          /\ card' \in Cards \cup {NoCard} /\ volume' \in Cards \cup {NoCard}
      BY <2>1, Zenon DEF TypeOK, fat, disk
    <2> QED BY <2>1, <2>2, <2>3, OnlyCallKeeps
  <1>3. CASE Validate
    <2>1. call.at = "validate" /\ call.op # "open" /\ UNCHANGED <<fat, ready, card>>
      BY <1>3 DEF Validate, CallInv
    <2>2. CASE Fails /\ UNCHANGED noinit
      <3>1. noinit' \in BOOLEAN
        BY <2>2, Zenon DEF TypeOK
      <3> QED BY <1>1, <2>1, <2>2, <3>1
    <2>3. ASSUME DiskStatus PROVE noinit' \in BOOLEAN
      BY <2>3, DiskStatusType
    <2>4. CASE DiskStatus /\ Fails
      BY <1>1, <2>1, <2>3, <2>4
    <2>5. CASE DiskStatus /\ CloseOk /\ Returns
      BY <2>1, <2>3, <2>5, CloseOkKeeps
    <2>6. CASE DiskStatus /\ At("transfer") /\ UNCHANGED <<hal, device>>
      <3>1. call' \in Calls /\ call'.op = call.op /\ CallInv'
        BY <2>1, <2>6 DEF At, TypeOK, Calls, CallInv, hal
      <3>2. /\ fs_type' \in BOOLEAN /\ fs_id' \in Nat /\ Fsid' \in Nat /\ ready' \in BOOLEAN
            /\ card' \in Cards \cup {NoCard} /\ volume' \in Cards \cup {NoCard}
        BY <2>1, Zenon DEF TypeOK, fat
      <3> QED BY <2>1, <2>3, <2>6, <3>1, <3>2, OnlyCallKeeps
    <2> QED BY <1>3, <2>2, <2>4, <2>5, <2>6 DEF Validate
  <1>4. CASE Transfer
    <2>1. call.at = "transfer" /\ UNCHANGED <<fat, ready, card>>
      BY <1>4 DEF Transfer
    <2>2. noinit' \in BOOLEAN
      BY <1>4, Zenon DEF Transfer, DiskTrouble, TypeOK
    <2>3. CASE call.op \in {"read", "seek"} /\ Returns /\ UNCHANGED <<hal, device>>
      BY <1>1, <2>1, <2>2, <2>3 DEF Fails
    <2>4. CASE CloseOk /\ Returns
      BY <2>1, <2>2, <2>4, CloseOkKeeps
    <2>5. CASE Fails
      BY <1>1, <2>1, <2>2, <2>5
    <2>6. ASSUME NEW bits \in SUBSET FaFlags, SetFlag(bits), Returns,
                 UNCHANGED <<hal, dev_mmcfs_fd_num, dev_mmcfs_fd, lost>>
          PROVE  Inv'
      BY <2>1, <2>2, <2>6, MarkKeeps
    <2>7. {"WRITTEN"} \in SUBSET FaFlags /\ {"ERROR"} \in SUBSET FaFlags
      BY DEF FaFlags
    <2> QED BY <1>4, <2>3, <2>4, <2>5, <2>6, <2>7 DEF Transfer
  <1> QED BY <1>2, <1>3, <1>4

\* The state the program starts in, whether the machine is new or restarted.
Fresh ==
    /\ dev = [f \in Fds |-> FALSE] /\ fd_flags = [f \in Fds |-> 0]
    /\ priv = [f \in Fds |-> NULL]
    /\ dev_mmcfs_fd_num = MMCFS_FD_MAXNUM
    /\ dev_mmcfs_fd = [i \in Objects |-> i]
    /\ dev_mmcfs_table = [i \in Objects |-> BlankFil]
    /\ fs_type = FALSE /\ fs_id = 0 /\ Fsid = 0 /\ volume = NoCard
    /\ noinit = TRUE /\ call = Idle /\ lost = {}
    /\ card \in Cards \cup {NoCard} /\ ready \in BOOLEAN

\* Every object is on the stack then, in its own place.
LEMMA FreshInv == Fresh => Inv
  <1> SUFFICES ASSUME Fresh PROVE Inv
    OBVIOUS
  <1> USE DEF Fresh
  <1>1. BlankFil \in FIL
    BY DEF BlankFil, FIL
  <1>2. Idle \in Calls /\ Idle.at = "idle" /\ Idle.op = "none"
    BY SizeType DEF Idle, Calls
  <1>3. dev_mmcfs_table \in [Objects -> FIL] /\ dev_mmcfs_fd \in [Objects -> Objects]
    BY <1>1
  <1>4. /\ dev \in [Fds -> BOOLEAN] /\ priv \in [Fds -> Objects \cup {NULL}]
        /\ fd_flags \in [Fds -> Nat]
    BY SizeType
  <1>5. dev_mmcfs_fd_num \in 0 .. MMCFS_FD_MAXNUM /\ lost \subseteq Objects
    BY SizeType
  <1>6. TypeOK
    BY <1>2, <1>3, <1>4, <1>5, SizeType, Zenon DEF TypeOK
  <1>7. CallInv
    BY <1>2 DEF CallInv
  <1>8. \A f \in Fds : ~Open(f)
    BY DEF Open
  <1>9. \A i \in 0 .. dev_mmcfs_fd_num - 1 : i \in Objects /\ dev_mmcfs_fd[i] = i
    BY DEF Objects
  <1>10. \A o \in Objects : o \in 0 .. dev_mmcfs_fd_num - 1
    BY DEF Objects
  <1> QED BY <1>6, <1>7, <1>8, <1>9, <1>10 DEF Inv, StackInv, HolderInv, CoverInv

\* Inv is inductive.
LEMMA InvKept == Inv /\ [Next]_vars => Inv'
  <1> SUFFICES ASSUME Inv, [Next]_vars PROVE Inv'
    OBVIOUS
  <1>1. CASE Firmware
    BY <1>1, OpeningKeeps, UsingKeeps, AltOpenKeeps, LookupKeeps
       DEF Firmware
  <1>2. CASE CardOut \/ CardIn
    <2>1. /\ card' \in Cards \cup {NoCard} /\ ready' \in BOOLEAN
          /\ UNCHANGED <<hal, device, fat, noinit, call>>
      BY <1>2 DEF CardOut, CardIn
    <2>2. call' \in Calls /\ CallInv'
      BY <2>1, Zenon DEF Inv, TypeOK, CallInv, hal, device
    <2>3. /\ fs_type' \in BOOLEAN /\ fs_id' \in Nat /\ Fsid' \in Nat /\ noinit' \in BOOLEAN
          /\ volume' \in Cards \cup {NoCard}
      BY <2>1, Zenon DEF Inv, TypeOK, fat
    <2> QED BY <2>1, <2>2, <2>3, OnlyCallKeeps
  <1>3. CASE Restart
    <2>1. Fresh'
      BY <1>3, Zenon DEF Restart, Fresh, Inv, TypeOK
    <2>2. (Fresh => Inv)'
      BY FreshInv, PTL
    <2> QED BY <2>1, <2>2
  <1>4. CASE UNCHANGED vars
    BY <1>4 DEF vars, hal, device, fat, disk, Inv, TypeOK, CallInv, StackInv, HolderInv,
       CoverInv, Open
  <1> QED BY <1>1, <1>2, <1>3, <1>4 DEF Next

\* Inv holds throughout.
LEMMA Invariance == Spec => []Inv
  <1>1. Init => Inv
    BY FreshInv DEF Init, Fresh
  <1> QED BY <1>1, InvKept, PTL DEF Spec

\* The types of every variable, whatever the sizes and the cards (all of MmcFs).
THEOREM TypeCorrect == Spec => []TypeOK
  BY Invariance, PTL DEF Inv

\* The promise of ObjectsKept for any number of descriptors, objects and cards: no
\* two open files ever share an object (mmcfs.c:83-124).
THEOREM ObjectsKeptCorrect == Spec => []ObjectsKept
  <1>1. Inv => ObjectsKept
    <2> SUFFICES ASSUME Inv PROVE ObjectsKept
      OBVIOUS
    <2> USE DEF Inv
    <2>1. \A o : o \in Held <=> \E f \in Fds : Open(f) /\ priv[f] = o
      BY DEF Held
    <2>2. \A o : o \in Free <=> \E i \in 0 .. dev_mmcfs_fd_num - 1 : dev_mmcfs_fd[i] = o
      BY DEF Free
    <2>3. Free \cap Held = {} /\ Free \cap lost = {} /\ Held \cap lost = {}
      BY <2>1, <2>2 DEF StackInv, HolderInv
    <2>4. Free \subseteq Objects
      BY <2>2, SizeAssumption DEF TypeOK, Objects
    <2>5. Held \subseteq Objects /\ lost \subseteq Objects
      BY <2>1 DEF HolderInv, TypeOK
    <2>6. Objects \subseteq Free \cup Held \cup lost
      BY <2>1, <2>2 DEF CoverInv
    <2> QED BY <2>3, <2>4, <2>5, <2>6 DEF ObjectsKept, StackInv, HolderInv
  <1> QED BY <1>1, Invariance, PTL

-----------------------------------------------------------------------------
(* Cards and mounts. *)

\* No object knows a mount id that is still to be given, an object with the id of
\* the mounted volume is on that volume's card, and a card that answers is that card.
IdInv ==
    /\ fs_id <= Fsid
    /\ \A o \in Objects : dev_mmcfs_table[o].fs =>
          /\ dev_mmcfs_table[o].id <= Fsid
          /\ fs_type /\ dev_mmcfs_table[o].id = fs_id => dev_mmcfs_table[o].on = volume
VolumeInv ==
    /\ IdInv
    /\ fs_type /\ ready => volume = card
    /\ call.at \in {"status", "lookup"} => fs_type
    /\ call.at \in {"init", "mount"} => ~fs_type
    /\ call.at = "transfer" => ValidObject

\* Objects that change in nothing but their flags, or are closed, keep IdInv.
LEMMA SameFilesKeep ==
    ASSUME Inv, IdInv, fs_type' => fs_type, UNCHANGED <<fs_id, Fsid, volume>>,
           \/ UNCHANGED dev_mmcfs_table
           \/ CloseOk /\ call.at \in {"validate", "transfer"}
           \/ \E bits \in SUBSET FaFlags : SetFlag(bits) /\ call.at = "transfer"
    PROVE  IdInv'
  <1>1. CASE UNCHANGED dev_mmcfs_table
    BY <1>1 DEF IdInv
  <1>2. CASE CloseOk /\ call.at \in {"validate", "transfer"}
    <2>1. priv[call.fd] \in Objects
      BY <1>2, FileOfCall DEF Inv
    <2>2. \A o \in Objects : /\ dev_mmcfs_table'[o].fs => dev_mmcfs_table[o].fs
                             /\ dev_mmcfs_table'[o].id = dev_mmcfs_table[o].id
                             /\ dev_mmcfs_table'[o].on = dev_mmcfs_table[o].on
      BY <1>2, <2>1 DEF CloseOk, Inv, TypeOK, FIL
    <2> QED BY <2>2 DEF IdInv
  <1>3. CASE \E bits \in SUBSET FaFlags : SetFlag(bits) /\ call.at = "transfer"
    <2>1. priv[call.fd] \in Objects
      BY <1>3, FileOfCall DEF Inv
    <2>2. \A o \in Objects : /\ dev_mmcfs_table'[o].fs = dev_mmcfs_table[o].fs
                             /\ dev_mmcfs_table'[o].id = dev_mmcfs_table[o].id
                             /\ dev_mmcfs_table'[o].on = dev_mmcfs_table[o].on
      BY <1>3, <2>1 DEF SetFlag, Inv, TypeOK, FIL
    <2> QED BY <2>2 DEF IdInv
  <1> QED BY <1>1, <1>2, <1>3

\* Within the bound on mounts the id does not wrap.
LEMMA NextId ==
    ASSUME Fsid \in Nat, Fsid < MaxMounts
    PROVE  NewId = Fsid + 1
  BY MountsAssumption DEF NewId

\* VolumeInv is inductive, given Inv.
LEMMA VolumeKept == Inv /\ VolumeInv /\ [Next]_vars => VolumeInv'
  <1> SUFFICES ASSUME Inv, VolumeInv, [Next]_vars PROVE VolumeInv'
    OBVIOUS
  \* A call that ends, with the volume and the card as they were.
  <1>1. ASSUME Returns, UNCHANGED <<fat, card>>, ready' => ready, IdInv'
        PROVE  VolumeInv'
    BY <1>1 DEF VolumeInv, Returns, Idle, fat
  <1>2. ASSUME NEW flags \in OpenFlags, AltOpen(flags) PROVE VolumeInv'
    <2>1. /\ UNCHANGED <<device, fat, disk, card>>
          /\ call'.at = IF fs_type THEN "status" ELSE "init"
      BY <1>2 DEF AltOpen
    <2>2. IdInv'
      BY <2>1, SameFilesKeep DEF VolumeInv, device, fat
    <2> QED BY <2>1, <2>2 DEF VolumeInv, fat, disk
  <1>3. CASE ChkMounted
    <2>1. /\ fs_type /\ UNCHANGED <<device, fs_id, Fsid, volume, card>>
      BY <1>3 DEF ChkMounted, OpenFails, VolumeInv
    <2>2. ready' = ready
      BY <1>3, DiskStatusType DEF ChkMounted, Inv
    <2>3. IdInv'
      BY <2>1, SameFilesKeep DEF VolumeInv, device
    <2>4. \/ noinit' /\ call'.at = "init"
          \/ ~noinit' /\ call'.at \in {"lookup", "idle"}
      BY <1>3 DEF ChkMounted, At, OpenFails, Returns, Idle, Inv, TypeOK, Calls
    <2>5. (noinit' => ~fs_type') /\ (~noinit' => fs_type')
      BY <1>3, Zenon DEF ChkMounted
    <2> QED BY <2>1, <2>2, <2>3, <2>4, <2>5 DEF VolumeInv
  <1>4. CASE Initialize
    <2>1. UNCHANGED <<fat, card>> /\ ~fs_type /\ UNCHANGED device
      BY <1>4 DEF Initialize, VolumeInv, OpenFails
    <2>2. IdInv'
      BY <2>1, SameFilesKeep DEF VolumeInv, fat, device
    <2>3. call'.at \in {"mount", "idle"}
      BY <1>4 DEF Initialize, At, OpenFails, Returns, Idle, Inv, TypeOK, Calls
    <2> QED BY <2>1, <2>2, <2>3 DEF VolumeInv, fat
  <1>5. CASE Mount
    <2>1. UNCHANGED <<ready, card, device>>
      BY <1>5 DEF Mount, DiskTrouble, OpenFails
    <2>2. CASE OpenFails /\ UNCHANGED fat
      <3>1. IdInv'
        BY <2>1, <2>2, SameFilesKeep DEF VolumeInv, fat, device
      <3> QED BY <1>1, <2>1, <2>2, <3>1 DEF OpenFails
    <2>3. CASE /\ fs_type' = TRUE /\ Fsid' = NewId /\ fs_id' = NewId /\ volume' = card
               /\ At("lookup") /\ Fsid < MaxMounts
      <3>1. /\ fs_type' /\ call'.at = "lookup" /\ volume' = card' /\ Fsid' = Fsid + 1
            /\ fs_id' = Fsid + 1 /\ UNCHANGED dev_mmcfs_table
        BY <2>1, <2>3, NextId DEF At, Inv, TypeOK, Calls, device
      <3>2. \A o \in Objects : dev_mmcfs_table[o].id \in Nat
        BY DEF Inv, TypeOK, FIL
      <3>3. Fsid \in Nat
        BY Zenon DEF Inv, TypeOK
      <3>4. IdInv'
        BY <3>1, <3>2, <3>3 DEF VolumeInv, IdInv
      <3> QED BY <3>1, <3>4 DEF VolumeInv
    <2> QED BY <1>5, <2>2, <2>3 DEF Mount
  <1>6. CASE Lookup
    <2>1. UNCHANGED <<fat, ready, card>> /\ call' = Idle
      BY <1>6 DEF Lookup, OpenFails, Returns
    <2>2. CASE OpenFails
      <3>1. IdInv'
        BY <2>1, <2>2, SameFilesKeep DEF VolumeInv, fat, device, OpenFails
      <3> QED BY <1>1, <2>1, <3>1 DEF Returns
    <2>3. ASSUME NEW mode, dev_mmcfs_table' = [dev_mmcfs_table EXCEPT ![Top] =
                    [fs |-> TRUE, id |-> fs_id, flag |-> mode, on |-> volume]]
          PROVE  IdInv'
      <3>1. \A o \in Objects : \/ dev_mmcfs_table'[o] = dev_mmcfs_table[o]
                               \/ /\ dev_mmcfs_table'[o].id = fs_id
                                  /\ dev_mmcfs_table'[o].on = volume
        BY <2>3 DEF Inv, TypeOK
      <3> QED BY <2>1, <3>1 DEF VolumeInv, IdInv, fat
    <2> QED BY <1>1, <1>6, <2>1, <2>2, <2>3 DEF Lookup, Returns
  <1>7. ASSUME NEW f \in Fds, NEW op, AltCall(op, f) PROVE VolumeInv'
    <2>1. /\ UNCHANGED <<device, fat, disk, card>> /\ call'.at = "validate"
      BY <1>7 DEF AltCall
    <2>2. IdInv'
      BY <2>1, SameFilesKeep DEF VolumeInv, device, fat
    <2> QED BY <2>1, <2>2 DEF VolumeInv, fat, disk
  <1>8. ASSUME Fails, UNCHANGED <<fat, card>>, ready' => ready PROVE VolumeInv'
    <2>1. UNCHANGED dev_mmcfs_table
      BY <1>8 DEF Fails, CloseFails, device
    <2> QED BY <1>1, <1>8, <2>1, SameFilesKeep DEF VolumeInv, Fails, fat
  <1>9. ASSUME CloseOk, Returns, call.at \in {"validate", "transfer"},
               UNCHANGED <<fat, card>>, ready' => ready
        PROVE  VolumeInv'
    BY <1>1, <1>9, SameFilesKeep DEF VolumeInv, fat
  <1>10. CASE Validate
    <2>1. call.at = "validate" /\ UNCHANGED <<fat, card>> /\ (ready' => ready)
      BY <1>10 DEF Validate
    <2>2. CASE ValidObject /\ At("transfer") /\ UNCHANGED <<hal, device>>
      <3>1. /\ UNCHANGED <<priv, dev_mmcfs_table>> /\ call'.fd = call.fd /\ call'.at = "transfer"
        BY <2>2 DEF hal, device, At, Inv, TypeOK, Calls
      <3>2. IdInv'
        BY <2>1, <3>1, SameFilesKeep DEF VolumeInv, fat
      <3>3. ValidObject'
        BY <2>1, <2>2, <3>1 DEF ValidObject, file, fat
      <3> QED BY <2>1, <3>1, <3>2, <3>3 DEF VolumeInv, fat
    <2> QED BY <1>8, <1>9, <1>10, <2>1, <2>2 DEF Validate
  <1>11. CASE Transfer
    <2>1. call.at = "transfer" /\ UNCHANGED <<fat, card>> /\ (ready' => ready)
      BY <1>11 DEF Transfer
    <2>2. CASE Returns /\ UNCHANGED <<hal, device>>
      BY <1>1, <2>1, <2>2, SameFilesKeep DEF VolumeInv, fat, device
    <2>3. ASSUME NEW bits \in SUBSET FaFlags, SetFlag(bits), Returns PROVE VolumeInv'
      BY <1>1, <2>1, <2>3, SameFilesKeep DEF VolumeInv, fat
    <2>4. {"WRITTEN"} \in SUBSET FaFlags /\ {"ERROR"} \in SUBSET FaFlags
      BY DEF FaFlags
    <2> QED BY <1>8, <1>9, <1>11, <2>1, <2>2, <2>3, <2>4 DEF Transfer
  <1>12. CASE CardOut \/ CardIn
    <2>1. UNCHANGED <<hal, device, fat, call>> /\ ~ready'
      BY <1>12 DEF CardOut, CardIn
    <2>2. IdInv'
      BY <2>1, SameFilesKeep DEF VolumeInv, device, fat
    <2> QED BY <2>1, <2>2 DEF VolumeInv, ValidObject, file, hal, device, fat
  <1>13. CASE Restart
    BY <1>13 DEF Restart, VolumeInv, IdInv, BlankFil, Idle
  <1>14. CASE UNCHANGED vars
    BY <1>14 DEF vars, hal, device, fat, disk, VolumeInv, IdInv, ValidObject, file
  <1> QED BY <1>2, <1>3, <1>4, <1>5, <1>6, <1>7, <1>10, <1>11, <1>12, <1>13, <1>14
       DEF Next, Firmware

\* The promise of OwnCard for any number of cards, mounts and files: no file is ever
\* read from or written to another card than its own (ff.c:2008-2158, 2172-2186).
THEOREM OwnCardCorrect == Spec => []OwnCard
  <1>1. Init => VolumeInv
    BY DEF Init, VolumeInv, IdInv, BlankFil, Idle
  <1>2. Inv /\ VolumeInv => OwnCard
    BY FileOfCall DEF Inv, VolumeInv, IdInv, OwnCard, ValidObject, file
  <1> QED BY <1>1, <1>2, Invariance, VolumeKept, PTL DEF Spec

-----------------------------------------------------------------------------
(***************************************************************************)
(* The FAT volume. A census names, for every cluster, the file it belongs  *)
(* to (own) and its place in the chain (idx), and for every file how many  *)
(* clusters it has (len). Chains are recursive; that a chain ends, and     *)
(* that two chains are disjoint, follow from a census, which a step of the *)
(* volume changes at one cluster at a time. The invariant, Rest, says that *)
(* between calls some census accounts for the FAT the firmware sees and    *)
(* the files as the open handles hold them, and that the card without the  *)
(* window has a census too. Inside a call, each lemma follows the census   *)
(* through one operator, over every access that may fail and every point   *)
(* at which the power may go.                                              *)
(***************************************************************************)

\* What the census is taken against: for every name a start and a size.
Maps == [Names -> [sclust : {-1, 0, Bad} \cup Clusters, size : Int]]
\* The file a cluster belongs to, or "none".
Owners == [Clusters -> Names \cup {"none"}]
\* Where in the chain of its file a cluster stands, from 1.
Places == [Clusters -> Nat]
\* How many clusters a file has.
Lengths == [Names -> Nat]

\* Who owns each cluster and as which of its clusters; how many each name has.
Census(tab, files, own, idx, len) ==
    /\ \A n \in Names :
         IF files[n].sclust \in Clusters
         THEN own[files[n].sclust] = n /\ idx[files[n].sclust] = 1
         ELSE len[n] = 0
    /\ \A c \in Clusters : own[c] # "none" =>
         /\ 1 <= idx[c] /\ idx[c] <= len[own[c]]
         /\ idx[c] = len[own[c]] => tab[c] = LastLink
         /\ idx[c] < len[own[c]] => /\ tab[c] \in Clusters
                                    /\ own[tab[c]] = own[c] /\ idx[tab[c]] = idx[c] + 1
    /\ \A c, d \in Clusters : own[c] # "none" /\ own[c] = own[d] /\ idx[c] = idx[d] => c = d

\* Each file fits into its clusters.
Fits(files, len) == \A n \in Names : files[n].sclust # Bad => files[n].size <= len[n] * Bytes

\* Some census accounts for every entry of the FAT that a directory reaches.
Tidy(tab, files, long) ==
    \E own \in Owners, idx \in Places, len \in Lengths :
        Census(tab, files, own, idx, len) /\ (long => Fits(files, len))

\* The card alone is tidy: what a mount after a loss of power would find.
CardSound(s) == Tidy(FatOf(s), s.card[DirSector], ~s.cut)
\* The card under the dirty window is tidy: what the firmware sees.
SeenSound(s) == Tidy(FatSeen(s), DirSeen(s), ~s.cut)
\* What holds of the volume at every point of a call.
Volume(s) == s \in States /\ WindowOK(s) /\ CardSound(s) /\ SeenSound(s)

\* FAT and directory look the same in t as in s.
SameView(s, t) == FatSeen(t) = FatSeen(s) /\ DirSeen(t) = DirSeen(s) /\ t.cut = s.cut
\* The file at work and the other handles are the same in t as in s.
SameFile(s, t) == t.f = s.f /\ t.n = s.n /\ t.open = s.open
\* A step that neither FAT, directory nor file can tell.
Kept(s, t) == SameView(s, t) /\ SameFile(s, t)

\* The constants as numbers: all that the proofs use of them.
LEMMA Constants ==
    /\ LastLink \in Nat /\ NFatEnt \in Nat /\ NFatEnt > 2 /\ NFatEnt <= LastLink - 8
    /\ "none" \notin Names
    /\ PerSect \in Nat /\ PerSect > 0 /\ SS \in Nat /\ SS > 0 /\ CSize \in Nat /\ CSize > 0
    /\ Bytes \in Nat /\ Bytes > 0
<1>1. LastLink \in Nat
  BY SMT DEF LastLink
<1> QED BY <1>1, FatAssumption DEF Bytes

\* The end mark and the failed read are neither clusters nor free entries.
LEMMA Markers ==
    /\ Clusters \subseteq Nat /\ LastLink \in Nat /\ Bad \in Nat /\ LastLink # Bad
    /\ \A c \in Clusters : c >= 2 /\ c < NFatEnt /\ c < LastLink /\ c < Bad
    /\ LastLink \notin Clusters /\ Bad \notin Clusters /\ 0 \notin Clusters /\ 1 \notin Clusters
    /\ -1 \notin Clusters /\ -1 # Bad
    /\ LastLink >= NFatEnt /\ Bad >= NFatEnt /\ LastLink > 1
    /\ \A c \in Nat : c >= 2 /\ c < NFatEnt => c \in Clusters
  BY Constants DEF Clusters, Bad

\* Division by a positive number is monotone.
LEMMA DivLeq ==
    ASSUME NEW a \in Nat, NEW b \in Nat, a <= b, NEW d \in Nat, d > 0
    PROVE  a \div d \in Nat /\ b \div d \in Nat /\ a \div d <= b \div d
<1>1. a \div d \in Nat /\ b \div d \in Nat
  OBVIOUS
<1>2. a = d * (a \div d) + (a % d) /\ a % d \in Nat
  OBVIOUS
<1>3. b = d * (b \div d) + (b % d) /\ b % d \in Nat /\ b % d < d
  OBVIOUS
<1>4. \A p, q \in Nat : q + 1 <= p => d * p >= d * q + d
  OBVIOUS
<1> QED BY <1>1, <1>2, <1>3, <1>4

\* FAT sectors, directory and boot sector are different sectors.
LEMMA SectorKinds ==
    /\ 0 \in Sectors /\ DirSector \in Sectors /\ DirSector # 0
    /\ \A c \in Clusters : FatSector(c) \in Sectors /\ FatSector(c) # 0 /\ FatSector(c) # DirSector
<1>1. NFatEnt \div PerSect \in Nat
  BY Constants
<1>2. ASSUME NEW c \in Clusters PROVE FatSector(c) # 0 /\ FatSector(c) # DirSector
  <2>1. c \in Nat /\ c <= NFatEnt
    BY Markers, Constants
  <2>2. c \div PerSect \in Nat /\ c \div PerSect <= NFatEnt \div PerSect
    BY <2>1, Constants, DivLeq
  <2> QED BY <2>2, <1>1 DEF FatSector, DirSector
<1> QED BY <1>1, <1>2 DEF Sectors, FatSectors, DirSector

\* A failed access changes the fault budget and the result, nothing else.
LEMMA FailedKeeps ==
    ASSUME NEW s \in States, NEW t \in Failed(s)
    PROVE  /\ t \in States /\ t.res = "DISK_ERR" /\ t.live = s.live
           /\ \E k \in Nat : t = [s EXCEPT !.faults = k, !.res = "DISK_ERR"]
<1>1. s.faults \in Nat /\ s.faults # 0 /\ t = [s EXCEPT !.faults = s.faults - 1, !.res = "DISK_ERR"]
  BY DEF Failed, States
<1>2. \A k \in Nat : [s EXCEPT !.faults = k, !.res = "DISK_ERR"] \in States
  BY DEF States, Results
<1>3. s.faults - 1 \in Nat
  BY <1>1
<1> QED BY <1>1, <1>2, <1>3 DEF States

\* A loss of power changes the budget of losses and stops the machine.
LEMMA LostKeeps ==
    ASSUME NEW s \in States, NEW t \in Lost(s)
    PROVE  /\ t \in States /\ t.live = FALSE
           /\ \E k \in Nat : t = [s EXCEPT !.crashes = k, !.live = FALSE]
<1>1. s.crashes \in Nat /\ s.crashes # 0 /\ t = [s EXCEPT !.crashes = s.crashes - 1, !.live = FALSE]
  BY DEF Lost, States
<1>2. \A k \in Nat : [s EXCEPT !.crashes = k, !.live = FALSE] \in States
  BY DEF States
<1>3. s.crashes - 1 \in Nat
  BY <1>1
<1> QED BY <1>1, <1>2, <1>3 DEF States

\* The outcomes of one write: done, failed or lost, before or after it reached the card.
LEMMA DiskWriteCases ==
    ASSUME NEW s, NEW w, NEW t \in DiskWrite(s, w)
    PROVE  t = Set(w, "OK") \/ t \in Failed(s) \cup Failed(w) \cup Lost(s) \cup Lost(w)
<1> DEFINE both == <<s, w>>
<1>1. Len(both) = 2 /\ DOMAIN both = {1, 2} /\ both[1] = s /\ both[2] = w
  OBVIOUS
<1> HIDE DEF both
<1>2. t \in {Set(w, "OK")} \cup {Set(w, "OK")} \cup
        UNION {Failed(both[i]) \cup Lost(both[i]) : i \in DOMAIN both}
  BY <1>1 DEF DiskWrite, DiskWriteMany, both
<1> QED BY <1>1, <1>2

\* Card and window are the same in t as in s.
SameWindow(s, t) == /\ t.card = s.card /\ t.win = s.win /\ t.winsect = s.winsect
                    /\ t.wflag = s.wflag /\ t.cut = s.cut

\* A step that leaves card and window alone keeps the volume and its view.
LEMMA VolumeSame ==
    ASSUME NEW s, NEW t, Volume(s), t \in States, SameWindow(s, t)
    PROVE  Volume(t) /\ SameView(s, t)
  BY DEF Volume, WindowOK, CardSound, SeenSound, FatOf, FatSeen, DirSeen, SameView, SameWindow

\* A failed access keeps the volume.
LEMMA FailedVolume ==
    ASSUME NEW s, Volume(s), NEW t \in Failed(s)
    PROVE  /\ Volume(t) /\ Kept(s, t) /\ SameWindow(s, t) /\ t.x = s.x /\ t.ncl = s.ncl
           /\ t.res = "DISK_ERR" /\ t.live = s.live
<1>s. s \in States
  BY DEF Volume
<1>0. PICK k \in Nat : t = [s EXCEPT !.faults = k, !.res = "DISK_ERR"]
  BY ZenonT(60), <1>s, FailedKeeps
<1>1. SameWindow(s, t) /\ SameFile(s, t) /\ t.x = s.x /\ t.ncl = s.ncl /\ t.live = s.live
  BY <1>s, <1>0 DEF States, SameWindow, SameFile
<1> QED BY <1>1, FailedKeeps, VolumeSame DEF Kept, Volume

\* A loss of power keeps the volume.
LEMMA LostVolume ==
    ASSUME NEW s, Volume(s), NEW t \in Lost(s)
    PROVE  /\ Volume(t) /\ Kept(s, t) /\ SameWindow(s, t) /\ t.x = s.x /\ t.ncl = s.ncl
           /\ t.live = FALSE
<1>s. s \in States
  BY DEF Volume
<1>0. PICK k \in Nat : t = [s EXCEPT !.crashes = k, !.live = FALSE]
  BY <1>s, LostKeeps
<1>1. SameWindow(s, t) /\ SameFile(s, t) /\ t.x = s.x /\ t.ncl = s.ncl
  BY <1>s, <1>0 DEF States, SameWindow, SameFile
<1> QED BY <1>1, LostKeeps, VolumeSame DEF Kept, Volume

\* Setting the result keeps the volume.
LEMMA SetVolume ==
    ASSUME NEW s, Volume(s), NEW r \in Results
    PROVE  /\ Volume(Set(s, r)) /\ Kept(s, Set(s, r)) /\ SameWindow(s, Set(s, r))
           /\ Set(s, r).x = s.x /\ Set(s, r).ncl = s.ncl
           /\ Set(s, r).res = r /\ Set(s, r).live = s.live
<1>1. Set(s, r) \in States /\ SameWindow(s, Set(s, r)) /\ SameFile(s, Set(s, r))
  BY DEF States, SameWindow, SameFile, Volume, Set
<1>2. /\ Set(s, r).x = s.x /\ Set(s, r).ncl = s.ncl
      /\ Set(s, r).res = r /\ Set(s, r).live = s.live
  BY DEF States, Volume, Set
<1> QED BY <1>1, <1>2, VolumeSame DEF Kept, Volume

\* Writing the dirty window back changes the card and not the view.
LEMMA WindowWritten ==
    ASSUME NEW s, Volume(s), s.wflag, NEW w, w = [s EXCEPT !.card[s.winsect] = s.win]
    PROVE  /\ Volume(w) /\ Kept(s, w) /\ w.x = s.x /\ w.ncl = s.ncl /\ w.live = s.live
           /\ w.winsect = s.winsect /\ w.winsect # 0 /\ w.wflag
           /\ w.win = w.card[w.winsect]
<1>1. s \in States /\ WindowOK(s) /\ s.winsect # 0 /\ s.winsect \in Sectors /\ s.win \in Contents
  BY DEF Volume, WindowOK, States
<1>2. w \in States /\ SameFile(s, w) /\ w.x = s.x /\ w.ncl = s.ncl /\ w.live = s.live
  BY <1>1 DEF States, SameFile
<1>3. /\ w.card = [s.card EXCEPT ![s.winsect] = s.win] /\ w.win = s.win
      /\ w.winsect = s.winsect /\ w.wflag = s.wflag /\ w.cut = s.cut
      /\ s.card \in [Sectors -> Contents]
  BY <1>1 DEF States
<1>4. /\ w.card[s.winsect] = s.win
      /\ \A sect \in Sectors : sect # s.winsect => w.card[sect] = s.card[sect]
  BY <1>1, <1>3
<1>5. WindowOK(w)
  BY <1>1, <1>3, <1>4, SectorKinds DEF WindowOK
<1>6. \A c \in Clusters : w.card[FatSector(c)][c] = FatSeen(s)[c]
  BY <1>4, SectorKinds DEF FatSeen
<1>7. FatOf(w) = FatSeen(s) /\ FatSeen(w) = FatSeen(s)
  BY <1>6, <1>3 DEF FatOf, FatSeen
<1>8. w.card[DirSector] = DirSeen(s) /\ DirSeen(w) = DirSeen(s)
  BY <1>4, <1>3, SectorKinds DEF DirSeen
<1>9. CardSound(w) /\ SeenSound(w)
  BY <1>7, <1>8, <1>3 DEF Volume, CardSound, SeenSound
<1> QED BY <1>1, <1>2, <1>3, <1>4, <1>5, <1>7, <1>8, <1>9 DEF Volume, Kept, SameView

\* A window that holds what the card has may be marked clean.
LEMMA WindowCleaned ==
    ASSUME NEW w, Volume(w), w.winsect # 0, w.win = w.card[w.winsect]
    PROVE  LET u == [w EXCEPT !.wflag = FALSE]
           IN  /\ Volume(u) /\ Kept(w, u) /\ u.x = w.x /\ u.ncl = w.ncl /\ u.live = w.live
               /\ u.winsect = w.winsect /\ ~u.wflag /\ u.res = w.res
<1> DEFINE u == [w EXCEPT !.wflag = FALSE]
<1>1. w \in States /\ WindowOK(w)
  BY DEF Volume
<1>2. /\ u \in States /\ SameFile(w, u) /\ u.x = w.x /\ u.ncl = w.ncl /\ u.live = w.live
      /\ u.winsect = w.winsect /\ ~u.wflag /\ u.res = w.res
      /\ u.card = w.card /\ u.win = w.win /\ u.cut = w.cut
  BY <1>1 DEF States, SameFile
<1> HIDE DEF u
<1>3. WindowOK(u)
  BY <1>1, <1>2 DEF WindowOK
<1>4. FatOf(u) = FatOf(w) /\ FatSeen(u) = FatSeen(w) /\ DirSeen(u) = DirSeen(w)
  BY <1>2 DEF FatOf, FatSeen, DirSeen
<1>5. CardSound(u) /\ SeenSound(u)
  BY <1>2, <1>4 DEF Volume, CardSound, SeenSound
<1> QED BY <1>2, <1>3, <1>4, <1>5 DEF u, Volume, Kept, SameView

\* Loading a sector into a clean window changes no view.
LEMMA WindowLoaded ==
    ASSUME NEW s, Volume(s), ~s.wflag, NEW sector \in Sectors, sector # 0
    PROVE  LET u == [s EXCEPT !.win = s.card[sector], !.winsect = sector]
           IN  /\ Volume(u) /\ Kept(s, u) /\ u.x = s.x /\ u.ncl = s.ncl /\ u.live = s.live
               /\ u.winsect = sector
<1> DEFINE u == [s EXCEPT !.win = s.card[sector], !.winsect = sector]
<1>1. s \in States /\ WindowOK(s) /\ s.card[sector] \in Contents
  BY DEF Volume, States
<1>2. /\ u \in States /\ SameFile(s, u) /\ u.x = s.x /\ u.ncl = s.ncl /\ u.live = s.live
      /\ u.winsect = sector /\ u.win = s.card[sector] /\ u.wflag = s.wflag
      /\ u.card = s.card /\ u.cut = s.cut
  BY <1>1 DEF States, SameFile
<1> HIDE DEF u
<1>3. WindowOK(u)
  BY <1>1, <1>2 DEF WindowOK
<1>4. s.winsect # 0 => s.win = s.card[s.winsect]
  BY <1>1 DEF WindowOK
<1>5. \A c \in Clusters : /\ (IF s.winsect = FatSector(c) THEN s.win[c] ELSE s.card[FatSector(c)][c])
                               = s.card[FatSector(c)][c]
                          /\ (IF u.winsect = FatSector(c) THEN u.win[c] ELSE u.card[FatSector(c)][c])
                               = s.card[FatSector(c)][c]
  BY <1>2, <1>4, SectorKinds
<1>6. FatOf(u) = FatOf(s) /\ FatSeen(u) = FatSeen(s)
  BY <1>2, <1>5 DEF FatOf, FatSeen
<1>7. DirSeen(u) = DirSeen(s)
  BY <1>2, <1>4, SectorKinds DEF DirSeen
<1>8. CardSound(u) /\ SeenSound(u)
  BY <1>2, <1>6, <1>7 DEF Volume, CardSound, SeenSound
<1> QED BY <1>2, <1>3, <1>6, <1>7, <1>8 DEF u, Volume, Kept, SameView

\* Steps nobody can tell compose.
LEMMA KeptTrans ==
    ASSUME NEW s, NEW t, NEW u, Kept(s, t), Kept(t, u)
    PROVE  Kept(s, u)
  BY DEF Kept, SameView, SameFile

\* What move_window may do.
Moved(s, t) ==
    /\ Volume(t) /\ Kept(s, t) /\ t.x = s.x /\ t.ncl = s.ncl
    /\ t.live => t.res \in {"OK", "DISK_ERR"}
    /\ s.winsect # 0 => t.winsect # 0

\* move_window's write of a dirty window.
WriteBack(s) == IF s.wflag
                THEN IfOk(DiskWrite(s, [s EXCEPT !.card[s.winsect] = s.win]),
                          LAMBDA t : {[t EXCEPT !.wflag = FALSE]})
                ELSE {Set(s, "OK")}

\* The write-back keeps the view and leaves a clean window when it succeeds.
LEMMA WriteBackKeeps ==
    ASSUME NEW s, Volume(s), NEW t \in WriteBack(s)
    PROVE  Moved(s, t) /\ (t.live /\ t.res = "OK" => ~t.wflag) /\ t.winsect = s.winsect
<1>1. CASE ~s.wflag
  <2>1. t = Set(s, "OK") /\ "OK" \in Results
    BY <1>1 DEF WriteBack, Results
  <2> QED BY <2>1, <1>1, SetVolume DEF Moved, SameWindow
<1>2. CASE s.wflag
  <2> DEFINE w == [s EXCEPT !.card[s.winsect] = s.win]
  <2>1. PICK d \in DiskWrite(s, w) :
          t = IF d.live /\ d.res = "OK" THEN [d EXCEPT !.wflag = FALSE] ELSE d
    BY <1>2 DEF WriteBack, IfOk, Then
  <2>2. /\ Volume(w) /\ Kept(s, w) /\ w.x = s.x /\ w.ncl = s.ncl /\ w.live = s.live
        /\ w.winsect = s.winsect /\ w.winsect # 0 /\ w.win = w.card[w.winsect]
    BY <1>2, WindowWritten
  <2> HIDE DEF w
  <2>3. d = Set(w, "OK") \/ d \in Failed(s) \cup Failed(w) \cup Lost(s) \cup Lost(w)
    BY DiskWriteCases
  <2>4. CASE d = Set(w, "OK")
    <3>1. /\ Volume(d) /\ Kept(w, d) /\ SameWindow(w, d) /\ d.x = w.x /\ d.ncl = w.ncl
          /\ d.res = "OK" /\ d.live = w.live
      BY <2>4, <2>2, SetVolume DEF Results
    <3>2. d.winsect # 0 /\ d.win = d.card[d.winsect] /\ d.winsect = s.winsect
      BY <2>2, <3>1 DEF SameWindow
    <3>3. Kept(s, d)
      BY <2>2, <3>1, KeptTrans
    <3>4. CASE ~d.live
      BY <3>4, <2>1, <2>2, <3>1, <3>2, <3>3 DEF Moved
    <3>5. CASE d.live
      <4>1. /\ Volume(t) /\ Kept(d, t) /\ t.x = d.x /\ t.ncl = d.ncl /\ t.live = d.live
            /\ t.winsect = d.winsect /\ ~t.wflag /\ t.res = d.res
        BY <2>1, <3>1, <3>2, <3>5, WindowCleaned
      <4>2. Kept(s, t)
        BY <3>3, <4>1, KeptTrans
      <4> QED BY <2>2, <3>1, <3>2, <4>1, <4>2 DEF Moved
    <3> QED BY <3>4, <3>5
  <2>5. CASE d \in Failed(s) \cup Lost(s)
    <3>1. Volume(d) /\ Kept(s, d) /\ SameWindow(s, d) /\ d.x = s.x /\ d.ncl = s.ncl
          /\ (d.live => d.res = "DISK_ERR")
      BY <2>5, FailedVolume, LostVolume
    <3>2. t = d
      BY <2>1, <3>1
    <3> QED BY <3>1, <3>2, <2>2 DEF Moved, SameWindow
  <2>6. CASE d \in Failed(w) \cup Lost(w)
    <3>1. Volume(d) /\ Kept(w, d) /\ SameWindow(w, d) /\ d.x = w.x /\ d.ncl = w.ncl
          /\ (d.live => d.res = "DISK_ERR")
      BY <2>2, <2>6, FailedVolume, LostVolume
    <3>2. t = d
      BY <2>1, <3>1
    <3>3. Kept(s, d)
      BY <2>2, <3>1, KeptTrans
    <3> QED BY <3>1, <3>2, <3>3, <2>2 DEF Moved, SameWindow
  <2> QED BY <2>3, <2>4, <2>5, <2>6
<1> QED BY <1>1, <1>2

\* The outcomes of one read: done, or failed with the buffer untouched.
LEMMA DiskReadKeeps ==
    ASSUME NEW s, NEW u, NEW t \in DiskRead(s, u)
    PROVE  t = Set(u, "OK") \/ t \in Failed(s)
  BY DEF DiskRead

\* move_window keeps the view; when it succeeds the window holds the sector asked for.
LEMMA MoveWindow ==
    ASSUME NEW s, Volume(s), NEW sector \in Sectors, NEW t \in move_window(s, sector)
    PROVE  /\ Moved(s, t)
           /\ t.live /\ t.res = "OK" /\ sector # 0 => t.winsect = sector
           /\ t.live /\ t.res = "OK" /\ sector = 0 => ~t.wflag
<1>1. CASE s.winsect = sector
  <2>1. t = Set(s, "OK") /\ "OK" \in Results
    BY <1>1 DEF move_window, Results
  <2>2. s.winsect = 0 => ~s.wflag
    BY DEF Volume, WindowOK
  <2> QED BY <2>1, <2>2, <1>1, SetVolume DEF Moved, SameWindow
<1>2. CASE s.winsect # sector
  <2>1. PICK b \in WriteBack(s) :
          t \in IF b.live /\ b.res = "OK"
                THEN (IF sector = 0 THEN {b}
                      ELSE DiskRead(b, [b EXCEPT !.win = b.card[sector], !.winsect = sector]))
                ELSE {b}
    BY <1>2 DEF move_window, WriteBack, IfOk, Then
  <2>2. Moved(s, b) /\ (b.live /\ b.res = "OK" => ~b.wflag) /\ b.winsect = s.winsect
    BY WriteBackKeeps
  <2>3. CASE ~(b.live /\ b.res = "OK") \/ sector = 0
    <3>1. t = b
      BY <2>1, <2>3
    <3> QED BY <3>1, <2>2, <2>3
  <2>4. CASE b.live /\ b.res = "OK" /\ sector # 0
    <3> DEFINE u == [b EXCEPT !.win = b.card[sector], !.winsect = sector]
    <3>1. t \in DiskRead(b, u)
      BY <2>1, <2>4
    <3>2. /\ Volume(u) /\ Kept(b, u) /\ u.x = b.x /\ u.ncl = b.ncl /\ u.live = b.live
          /\ u.winsect = sector
      BY <2>2, <2>4, WindowLoaded DEF Moved
    <3> HIDE DEF u
    <3>3. CASE t = Set(u, "OK")
      <4>1. /\ Volume(t) /\ Kept(u, t) /\ SameWindow(u, t) /\ t.x = u.x /\ t.ncl = u.ncl
            /\ t.res = "OK" /\ t.live = u.live
        BY <3>2, <3>3, SetVolume DEF Results
      <4>2. Kept(s, t)
        BY <2>2, <3>2, <4>1, KeptTrans DEF Moved
      <4> QED BY <2>2, <2>4, <3>2, <4>1, <4>2 DEF Moved, SameWindow
    <3>4. CASE t \in Failed(b)
      <4>1. /\ Volume(t) /\ Kept(b, t) /\ SameWindow(b, t) /\ t.x = b.x /\ t.ncl = b.ncl
            /\ t.res = "DISK_ERR" /\ t.live = b.live
        BY <2>2, <3>4, FailedVolume DEF Moved
      <4>2. Kept(s, t)
        BY <2>2, <4>1, KeptTrans DEF Moved
      <4> QED BY <2>2, <2>4, <4>1, <4>2 DEF Moved, SameWindow
    <3> QED BY <3>1, <3>3, <3>4, DiskReadKeeps
  <2> QED BY <2>3, <2>4
<1> QED BY <1>1, <1>2

\* The value a helper returns is not part of the view.
LEMMA SetX ==
    ASSUME NEW s, Volume(s), NEW k \in Nat
    PROVE  LET u == [s EXCEPT !.x = k]
           IN  /\ Volume(u) /\ Kept(s, u) /\ SameWindow(s, u) /\ u.x = k /\ u.ncl = s.ncl
               /\ u.res = s.res /\ u.live = s.live
<1> DEFINE u == [s EXCEPT !.x = k]
<1>1. /\ u \in States /\ SameWindow(s, u) /\ SameFile(s, u) /\ u.x = k /\ u.ncl = s.ncl
      /\ u.res = s.res /\ u.live = s.live
  BY DEF Volume, States, SameWindow, SameFile
<1> HIDE DEF u
<1>2. Volume(u) /\ SameView(s, u)
  BY <1>1, VolumeSame
<1> QED BY <1>1, <1>2 DEF u, Kept

\* The window's entry of a cluster in it is the one the FAT seen has.
LEMMA WindowLink ==
    ASSUME NEW s, Volume(s), NEW c \in Clusters, s.winsect = FatSector(c)
    PROVE  /\ s.win \in [{d \in Clusters : FatSector(d) = FatSector(c)} -> Links]
           /\ s.win[c] = FatSeen(s)[c] /\ s.win[c] \in Links
<1>1. s.win \in Content(FatSector(c))
  BY DEF Volume, WindowOK
<1>2. s.win \in [{d \in Clusters : FatSector(d) = FatSector(c)} -> Links]
  BY <1>1, SectorKinds DEF Content
<1>3. c \in {d \in Clusters : FatSector(d) = FatSector(c)}
  OBVIOUS
<1> QED BY <1>2, <1>3 DEF FatSeen

\* What get_fat may return: the entry seen, 1 for no cluster, 0xFFFFFFFF when the read
\* failed.
Fetched(s, t, c) ==
    /\ Volume(t) /\ Kept(s, t) /\ t.ncl = s.ncl
    /\ s.winsect # 0 => t.winsect # 0
    /\ t.live => /\ t.x \in Links \cup {1, Bad}
                 /\ c \notin Clusters => t.x = 1
                 /\ c \in Clusters => t.x # 1
                 /\ t.x \notin {1, Bad} => /\ t.x = FatSeen(s)[c] /\ t.res = "OK"
                                           /\ t.winsect = FatSector(c)

\* The results 1 and 0xFFFFFFFF of get_fat are no FAT entries.
LEMMA LinksType ==
    Links \subseteq Nat /\ 1 \notin Links /\ Bad \notin Links /\ 1 # Bad /\ 0 # Bad
  BY Markers, Constants DEF Links

\* get_fat returns the entry and keeps the view.
LEMMA GetFat ==
    ASSUME NEW s, Volume(s), NEW c, NEW t \in get_fat(s, c)
    PROVE  Fetched(s, t, c)
<1>1. CASE c \notin Clusters
  <2>1. t = [s EXCEPT !.x = 1] /\ 1 \in Nat
    BY <1>1 DEF get_fat
  <2> QED BY <2>1, <1>1, SetX DEF Fetched, SameWindow
<1>2. CASE c \in Clusters
  <2>1. PICK m \in move_window(s, FatSector(c)) :
          t = IF m.live THEN [m EXCEPT !.x = IF m.res = "OK" THEN m.win[c] ELSE Bad] ELSE m
    BY <1>2 DEF get_fat, Then
  <2>2. /\ Moved(s, m)
        /\ m.live /\ m.res = "OK" => m.winsect = FatSector(c)
    BY <1>2, MoveWindow, SectorKinds
  <2>3. CASE ~m.live
    BY <2>1, <2>2, <2>3 DEF Moved, Fetched
  <2>4. CASE m.live /\ m.res = "OK"
    <3>1. m.win[c] = FatSeen(m)[c] /\ m.win[c] \in Links
      BY <1>2, <2>2, <2>4, WindowLink DEF Moved
    <3> DEFINE k == m.win[c]
    <3>2. t = [m EXCEPT !.x = k] /\ k \in Nat /\ k # 1 /\ k # Bad
      BY <2>1, <2>4, <3>1, LinksType
    <3>3. FatSeen(m) = FatSeen(s)
      BY <2>2 DEF Moved, Kept, SameView
    <3> HIDE DEF k
    <3>4. /\ Volume(t) /\ Kept(m, t) /\ SameWindow(m, t) /\ t.x = k /\ t.ncl = m.ncl
          /\ t.res = m.res /\ t.live = m.live
      BY <2>2, <3>2, SetX DEF Moved
    <3>5. Kept(s, t)
      BY <2>2, <3>4, KeptTrans DEF Moved
    <3> QED BY <1>2, <2>2, <2>4, <3>1, <3>2, <3>3, <3>4, <3>5 DEF Moved, Fetched, SameWindow, k
  <2>5. CASE m.live /\ m.res # "OK"
    <3>2. t = [m EXCEPT !.x = Bad] /\ Bad \in Nat /\ Bad # 1
      BY <2>1, <2>5, Markers, LinksType
    <3>4. /\ Volume(t) /\ Kept(m, t) /\ SameWindow(m, t) /\ t.x = Bad /\ t.ncl = m.ncl
          /\ t.res = m.res /\ t.live = m.live
      BY <2>2, <3>2, SetX DEF Moved
    <3>5. Kept(s, t)
      BY <2>2, <3>4, KeptTrans DEF Moved
    <3> QED BY <1>2, <2>2, <2>5, <3>2, <3>4, <3>5 DEF Moved, Fetched, SameWindow
  <2> QED BY <2>3, <2>4, <2>5
<1> QED BY <1>1, <1>2

\* What one put_fat may do to a volume.
Linked(s, t, c, val) ==
    /\ Volume(t) /\ SameFile(s, t) /\ DirSeen(t) = DirSeen(s) /\ t.cut = s.cut
    /\ t.x = s.x /\ t.ncl = s.ncl /\ t.winsect # 0
    /\ t.live => t.res \in {"OK", "DISK_ERR"}
    /\ FatSeen(t) = IF t.live /\ t.res = "OK" THEN [FatSeen(s) EXCEPT ![c] = val]
                    ELSE FatSeen(s)
    /\ t.live /\ t.res = "OK" => t.winsect = FatSector(c)

\* put_fat changes one entry of the FAT seen when the new FAT is tidy, or none.
LEMMA PutFat ==
    ASSUME NEW s, Volume(s), s.winsect # 0, NEW c \in Clusters, NEW val \in Links,
           Tidy([FatSeen(s) EXCEPT ![c] = val], DirSeen(s), ~s.cut),
           NEW t \in put_fat(s, c, val)
    PROVE  Linked(s, t, c, val)
<1>1. PICK m \in move_window(s, FatSector(c)) :
          t = IF m.live
              THEN [m EXCEPT !.wflag = TRUE,
                             !.win = IF m.res = "OK" THEN [@ EXCEPT ![c] = val] ELSE @]
              ELSE m
  BY DEF put_fat, Then
<1>2. /\ Moved(s, m)
      /\ m.live /\ m.res = "OK" => m.winsect = FatSector(c)
  BY MoveWindow, SectorKinds
<1>3. CASE ~m.live
  BY <1>1, <1>2, <1>3 DEF Moved, Linked, Kept, SameView
<1>4. CASE m.live
  <2> DEFINE w == IF m.res = "OK" THEN [m.win EXCEPT ![c] = val] ELSE m.win
  <2>1. m \in States /\ WindowOK(m) /\ m.winsect # 0
    BY <1>2 DEF Moved, Volume
  <2>2. /\ w \in Content(m.winsect)
        /\ m.winsect = DirSector => w = m.win
        /\ \A d \in Clusters : m.winsect = FatSector(d) =>
              w[d] = IF m.res = "OK" /\ d = c THEN val ELSE m.win[d]
    <3>1. CASE m.res = "OK"
      <4>1. m.win \in [{d \in Clusters : FatSector(d) = FatSector(c)} -> Links]
        BY <1>2, <1>4, <3>1, WindowLink DEF Moved
      <4>2. w = [m.win EXCEPT ![c] = val]
        BY <3>1
      <4> HIDE DEF w
      <4>3. w \in [{d \in Clusters : FatSector(d) = FatSector(c)} -> Links]
        BY <4>1, <4>2
      <4> QED BY <1>2, <1>4, <3>1, <4>1, <4>2, <4>3, SectorKinds DEF Content
    <3>2. CASE m.res # "OK"
      BY <3>2, <2>1 DEF WindowOK
    <3> QED BY <3>1, <3>2
  <2> HIDE DEF w
  <2>3. w \in Contents
    BY <2>1, <2>2 DEF Contents, States
  <2>4. t = [m EXCEPT !.wflag = TRUE, !.win = w]
    BY <1>1, <1>4, <2>1 DEF w, States
  <2>5. /\ t \in States /\ SameFile(m, t) /\ t.x = m.x /\ t.ncl = m.ncl /\ t.live = m.live
        /\ t.res = m.res /\ t.winsect = m.winsect /\ t.win = w /\ t.wflag = TRUE
        /\ t.card = m.card /\ t.cut = m.cut
    BY <2>1, <2>3, <2>4 DEF States, SameFile
  <2>6. WindowOK(t)
    BY <2>1, <2>2, <2>5 DEF WindowOK
  <2>7. FatOf(t) = FatOf(m) /\ DirSeen(t) = DirSeen(m)
    BY <2>2, <2>5 DEF FatOf, DirSeen
  <2>8. m.res = "OK" => m.winsect = FatSector(c)
    BY <1>2, <1>4
  <2>9. FatSeen(t) = IF m.res = "OK" THEN [FatSeen(m) EXCEPT ![c] = val] ELSE FatSeen(m)
    BY <2>2, <2>5, <2>8 DEF FatSeen
  <2>10. FatSeen(m) = FatSeen(s) /\ DirSeen(m) = DirSeen(s) /\ m.cut = s.cut
    BY <1>2 DEF Moved, Kept, SameView
  <2>11. SeenSound(m) /\ CardSound(m)
    BY <1>2 DEF Moved, Volume
  <2>12. SeenSound(t)
    BY <2>5, <2>7, <2>9, <2>10, <2>11 DEF SeenSound
  <2>13. CardSound(t)
    BY <2>5, <2>7, <2>11 DEF CardSound
  <2>14. SameFile(s, t)
    BY <1>2, <2>5 DEF SameFile, Moved, Kept
  <2> QED BY <1>2, <1>4, <2>1, <2>5, <2>6, <2>7, <2>8, <2>9, <2>10, <2>12, <2>13, <2>14
          DEF Linked, Moved, Volume
<1> QED BY <1>3, <1>4

\* FSInfo may be built in a clean window, which then stands for no sector.
LEMMA FsInfoBuilt ==
    ASSUME NEW s, Volume(s), ~s.wflag
    PROVE  LET u == [s EXCEPT !.winsect = 0, !.win = FsInfo]
           IN  /\ Volume(u) /\ Kept(s, u) /\ u.x = s.x /\ u.ncl = s.ncl /\ u.live = s.live
               /\ u.winsect = 0
<1> DEFINE u == [s EXCEPT !.winsect = 0, !.win = FsInfo]
<1>1. s \in States /\ WindowOK(s)
  BY DEF Volume
<1>2. FsInfo \in Content(0) /\ FsInfo \in Contents
  BY SectorKinds DEF Content, Contents
<1>3. /\ u \in States /\ SameFile(s, u) /\ u.x = s.x /\ u.ncl = s.ncl /\ u.live = s.live
      /\ u.winsect = 0 /\ u.win = FsInfo /\ u.wflag = s.wflag
      /\ u.card = s.card /\ u.cut = s.cut
  BY <1>1, <1>2, SectorKinds DEF States, SameFile
<1> HIDE DEF u
<1>4. WindowOK(u)
  BY <1>1, <1>2, <1>3 DEF WindowOK
<1>5. s.winsect # 0 => s.win = s.card[s.winsect]
  BY <1>1 DEF WindowOK
<1>6. \A c \in Clusters : /\ (IF s.winsect = FatSector(c) THEN s.win[c] ELSE s.card[FatSector(c)][c])
                               = s.card[FatSector(c)][c]
                          /\ (IF u.winsect = FatSector(c) THEN u.win[c] ELSE u.card[FatSector(c)][c])
                               = s.card[FatSector(c)][c]
  BY <1>3, <1>5, SectorKinds
<1>7. FatOf(u) = FatOf(s) /\ FatSeen(u) = FatSeen(s)
  BY <1>3, <1>6 DEF FatOf, FatSeen
<1>8. DirSeen(u) = DirSeen(s)
  BY <1>3, <1>5, SectorKinds DEF DirSeen
<1>9. CardSound(u) /\ SeenSound(u)
  BY <1>3, <1>7, <1>8 DEF Volume, CardSound, SeenSound
<1> QED BY <1>3, <1>4, <1>7, <1>8, <1>9 DEF u, Volume, Kept, SameView

\* FSInfo itself is in no view.
LEMMA FsInfoWritten ==
    ASSUME NEW s, Volume(s)
    PROVE  LET u == [s EXCEPT !.info = [free |-> s.free_clust, last |-> s.last_clust]]
           IN  Volume(u) /\ Kept(s, u) /\ u.x = s.x /\ u.ncl = s.ncl /\ u.live = s.live
<1> DEFINE u == [s EXCEPT !.info = [free |-> s.free_clust, last |-> s.last_clust]]
<1>1. /\ u \in States /\ SameFile(s, u) /\ u.x = s.x /\ u.ncl = s.ncl /\ u.live = s.live
      /\ SameWindow(s, u)
  BY DEF Volume, States, SameFile, SameWindow
<1> HIDE DEF u
<1>2. Volume(u) /\ SameView(s, u)
  BY <1>1, VolumeSame
<1> QED BY <1>1, <1>2 DEF u, Kept

\* fsi_flag is in no view.
LEMMA FlagCleared ==
    ASSUME NEW s, Volume(s)
    PROVE  LET u == [Set(s, "OK") EXCEPT !.fsi_flag = FALSE]
           IN  Volume(u) /\ Kept(s, u) /\ u.x = s.x /\ u.ncl = s.ncl /\ u.res = "OK"
<1> DEFINE u == [Set(s, "OK") EXCEPT !.fsi_flag = FALSE]
<1>1. /\ u \in States /\ SameFile(s, u) /\ u.x = s.x /\ u.ncl = s.ncl /\ u.res = "OK"
      /\ SameWindow(s, u)
  BY DEF Volume, States, SameFile, SameWindow, Set, Results
<1> HIDE DEF u
<1>2. Volume(u) /\ SameView(s, u)
  BY <1>1, VolumeSame
<1> QED BY <1>1, <1>2 DEF u, Kept

\* What sync may do.
Synced(s, t) ==
    /\ Volume(t) /\ Kept(s, t) /\ t.x = s.x /\ t.ncl = s.ncl
    /\ t.live => t.res \in {"OK", "DISK_ERR"}

\* Writing FSInfo keeps the view.
LEMMA WriteFsInfoKeeps ==
    ASSUME NEW s, Volume(s), ~s.wflag, NEW t \in WriteFsInfo(s)
    PROVE  Synced(s, t)
<1> DEFINE built == [s EXCEPT !.winsect = 0, !.win = FsInfo]
           done == [built EXCEPT !.info = [free |-> s.free_clust, last |-> s.last_clust]]
<1>1. PICK d \in DiskWrite(built, done) :
        t = IF d.live THEN [Set(d, "OK") EXCEPT !.fsi_flag = FALSE] ELSE d
  BY DEF WriteFsInfo, Then
<1>2. /\ Volume(built) /\ Kept(s, built) /\ built.x = s.x /\ built.ncl = s.ncl
  BY FsInfoBuilt
<1>3. built.free_clust = s.free_clust /\ built.last_clust = s.last_clust
  BY DEF Volume, States
<1> HIDE DEF built
<1>4. Volume(done) /\ Kept(built, done) /\ done.x = built.x /\ done.ncl = built.ncl
  BY <1>2, <1>3, FsInfoWritten
<1> HIDE DEF done
<1>5. Kept(s, done)
  BY <1>2, <1>4, KeptTrans
<1>6. \/ d = Set(done, "OK")
      \/ d \in Failed(built) \cup Lost(built)
      \/ d \in Failed(done) \cup Lost(done)
  BY <1>1, DiskWriteCases
<1>7. Volume(d) /\ Kept(s, d) /\ d.x = s.x /\ d.ncl = s.ncl
  <2>1. CASE d = Set(done, "OK")
    <3>1. Volume(d) /\ Kept(done, d) /\ d.x = done.x /\ d.ncl = done.ncl
      BY <2>1, <1>4, SetVolume DEF Results
    <3> QED BY <3>1, <1>2, <1>4, <1>5, KeptTrans
  <2>2. CASE d \in Failed(built) \cup Lost(built)
    <3>1. Volume(d) /\ Kept(built, d) /\ d.x = built.x /\ d.ncl = built.ncl
      BY <2>2, <1>2, FailedVolume, LostVolume
    <3> QED BY <3>1, <1>2, KeptTrans
  <2>3. CASE d \in Failed(done) \cup Lost(done)
    <3>1. Volume(d) /\ Kept(done, d) /\ d.x = done.x /\ d.ncl = done.ncl
      BY <2>3, <1>4, FailedVolume, LostVolume
    <3> QED BY <3>1, <1>2, <1>4, <1>5, KeptTrans
  <2> QED BY <1>6, <2>1, <2>2, <2>3
<1>8. CASE ~d.live
  BY <1>1, <1>7, <1>8 DEF Synced
<1>9. CASE d.live
  <2>1. Volume(t) /\ Kept(d, t) /\ t.x = d.x /\ t.ncl = d.ncl /\ t.res = "OK"
    BY <1>1, <1>7, <1>9, FlagCleared
  <2>2. Kept(s, t)
    BY <1>7, <2>1, KeptTrans
  <2> QED BY <1>7, <2>1, <2>2 DEF Synced
<1> QED BY <1>8, <1>9

\* sync keeps the view and, when it succeeds, leaves no dirty window.
LEMMA Sync ==
    ASSUME NEW s, Volume(s), NEW t \in sync(s)
    PROVE  Synced(s, t)
<1>1. PICK m \in move_window(s, 0) :
        t \in IF m.live /\ m.res = "OK"
              THEN Then(IF m.fsi_flag THEN WriteFsInfo(m) ELSE {m},
                        LAMBDA u : {u} \cup Failed(u))
              ELSE {m}
  BY DEF sync, IfOk, Then
<1>2. Moved(s, m) /\ (m.live /\ m.res = "OK" => ~m.wflag)
  BY MoveWindow, SectorKinds
<1>3. CASE ~(m.live /\ m.res = "OK")
  BY <1>1, <1>2, <1>3 DEF Moved, Synced
<1>4. CASE m.live /\ m.res = "OK"
  <2>1. PICK u \in IF m.fsi_flag THEN WriteFsInfo(m) ELSE {m} :
          t \in IF u.live THEN {u} \cup Failed(u) ELSE {u}
    BY <1>1, <1>4 DEF Then
  <2>2. Synced(m, u)
    <3>1. CASE m.fsi_flag
      BY <1>2, <1>4, <2>1, <3>1, WriteFsInfoKeeps DEF Moved
    <3>2. CASE ~m.fsi_flag
      BY <1>2, <2>1, <3>2 DEF Moved, Synced, Kept, SameView, SameFile
    <3> QED BY <3>1, <3>2
  <2>3. Synced(s, u)
    BY <1>2, <2>2, KeptTrans DEF Moved, Synced
  <2>4. CASE t = u
    BY <2>3, <2>4
  <2>5. CASE t \in Failed(u)
    <3>1. Volume(t) /\ Kept(u, t) /\ t.x = u.x /\ t.ncl = u.ncl /\ t.res = "DISK_ERR"
      BY <2>3, <2>5, FailedVolume DEF Synced
    <3> QED BY <2>3, <3>1, KeptTrans DEF Synced
  <2> QED BY <2>1, <2>4, <2>5
<1> QED BY <1>3, <1>4

\* Counting free clusters changes no view.
LEMMA CountedKeeps ==
    ASSUME NEW s, Volume(s), NEW d \in {1, -1}
    PROVE  LET u == Counted(s, d)
           IN  /\ Volume(u) /\ Kept(s, u) /\ SameWindow(s, u) /\ u.x = s.x /\ u.ncl = s.ncl
               /\ u.res = s.res /\ u.live = s.live
<1> DEFINE u == Counted(s, d)
           k == IF s.free_clust + d < 0 THEN Bad ELSE s.free_clust + d
<1>1. s \in States /\ s.free_clust \in Nat
  BY DEF Volume, States
<1>2. k \in Nat
  BY <1>1, Markers
<1>3. u = s \/ u = [s EXCEPT !.free_clust = k, !.fsi_flag = TRUE]
  BY <1>1 DEF Counted, States
<1> HIDE DEF k, u
<1>4. /\ u \in States /\ SameFile(s, u) /\ u.x = s.x /\ u.ncl = s.ncl /\ u.res = s.res
      /\ u.live = s.live /\ SameWindow(s, u)
  BY ZenonT(60), <1>1, <1>2, <1>3 DEF States, SameFile, SameWindow
<1>5. Volume(u) /\ SameView(s, u)
  BY <1>4, VolumeSame
<1> QED BY <1>4, <1>5 DEF u, Kept

\* Induction over the numbers for a set (the library's rule takes a predicate).
LEMMA SetOfNat ==
    ASSUME NEW S, 0 \in S, \A n \in Nat : n \in S => n + 1 \in S
    PROVE  \A n \in Nat : n \in S
<1> SUFFICES ASSUME NEW m \in Nat, m \notin S PROVE FALSE
  OBVIOUS
<1> DEFINE T == {n \in Nat : n \notin S}
           R == OpToRel(<, Nat)
<1>1. PICK x \in T : \A y \in T : <<y, x>> \notin R
  <2>1. IsWellFoundedOn(R, Nat)
    BY NatLessThanWellFounded
  <2>2. T \subseteq Nat /\ T # {}
    OBVIOUS
  <2> HIDE DEF T, R
  <2> QED BY <2>1, <2>2, WFMin
<1>2. x # 0 /\ x \in Nat
  BY <1>1
<1>3. x - 1 \in Nat /\ x - 1 \in T /\ x - 1 < x
  <2>1. x - 1 \in Nat /\ x - 1 < x /\ (x - 1) + 1 = x
    BY <1>2
  <2>2. x - 1 \notin S
    BY <2>1, <1>1
  <2> QED BY <2>1, <2>2
<1>4. <<x - 1, x>> \in R
  BY <1>2, <1>3 DEF OpToRel
<1> QED BY <1>1, <1>3, <1>4

\* f is the first n iterates of the function F from a.
Iterates(f, F, a, n) == \A k \in 0 .. n : f[k] = IF k = 0 THEN a ELSE F[f[k - 1]]

\* A function on a set can be iterated any number of times.
LEMMA IterationExists ==
    ASSUME NEW Q, NEW F \in [Q -> Q], NEW a \in Q, NEW n \in Nat
    PROVE  \E f \in [0 .. n -> Q] : Iterates(f, F, a, n)
<1> DEFINE Made(m) == \E f \in [0 .. m -> Q] : Iterates(f, F, a, m)
           S == {m \in Nat : Made(m)}
<1>1. 0 \in S
  <2>1. [k \in 0 .. 0 |-> a] \in [0 .. 0 -> Q]
    OBVIOUS
  <2>2. \A k \in 0 .. 0 : k = 0 
    OBVIOUS
  <2> QED BY <2>1, <2>2 DEF Iterates
<1>2. ASSUME NEW m \in Nat, m \in S PROVE m + 1 \in S
  <2>1. PICK f \in [0 .. m -> Q] : \A k \in 0 .. m : f[k] = IF k = 0 THEN a ELSE F[f[k - 1]]
    BY <1>2 DEF Iterates
  <2> DEFINE g == [k \in 0 .. m + 1 |-> IF k = m + 1 THEN F[f[m]] ELSE f[k]]
  <2>2. g \in [0 .. m + 1 -> Q]
    OBVIOUS
  <2>3. ASSUME NEW k \in 0 .. m + 1 PROVE g[k] = IF k = 0 THEN a ELSE F[g[k - 1]]
    <3>1. CASE k = m + 1
      BY <3>1
    <3>2. CASE k \in 0 .. m
      BY <3>2, <2>1
    <3> QED BY <3>1, <3>2
  <2> HIDE DEF g
  <2>4. Made(m + 1)
    BY <2>2, <2>3 DEF Iterates
  <2> QED BY <2>4
<1> HIDE DEF S
<1>3. n \in S
  BY <1>1, <1>2, SetOfNat
<1> QED BY <1>3 DEF S

\* What every iteration keeps holds of all the iterates.
LEMMA IterationStays ==
    ASSUME NEW Q, NEW n \in Nat, NEW f, f[0] \in Q,
           \A k \in 1 .. n : f[k - 1] \in Q => f[k] \in Q
    PROVE  \A k \in 0 .. n : f[k] \in Q
<1> DEFINE S == {k \in Nat : k <= n => f[k] \in Q}
<1>1. 0 \in S
  OBVIOUS
<1>2. ASSUME NEW m \in Nat, m \in S PROVE m + 1 \in S
  BY <1>2
<1> HIDE DEF S
<1>3. \A m \in Nat : m \in S
  BY <1>1, <1>2, SetOfNat
<1> QED BY <1>3 DEF S

-----------------------------------------------------------------------------
\* Chain is the iteration of Follow: its defining equations.
LEMMA ChainSteps ==
    ASSUME NEW F \in [Clusters -> Links], NEW c
    PROVE  /\ Chain(F, c)[0] = c
           /\ \A k \in 1 .. NFatEnt : Chain(F, c)[k] = Follow(F, Chain(F, c)[k - 1])
<1> DEFINE Q == Links \cup {c}
           G == [d \in Q |-> Follow(F, d)]
           Body(f) == [k \in 0 .. NFatEnt |-> IF k = 0 THEN c ELSE Follow(F, f[k - 1])]
           link == CHOOSE f : f = Body(f)
<1>1. G \in [Q -> Q]
  BY DEF Follow
<1>2. PICK f \in [0 .. NFatEnt -> Q] :
        Iterates(f, G, c, NFatEnt)
  <2>1. c \in Q /\ NFatEnt \in Nat
    BY Constants
  <2> HIDE DEF G, Q
  <2> QED BY <1>1, <2>1, IterationExists
<1>3. \A k \in 0 .. NFatEnt : f[k] = IF k = 0 THEN c ELSE Follow(F, f[k - 1])
  <2>1. ASSUME NEW k \in 0 .. NFatEnt, k # 0 PROVE f[k - 1] \in Q
    BY <2>1, Constants
  <2> QED BY <1>2, <2>1 DEF Iterates
<1>4. f = Body(f)
  BY <1>3
<1>5. link = Body(link)
  BY <1>4
<1>6. Chain(F, c) = link
  BY DEF Chain
<1> HIDE DEF link
<1>7. Chain(F, c) = [k \in 0 .. NFatEnt |-> IF k = 0 THEN c ELSE Follow(F, Chain(F, c)[k - 1])]
  BY <1>5, <1>6
<1> QED BY <1>7, Constants

\* Under a census, place k of a file's chain holds its cluster number k + 1, and the end
\* mark follows the last.
LEMMA ChainPlaces ==
    ASSUME NEW tab \in [Clusters -> Links], NEW files \in Maps, NEW own \in Owners,
           NEW idx \in Places, NEW len \in Lengths, Census(tab, files, own, idx, len),
           NEW n \in Names, files[n].sclust \in Clusters
    PROVE  LET chain == Chain(tab, files[n].sclust)
           IN  \A k \in 0 .. NFatEnt :
                 /\ k < len[n] => chain[k] \in Clusters /\ own[chain[k]] = n /\ idx[chain[k]] = k + 1
                 /\ k >= len[n] => chain[k] = LastLink
<1> DEFINE chain == Chain(tab, files[n].sclust)
           Good(k) == /\ k < len[n] => chain[k] \in Clusters /\ own[chain[k]] = n /\ idx[chain[k]] = k + 1
                      /\ k >= len[n] => chain[k] = LastLink
           S == {k \in Nat : k <= NFatEnt => Good(k)}
<1>0. /\ chain[0] = files[n].sclust
      /\ \A k \in 1 .. NFatEnt : chain[k] = Follow(tab, chain[k - 1])
  BY ChainSteps
<1>l. len[n] \in Nat /\ n # "none"
  BY Constants DEF Lengths
<1> HIDE DEF chain
<1>1. 0 \in S
  <2>1. own[files[n].sclust] = n /\ idx[files[n].sclust] = 1
    BY DEF Census
  <2>2. len[n] >= 1
    BY <2>1, <1>l DEF Census
  <2>3. Good(0)
    BY <1>0, <2>1, <2>2, <1>l
  <2> QED BY <2>3
<1>2. ASSUME NEW k \in Nat, k \in S PROVE k + 1 \in S
  <2> SUFFICES ASSUME k + 1 <= NFatEnt PROVE Good(k + 1)
    OBVIOUS
  <2>1. Good(k) /\ chain[k + 1] = Follow(tab, chain[k])
    <3>1. k + 1 \in 1 .. NFatEnt /\ (k + 1) - 1 = k /\ k <= NFatEnt
      BY Constants
    <3>2. chain[k + 1] = Follow(tab, chain[(k + 1) - 1])
      BY <3>1, <1>0
    <3> QED BY <3>1, <3>2, <1>2
  <2>2. CASE k >= len[n]
    <3>1. chain[k] = LastLink
      BY <2>1, <2>2
    <3>2. chain[k + 1] = LastLink
      BY <2>1, <3>1, Markers DEF Follow
    <3> QED BY <2>2, <3>2, <1>l
  <2>3. CASE k < len[n]
    <3>1. chain[k] \in Clusters /\ own[chain[k]] = n /\ idx[chain[k]] = k + 1
      BY <2>1, <2>3
    <3>2. chain[k + 1] = tab[chain[k]]
      BY <2>1, <3>1 DEF Follow
    <3>3. /\ idx[chain[k]] = len[n] => tab[chain[k]] = LastLink
          /\ idx[chain[k]] < len[n] => /\ tab[chain[k]] \in Clusters
                                       /\ own[tab[chain[k]]] = n
                                       /\ idx[tab[chain[k]]] = idx[chain[k]] + 1
      BY <3>1, <1>l DEF Census
    <3> QED BY <3>1, <3>2, <3>3, <2>3, <1>l
  <2> QED BY <2>2, <2>3, <1>l
<1> HIDE DEF S
<1>3. \A k \in Nat : k \in S
  BY <1>1, <1>2, SetOfNat
<1>4. \A k \in 0 .. NFatEnt : Good(k)
  BY <1>3, Constants DEF S
<1> QED BY <1>4 DEF chain

\* No file has as many clusters as the FAT has entries.
LEMMA LengthBound ==
    ASSUME NEW tab \in [Clusters -> Links], NEW files \in Maps, NEW own \in Owners,
           NEW idx \in Places, NEW len \in Lengths, Census(tab, files, own, idx, len),
           NEW n \in Names
    PROVE  len[n] < NFatEnt
<1>1. CASE files[n].sclust \notin Clusters
  BY <1>1, Constants DEF Census
<1>2. CASE files[n].sclust \in Clusters
  <2> SUFFICES ASSUME len[n] >= NFatEnt PROVE FALSE
    BY Constants DEF Lengths
  <2> DEFINE chain == Chain(tab, files[n].sclust)
             f == [k \in 1 .. NFatEnt |-> chain[k - 1]]
  <2>1. \A k \in 1 .. NFatEnt : chain[k - 1] \in Clusters /\ idx[chain[k - 1]] = k
    <3>1. \A k \in 0 .. NFatEnt : k < len[n] => chain[k] \in Clusters /\ idx[chain[k]] = k + 1
      BY <1>2, ChainPlaces
    <3> HIDE DEF chain
    <3> TAKE k \in 1 .. NFatEnt
    <3>2. k - 1 \in 0 .. NFatEnt /\ k - 1 < len[n] /\ (k - 1) + 1 = k
      BY Constants DEF Lengths
    <3>3. chain[k - 1] \in Clusters /\ idx[chain[k - 1]] = (k - 1) + 1
      BY <3>1, <3>2
    <3> QED BY <3>2, <3>3
  <2> HIDE DEF chain
  <2>2. f \in [1 .. NFatEnt -> Clusters]
    BY <2>1
  <2>3. /\ IsFiniteSet(1 .. NFatEnt) /\ Cardinality(1 .. NFatEnt) = NFatEnt
        /\ IsFiniteSet(Clusters) /\ Cardinality(Clusters) = NFatEnt - 2
    <3>1. 1 \in Int /\ 2 \in Int /\ NFatEnt \in Int /\ NFatEnt - 1 \in Int
          /\ ~(1 > NFatEnt) /\ ~(2 > NFatEnt - 1)
      BY Constants
    <3>2. /\ IsFiniteSet(1 .. NFatEnt) /\ Cardinality(1 .. NFatEnt) = NFatEnt - 1 + 1
          /\ IsFiniteSet(2 .. NFatEnt - 1) /\ Cardinality(2 .. NFatEnt - 1) = (NFatEnt - 1) - 2 + 1
      BY <3>1, FS_Interval
    <3> QED BY <3>2, Constants DEF Clusters
  <2>4. Cardinality(Clusters) < Cardinality(1 .. NFatEnt)
    BY <2>3, Constants
  <2> HIDE DEF f
  <2>5. PICK i \in 1 .. NFatEnt, j \in 1 .. NFatEnt : i # j /\ f[i] = f[j]
    BY <2>2, <2>3, <2>4, FS_PigeonHole
  <2> QED BY <2>1, <2>5 DEF f
<1> QED BY <1>1, <1>2

\* The chain of no cluster stays where it is.
LEMMA ChainOfNone ==
    ASSUME NEW tab \in [Clusters -> Links], NEW c, c \notin Clusters
    PROVE  \A k \in 0 .. NFatEnt : Chain(tab, c)[k] = c
<1> DEFINE chain == Chain(tab, c)
           only == {c}
<1>1. chain[0] \in only
  BY ChainSteps
<1>2. \A k \in 1 .. NFatEnt : chain[k - 1] \in only => chain[k] \in only
  BY ChainSteps DEF Follow
<1> HIDE DEF chain, only
<1>3. \A k \in 0 .. NFatEnt : chain[k] \in only
  BY <1>1, <1>2, Constants, IterationStays
<1> QED BY <1>3 DEF chain, only

\* Multiplication by the bytes of a cluster reflects the order.
LEMMA TimesLess ==
    ASSUME NEW k \in Nat, NEW m \in Nat, k * Bytes < m * Bytes
    PROVE  k < m
<1> DEFINE b == Bytes
<1>1. b \in Nat /\ b > 0
  BY Constants
<1> HIDE DEF b
<1>2. \A p, q \in Nat : q <= p => p * b >= q * b
  BY <1>1
<1>3. k * b < m * b
  BY DEF b
<1>4. ~(m <= k)
  BY <1>1, <1>2, <1>3
<1> QED BY <1>4

\* A tidy volume is sound: chains end, are disjoint, and are long enough.
LEMMA TidySound ==
    ASSUME NEW tab \in [Clusters -> Links], NEW files \in Maps, NEW long,
           Tidy(tab, files, long)
    PROVE  Sound(tab, files, long)
<1>1. PICK own \in Owners, idx \in Places, len \in Lengths :
        Census(tab, files, own, idx, len) /\ (long => Fits(files, len))
  BY DEF Tidy
<1> DEFINE chain == [n \in Names |-> Chain(tab, files[n].sclust)]
<1>2. \A n \in Names, k \in 0 .. NFatEnt : files[n].sclust \in Clusters =>
        /\ k < len[n] => chain[n][k] \in Clusters /\ own[chain[n][k]] = n
        /\ k >= len[n] => chain[n][k] = LastLink
  BY <1>1, ChainPlaces
<1>3. \A n \in Names, k \in 0 .. NFatEnt : files[n].sclust \notin Clusters =>
        chain[n][k] = files[n].sclust
  BY ChainOfNone
<1>4. \A n \in Names : len[n] \in Nat /\ len[n] < NFatEnt
  BY <1>1, LengthBound DEF Lengths
<1> HIDE DEF chain
<1>5. ASSUME NEW n \in Names
      PROVE  /\ files[n].sclust \in Clusters => chain[n][NFatEnt] = LastLink
             /\ files[n].sclust \notin Clusters => files[n].sclust \in {-1, 0, Bad}
  <2>1. NFatEnt \in 0 .. NFatEnt
    BY Constants
  <2> QED BY <2>1, <1>2, <1>4, Constants DEF Maps
<1>6. ASSUME NEW n \in Names, long, files[n].sclust # Bad, NEW k \in 0 .. NFatEnt,
             k * Bytes < files[n].size
      PROVE  chain[n][k] \in Clusters
  <2>1. files[n].size <= len[n] * Bytes /\ files[n].size \in Int
    BY <1>1, <1>6 DEF Fits, Maps
  <2>2. len[n] * Bytes \in Int /\ k * Bytes \in Int
    BY <1>4, Constants
  <2>3. k * Bytes < len[n] * Bytes
    BY <2>1, <2>2, <1>6
  <2>4. k < len[n]
    BY <2>3, <1>4, TimesLess
  <2>5. files[n].sclust \in Clusters
    BY <2>4, <1>1, <1>4 DEF Census
  <2> QED BY <2>4, <2>5, <1>2
<1>7. ASSUME NEW m \in Names, NEW n \in Names, m # n
      PROVE  Owned(chain[m]) \cap Owned(chain[n]) = {}
  <2>1. \A p \in Names : \A c \in Owned(chain[p]) : own[c] = p
    <3> SUFFICES ASSUME NEW p \in Names, NEW k \in 0 .. NFatEnt, chain[p][k] \in Clusters
                 PROVE  own[chain[p][k]] = p
      BY DEF Owned
    <3>1. files[p].sclust \in Clusters
      BY <1>3
    <3> QED BY <3>1, <1>2, <1>4, Markers
  <2> QED BY <2>1, <1>7
<1> QED BY <1>5, <1>6, <1>7 DEF Sound, chain

-----------------------------------------------------------------------------
(* What each step may do to the chains. *)
\* The files as their handles hold them, where those may write, else as their entries do.
FilesHeld(dir, files) ==
    [n \in Names |-> IF "W" \in files[n].flags
                     THEN [sclust |-> files[n].sclust, size |-> files[n].fsize]
                     ELSE dir[n]]

\* A handle that writes stands on the cluster of its file that its position names.
Placed(n, f, own, idx) ==
    "W" \in f.flags /\ "ERROR" \notin f.flags /\ f.fptr > 0 /\ f.sclust # Bad =>
        /\ f.clust \in Clusters /\ own[f.clust] = n
        /\ (f.fptr - 1) \div Bytes < idx[f.clust]

\* One census accounts for the directory, the handles open for writing and their
\* positions.
Order(tab, dir, held, files, cut, own, idx, len) ==
    /\ own \in Owners /\ idx \in Places /\ len \in Lengths
    /\ Census(tab, held, own, idx, len)
    /\ \A n \in Names : dir[n].sclust \in Clusters => dir[n].sclust = held[n].sclust
    /\ ~cut => /\ Fits(held, len)
               /\ \A n \in Names : dir[n].sclust \in Clusters => dir[n].size <= len[n] * Bytes
               /\ \A n \in Names : Placed(n, files[n], own, idx)

\* The type of the FAT.
Fats == [Clusters -> Links]
\* The type of the directory.
Dirs == [Names -> Entries]
\* The type of the handles.
Handles == [Names -> Files]

\* Multiplication by the bytes of a cluster is monotone.
LEMMA TimesLeq == \A a, b \in Nat : a <= b => /\ a * Bytes \in Nat /\ b * Bytes \in Nat
                                              /\ a * Bytes <= b * Bytes
<1> DEFINE d == Bytes
<1>1. d \in Nat
  BY Constants
<1> HIDE DEF d
<1>2. \A a, b \in Nat : a <= b => a * d \in Nat /\ b * d \in Nat /\ a * d <= b * d
  BY <1>1
<1> QED BY <1>2 DEF d

\* An ordered volume is tidy on the card's own directory too.
LEMMA OrderTidy ==
    ASSUME NEW tab \in Fats, NEW dir \in Dirs, NEW held \in Maps, NEW files, NEW cut,
           NEW own, NEW idx, NEW len, Order(tab, dir, held, files, cut, own, idx, len)
    PROVE  Tidy(tab, dir, ~cut)
<1> DEFINE o == [c \in Clusters |-> IF own[c] # "none" /\ dir[own[c]].sclust \in Clusters
                                    THEN own[c] ELSE "none"]
           l == [n \in Names |-> IF dir[n].sclust \in Clusters THEN len[n] ELSE 0]
<1>1. own \in Owners /\ idx \in Places /\ len \in Lengths /\ Census(tab, held, own, idx, len)
  BY DEF Order
<1>2. o \in Owners /\ l \in Lengths
  BY <1>1 DEF Owners, Lengths
<1>3. \A n \in Names : n # "none"
  BY Constants
<1>4. Census(tab, dir, o, idx, l)
  <2>1. ASSUME NEW n \in Names
        PROVE  /\ dir[n].sclust \in Clusters => o[dir[n].sclust] = n /\ idx[dir[n].sclust] = 1
               /\ dir[n].sclust \notin Clusters => l[n] = 0
    BY <1>1, <1>3 DEF Order, Census
  <2>2. ASSUME NEW c \in Clusters, o[c] # "none"
        PROVE  /\ 1 <= idx[c] /\ idx[c] <= l[o[c]]
               /\ idx[c] = l[o[c]] => tab[c] = LastLink
               /\ idx[c] < l[o[c]] => /\ tab[c] \in Clusters
                                      /\ o[tab[c]] = o[c] /\ idx[tab[c]] = idx[c] + 1
    <3>1. own[c] # "none" /\ o[c] = own[c] /\ own[c] \in Names /\ l[o[c]] = len[own[c]]
      BY <2>2, <1>1 DEF Owners
    <3>2. /\ 1 <= idx[c] /\ idx[c] <= len[own[c]]
          /\ idx[c] = len[own[c]] => tab[c] = LastLink
          /\ idx[c] < len[own[c]] => /\ tab[c] \in Clusters
                                     /\ own[tab[c]] = own[c] /\ idx[tab[c]] = idx[c] + 1
      BY <1>1, <3>1 DEF Census
    <3> QED BY <2>2, <3>1, <3>2
  <2>3. ASSUME NEW c \in Clusters, NEW d \in Clusters, o[c] # "none", o[c] = o[d], idx[c] = idx[d]
        PROVE  c = d
    <3>1. own[c] # "none" /\ own[c] = own[d]
      BY <2>3
    <3> QED BY <2>3, <3>1, <1>1 DEF Census
  <2> QED BY <2>1, <2>2, <2>3 DEF Census
<1>5. ~cut => Fits(dir, l)
  <2> SUFFICES ASSUME ~cut, NEW n \in Names, dir[n].sclust # Bad
               PROVE  dir[n].size <= l[n] * Bytes
    BY DEF Fits
  <2>1. CASE dir[n].sclust \in Clusters
    BY <2>1 DEF Order
  <2>2. CASE dir[n].sclust \notin Clusters
    <3>1. dir[n] \in {NoEntry, Empty}
      BY <2>2 DEF Dirs, Entries
    <3>2. dir[n].size <= 0
      BY <3>1 DEF NoEntry, Empty
    <3>3. l[n] * Bytes = 0
      BY <2>2, Constants
    <3> QED BY <3>2, <3>3
  <2> QED BY <2>1, <2>2
<1> HIDE DEF o, l
<1> QED BY <1>1, <1>2, <1>4, <1>5 DEF Tidy

\* An entry outside every chain may take any value.
LEMMA Unowned ==
    ASSUME NEW tab \in Fats, NEW dir, NEW held, NEW files, NEW cut,
           NEW own, NEW idx, NEW len, Order(tab, dir, held, files, cut, own, idx, len),
           NEW c \in Clusters, own[c] = "none", NEW val
    PROVE  Order([tab EXCEPT ![c] = val], dir, held, files, cut, own, idx, len)
<1>1. \A d \in Clusters : own[d] # "none" => [tab EXCEPT ![c] = val][d] = tab[d]
  BY DEF Fats
<1>2. Census([tab EXCEPT ![c] = val], held, own, idx, len)
  BY <1>1 DEF Order, Census
<1> QED BY <1>2 DEF Order

\* A free entry is in no chain.
LEMMA FreeUnowned ==
    ASSUME NEW tab \in Fats, NEW dir, NEW held, NEW files, NEW cut,
           NEW own, NEW idx, NEW len, Order(tab, dir, held, files, cut, own, idx, len),
           NEW c \in Clusters, tab[c] = 0
    PROVE  own[c] = "none"
<1>1. /\ own \in Owners /\ idx \in Places /\ len \in Lengths
      /\ own[c] # "none" => /\ 1 <= idx[c] /\ idx[c] <= len[own[c]]
                            /\ idx[c] = len[own[c]] => tab[c] = LastLink
                            /\ idx[c] < len[own[c]] => tab[c] \in Clusters
  BY DEF Order, Census
<1>2. own[c] # "none" => len[own[c]] \in Nat /\ idx[c] \in Nat
  BY <1>1 DEF Owners, Places, Lengths
<1>3. LastLink # 0 /\ 0 \notin Clusters
  BY Markers
<1> QED BY <1>1, <1>2, <1>3

\* The census (o, i) is (own, idx) with x appended behind c, when c is owned at all.
Follows(own, idx, c, o, i, x) ==
    own[c] # "none" => o[c] = own[c] /\ i[c] = idx[c] /\ o[x] = own[c] /\ i[x] = idx[c] + 1

\* Linking a fresh cluster behind the last one of a chain extends the census.
LEMMA LinkKeeps ==
    ASSUME NEW tab \in Fats, NEW dir \in Dirs, NEW held \in Maps, NEW files, NEW cut,
           NEW own, NEW idx, NEW len, Order(tab, dir, held, files, cut, own, idx, len),
           NEW c \in Clusters, NEW x \in Clusters, tab[x] = LastLink, own[x] = "none",
           tab[c] = LastLink \/ cut
    PROVE  \E o, i, l : /\ Order([tab EXCEPT ![c] = x], dir, held, files, cut, o, i, l)
                        /\ Follows(own, idx, c, o, i, x)
<1>1. CASE own[c] = "none"
  BY <1>1, Unowned DEF Follows
<1>2. CASE own[c] # "none"
  <2> DEFINE m == own[c]
             f == [tab EXCEPT ![c] = x]
             o == [d \in Clusters |-> IF d = x THEN m
                                      ELSE IF own[d] = m /\ idx[d] > idx[c] THEN "none"
                                      ELSE own[d]]
             i == [idx EXCEPT ![x] = idx[c] + 1]
             l == [len EXCEPT ![m] = idx[c] + 1]
  <2>0. /\ own \in Owners /\ idx \in Places /\ len \in Lengths
        /\ Census(tab, held, own, idx, len)
    BY DEF Order
  <2>1. m \in Names /\ x # c /\ idx[c] \in Nat /\ m # "none" /\ len[m] \in Nat
        /\ (\A n \in Names : n # "none")
    BY <1>2, <2>0, Constants DEF Owners, Places, Lengths
  <2>2. o \in Owners /\ i \in Places /\ l \in Lengths
    BY <2>0, <2>1 DEF Owners, Places, Lengths
  <2>3. /\ 1 <= idx[c] /\ idx[c] <= len[m]
        /\ tab[c] = LastLink => idx[c] = len[m]
    BY <2>0, <1>2, <2>1, Markers DEF Census
  <2>4. \A d \in Clusters : /\ o[d] = IF d = x THEN m
                                      ELSE IF own[d] = m /\ idx[d] > idx[c] THEN "none" ELSE own[d]
                            /\ i[d] = IF d = x THEN idx[c] + 1 ELSE idx[d]
                            /\ f[d] = IF d = c THEN x ELSE tab[d]
    BY <2>0 DEF Owners, Places, Fats
  <2>5. \A n \in Names : l[n] = IF n = m THEN idx[c] + 1 ELSE len[n]
    BY <2>0 DEF Lengths
  <2> HIDE DEF o, i, l, f, m
  <2>6. ASSUME NEW n \in Names
        PROVE  /\ held[n].sclust \in Clusters => o[held[n].sclust] = n /\ i[held[n].sclust] = 1
               /\ held[n].sclust \notin Clusters => l[n] = 0
    <3>1. CASE held[n].sclust \in Clusters
      <4>1. own[held[n].sclust] = n /\ idx[held[n].sclust] = 1 /\ held[n].sclust # x
        BY <3>1, <2>0, <2>1 DEF Census
      <4>2. ~(1 > idx[c])
        BY <2>1, <2>3
      <4> QED BY <3>1, <4>1, <4>2, <2>4
    <3>2. CASE held[n].sclust \notin Clusters
      <4>1. len[n] = 0
        BY <3>2, <2>0 DEF Census
      <4>2. n # m
        BY <4>1, <2>1, <2>3
      <4> QED BY <3>2, <4>1, <4>2, <2>5
    <3> QED BY <3>1, <3>2
  <2>7. ASSUME NEW d \in Clusters, o[d] # "none"
        PROVE  /\ 1 <= i[d] /\ i[d] <= l[o[d]]
               /\ i[d] = l[o[d]] => f[d] = LastLink
               /\ i[d] < l[o[d]] => /\ f[d] \in Clusters
                                    /\ o[f[d]] = o[d] /\ i[f[d]] = i[d] + 1
    <3>1. CASE d = x
      <4>1. o[d] = m /\ i[d] = idx[c] + 1 /\ l[o[d]] = idx[c] + 1 /\ f[d] = LastLink
        BY <3>1, <2>1, <2>4, <2>5
      <4> QED BY <4>1, <2>1
    <3>2. CASE d = c
      <4>1. o[d] = m /\ i[d] = idx[c] /\ l[o[d]] = idx[c] + 1 /\ f[d] = x
        BY <3>2, <2>1, <2>4, <2>5 DEF m
      <4> QED BY <4>1, <2>1, <2>3, <2>4, <3>2
    <3>3. CASE d # x /\ d # c
      <4>1. /\ own[d] # "none" /\ o[d] = own[d] /\ i[d] = idx[d] /\ f[d] = tab[d]
            /\ own[d] \in Names /\ idx[d] \in Nat /\ len[own[d]] \in Nat
            /\ own[d] = m => ~(idx[d] > idx[c])
        BY <2>7, <3>3, <2>0, <2>4 DEF Owners, Places, Lengths
      <4>2. /\ 1 <= idx[d] /\ idx[d] <= len[own[d]]
            /\ idx[d] = len[own[d]] => tab[d] = LastLink
            /\ idx[d] < len[own[d]] => /\ tab[d] \in Clusters
                                       /\ own[tab[d]] = own[d] /\ idx[tab[d]] = idx[d] + 1
        BY <4>1, <2>0 DEF Census
      <4>3. CASE own[d] # m
        <5>1. l[o[d]] = len[own[d]]
          BY <4>1, <4>3, <2>5
        <5>2. idx[d] < len[own[d]] => tab[d] # x
          BY <4>1, <4>2
        <5>3. idx[d] < len[own[d]] => o[tab[d]] = own[tab[d]] /\ i[tab[d]] = idx[tab[d]]
          BY <4>2, <4>3, <5>2, <2>4
        <5> QED BY <4>1, <4>2, <5>1, <5>3
      <4>4. CASE own[d] = m
        <5>1. l[o[d]] = idx[c] + 1 /\ idx[d] <= idx[c] /\ idx[d] <= len[m]
          BY <4>1, <4>2, <4>4, <2>1, <2>5
        <5>2. idx[d] # idx[c] \/ idx[d] = idx[c]
          OBVIOUS
        <5>3. CASE idx[d] < idx[c]
          <6>1. idx[d] < len[m] /\ idx[d] + 1 <= idx[c]
            BY <5>3, <4>1, <2>1, <2>3
          <6>2. tab[d] \in Clusters /\ own[tab[d]] = m /\ idx[tab[d]] = idx[d] + 1 /\ tab[d] # x
            BY <6>1, <4>2, <4>4, <2>1
          <6>3. ~(idx[tab[d]] > idx[c])
            BY <6>1, <6>2, <4>1, <2>1
          <6>4. o[tab[d]] = m /\ i[tab[d]] = idx[d] + 1
            BY <6>2, <6>3, <2>4
          <6> QED BY <4>1, <4>2, <4>4, <5>1, <6>1, <6>2, <6>4, <2>1
        <5>4. idx[d] # idx[c]
          BY <2>0, <3>3, <4>4, <2>1 DEF Census, m
        <5> QED BY <5>1, <5>3, <5>4, <4>1, <2>1
      <4> QED BY <4>3, <4>4
    <3> QED BY <3>1, <3>2, <3>3
  <2>8. ASSUME NEW d \in Clusters, NEW e \in Clusters, o[d] # "none", o[d] = o[e], i[d] = i[e]
        PROVE  d = e
    <3>1. \A p \in Clusters : p # x /\ o[p] # "none" =>
            /\ o[p] = own[p] /\ i[p] = idx[p]
            /\ own[p] = m => ~(idx[p] > idx[c])
      BY <2>4
    <3>2. o[x] = m /\ i[x] = idx[c] + 1
      BY <2>4
    <3>3. idx[d] \in Nat /\ idx[e] \in Nat
      BY <2>0 DEF Places
    <3>4. CASE d = x /\ e # x
      BY <2>8, <3>1, <3>2, <3>3, <3>4, <2>1
    <3>5. CASE e = x /\ d # x
      BY <2>8, <3>1, <3>2, <3>3, <3>5, <2>1
    <3>6. CASE d # x /\ e # x
      BY <2>8, <3>1, <3>6, <2>0 DEF Census
    <3> QED BY <3>4, <3>5, <3>6
  <2>9. Census(f, held, o, i, l)
    BY <2>6, <2>7, <2>8 DEF Census
  <2>10. ASSUME ~cut
         PROVE  /\ \A n \in Names : len[n] <= l[n]
                /\ \A d \in Clusters : own[d] # "none" => o[d] = own[d] /\ i[d] = idx[d]
    <3>1. idx[c] = len[m]
      BY <2>10, <2>3
    <3>2. ASSUME NEW d \in Clusters, own[d] = m PROVE ~(idx[d] > idx[c])
      <4>1. idx[d] <= len[m] /\ idx[d] \in Nat
        BY <3>2, <2>0, <2>1 DEF Census, Places
      <4> QED BY <4>1, <3>1, <2>1
    <3>3. \A n \in Names : len[n] \in Nat
      BY <2>0 DEF Lengths
    <3> QED BY <2>1, <2>4, <2>5, <3>1, <3>2, <3>3
  <2>11. ASSUME ~cut
         PROVE  /\ Fits(held, l)
                /\ \A n \in Names : dir[n].sclust \in Clusters => dir[n].size <= l[n] * Bytes
                /\ \A n \in Names : Placed(n, files[n], o, i)
    <3>1. \A n \in Names : len[n] * Bytes <= l[n] * Bytes /\ len[n] * Bytes \in Nat
                            /\ l[n] * Bytes \in Nat
      BY <2>10, <2>11, <2>0, <2>2, TimesLeq DEF Lengths
    <3>2. \A n \in Names : held[n].size \in Int /\ (dir[n].sclust \in Clusters => dir[n].size \in Int)
      BY Markers DEF Maps, Dirs, Entries, NoEntry, Empty
    <3>3. Fits(held, l)
      BY <2>11, <3>1, <3>2 DEF Order, Fits
    <3>4. \A n \in Names : dir[n].sclust \in Clusters => dir[n].size <= l[n] * Bytes
      BY <2>11, <3>1, <3>2 DEF Order
    <3>5. \A n \in Names : Placed(n, files[n], o, i)
      BY <2>10, <2>11, <2>1 DEF Order, Placed
    <3> QED BY <3>3, <3>4, <3>5
  <2>12. Order(f, dir, held, files, cut, o, i, l)
    BY <2>0, <2>2, <2>9, <2>11 DEF Order
  <2>13. Follows(own, idx, c, o, i, x)
    BY <2>1, <2>4 DEF Follows, m
  <2> QED BY <2>12, <2>13 DEF f
<1> QED BY <1>1, <1>2

\* One file's entry and handle may change within the clusters it has.
LEMMA UpdateKeeps ==
    ASSUME NEW tab, NEW dir, NEW held, NEW files, NEW cut, NEW own, NEW idx, NEW len,
           Order(tab, dir, held, files, cut, own, idx, len),
           NEW n \in Names, NEW dir2, NEW held2, NEW files2,
           \A m \in Names \ {n} : dir2[m] = dir[m] /\ held2[m] = held[m] /\ files2[m] = files[m],
           held2[n].sclust = held[n].sclust,
           dir2[n].sclust \in Clusters => dir2[n].sclust = held[n].sclust,
           ~cut => /\ held2[n].sclust # Bad => held2[n].size <= len[n] * Bytes
                   /\ dir2[n].sclust \in Clusters => dir2[n].size <= len[n] * Bytes
                   /\ Placed(n, files2[n], own, idx)
    PROVE  Order(tab, dir2, held2, files2, cut, own, idx, len)
<1>1. \A m \in Names : held2[m].sclust = held[m].sclust
  OBVIOUS
<1>2. Census(tab, held2, own, idx, len)
  BY <1>1 DEF Order, Census
<1>3. \A m \in Names : dir2[m].sclust \in Clusters => dir2[m].sclust = held2[m].sclust
  BY DEF Order
<1>4. ~cut => /\ Fits(held2, len)
              /\ \A m \in Names : dir2[m].sclust \in Clusters => dir2[m].size <= len[m] * Bytes
              /\ \A m \in Names : Placed(m, files2[m], own, idx)
  BY DEF Order, Fits
<1> QED BY <1>2, <1>3, <1>4 DEF Order

\* A file without a start owns no cluster.
LEMMA OwnsNone ==
    ASSUME NEW tab, NEW dir, NEW held, NEW files, NEW cut, NEW own, NEW idx, NEW len,
           Order(tab, dir, held, files, cut, own, idx, len),
           NEW n \in Names, held[n].sclust \notin Clusters
    PROVE  len[n] = 0 /\ \A c \in Clusters : own[c] # n
<1>1. len[n] = 0 /\ n # "none"
  BY Constants DEF Order, Census
<1>2. \A c \in Clusters : own[c] # "none" => 1 <= idx[c] /\ idx[c] <= len[own[c]] /\ idx[c] \in Nat
  BY DEF Order, Census, Places
<1> QED BY <1>1, <1>2

\* A handle that does not write may be forgotten: the file is then what its entry says.
LEMMA ForgetKeeps ==
    ASSUME NEW tab \in Fats, NEW dir \in Dirs, NEW held \in Maps, NEW files, NEW cut,
           NEW own, NEW idx, NEW len, Order(tab, dir, held, files, cut, own, idx, len),
           NEW n \in Names, NEW held2, NEW files2,
           \A m \in Names \ {n} : held2[m] = held[m] /\ files2[m] = files[m],
           held2[n] = dir[n], "W" \notin files2[n].flags
    PROVE  \E o, i, l : Order(tab, dir, held2, files2, cut, o, i, l)
<1>1. CASE dir[n].sclust \in Clusters
  <2>1. dir[n].sclust = held[n].sclust
    BY <1>1 DEF Order
  <2>2. ~cut => dir[n].size <= len[n] * Bytes
    BY <1>1 DEF Order
  <2>3. Placed(n, files2[n], own, idx)
    BY DEF Placed
  <2>4. Order(tab, dir, held2, files2, cut, own, idx, len)
    BY <2>1, <2>2, <2>3, UpdateKeeps
  <2> QED BY <2>4
<1>2. CASE dir[n].sclust \notin Clusters
  <2> DEFINE o == [c \in Clusters |-> IF own[c] = n THEN "none" ELSE own[c]]
             l == [len EXCEPT ![n] = 0]
  <2>1. own \in Owners /\ idx \in Places /\ len \in Lengths /\ Census(tab, held, own, idx, len)
    BY DEF Order
  <2>2. o \in Owners /\ l \in Lengths
    BY <2>1 DEF Owners, Lengths
  <2>3. /\ \A c \in Clusters : o[c] = IF own[c] = n THEN "none" ELSE own[c]
        /\ \A m \in Names : l[m] = IF m = n THEN 0 ELSE len[m]
        /\ \A m \in Names : m # "none"
    BY <2>1, Constants DEF Lengths
  <2> HIDE DEF o, l
  <2>4. ASSUME NEW m \in Names
        PROVE  /\ held2[m].sclust \in Clusters => o[held2[m].sclust] = m /\ idx[held2[m].sclust] = 1
               /\ held2[m].sclust \notin Clusters => l[m] = 0
    <3>1. CASE m = n
      BY <1>2, <2>3, <3>1
    <3>2. CASE m # n
      BY <2>1, <2>3, <3>2 DEF Census
    <3> QED BY <3>1, <3>2
  <2>5. ASSUME NEW c \in Clusters, o[c] # "none"
        PROVE  /\ 1 <= idx[c] /\ idx[c] <= l[o[c]]
               /\ idx[c] = l[o[c]] => tab[c] = LastLink
               /\ idx[c] < l[o[c]] => /\ tab[c] \in Clusters
                                      /\ o[tab[c]] = o[c] /\ idx[tab[c]] = idx[c] + 1
    <3>1. own[c] # "none" /\ own[c] # n /\ o[c] = own[c] /\ own[c] \in Names
          /\ l[o[c]] = len[own[c]]
      BY <2>1, <2>3, <2>5 DEF Owners
    <3>2. /\ 1 <= idx[c] /\ idx[c] <= len[own[c]]
          /\ idx[c] = len[own[c]] => tab[c] = LastLink
          /\ idx[c] < len[own[c]] => /\ tab[c] \in Clusters
                                     /\ own[tab[c]] = own[c] /\ idx[tab[c]] = idx[c] + 1
      BY <2>1, <3>1 DEF Census
    <3> QED BY <2>3, <3>1, <3>2
  <2>6. ASSUME NEW c \in Clusters, NEW d \in Clusters, o[c] # "none", o[c] = o[d], idx[c] = idx[d]
        PROVE  c = d
    <3>1. own[c] # "none" /\ own[c] = own[d]
      BY <2>3, <2>6
    <3> QED BY <2>6, <3>1, <2>1 DEF Census
  <2>7. Census(tab, held2, o, idx, l)
    BY <2>4, <2>5, <2>6 DEF Census
  <2>8. \A m \in Names : dir[m].sclust \in Clusters => dir[m].sclust = held2[m].sclust
    BY DEF Order
  <2>9. ASSUME ~cut
        PROVE  /\ Fits(held2, l)
               /\ \A m \in Names : dir[m].sclust \in Clusters => dir[m].size <= l[m] * Bytes
               /\ \A m \in Names : Placed(m, files2[m], o, idx)
    <3>1. held2[n].size <= 0 \/ held2[n].sclust = Bad
      BY <1>2 DEF Dirs, Entries, NoEntry, Empty
    <3>2. l[n] * Bytes = 0
      BY <2>3, Constants
    <3>3. \A m \in Names \ {n} : l[m] = len[m]
      BY <2>3
    <3>4. Fits(held2, l)
      BY <2>9, <3>1, <3>2, <3>3 DEF Order, Fits
    <3>5. \A m \in Names : dir[m].sclust \in Clusters => dir[m].size <= l[m] * Bytes
      BY <1>2, <2>9, <3>3 DEF Order
    <3>6. ASSUME NEW m \in Names PROVE Placed(m, files2[m], o, idx)
      <4>1. CASE m = n
        BY <4>1 DEF Placed
      <4>2. CASE m # n
        BY <2>3, <2>9, <4>2 DEF Order, Placed
      <4> QED BY <4>1, <4>2
    <3> QED BY <3>4, <3>5, <3>6
  <2> HIDE DEF Placed
  <2>10. Order(tab, dir, held2, files2, cut, o, idx, l)
    BY <2>1, <2>2, <2>7, <2>8, <2>9 DEF Order
  <2> QED BY <2>10
<1> QED BY <1>1, <1>2

\* A file without clusters may start with a fresh one.
LEMMA AdoptKeeps ==
    ASSUME NEW tab \in Fats, NEW dir \in Dirs, NEW held \in Maps, NEW files, NEW cut,
           NEW own, NEW idx, NEW len, Order(tab, dir, held, files, cut, own, idx, len),
           NEW n \in Names, held[n].sclust \notin Clusters,
           NEW x \in Clusters, own[x] = "none", tab[x] = LastLink, NEW held2, NEW files2,
           \A m \in Names \ {n} : held2[m] = held[m] /\ files2[m] = files[m],
           held2[n].sclust = x, held2[n].size = 0, files2[n].fptr = 0
    PROVE  \E o, i, l : /\ Order(tab, dir, held2, files2, cut, o, i, l)
                        /\ o[x] = n /\ i[x] = 1
<1> DEFINE o == [own EXCEPT ![x] = n]
           i == [idx EXCEPT ![x] = 1]
           l == [len EXCEPT ![n] = 1]
<1>1. own \in Owners /\ idx \in Places /\ len \in Lengths /\ Census(tab, held, own, idx, len)
  BY DEF Order
<1>2. o \in Owners /\ i \in Places /\ l \in Lengths
  BY <1>1 DEF Owners, Lengths, Places
<1>3. /\ \A c \in Clusters : o[c] = (IF c = x THEN n ELSE own[c]) /\ i[c] = IF c = x THEN 1 ELSE idx[c]
      /\ \A m \in Names : l[m] = IF m = n THEN 1 ELSE len[m]
      /\ \A m \in Names : m # "none"
  BY <1>1, Constants DEF Owners, Places, Lengths
<1>4. len[n] = 0 /\ \A c \in Clusters : own[c] # n
  BY OwnsNone
<1> HIDE DEF o, i, l
<1>5. ASSUME NEW m \in Names
      PROVE  /\ held2[m].sclust \in Clusters => o[held2[m].sclust] = m /\ i[held2[m].sclust] = 1
             /\ held2[m].sclust \notin Clusters => l[m] = 0
  <2>1. CASE m = n
    BY <1>3, <2>1
  <2>2. CASE m # n
    <3>1. held2[m] = held[m]
      BY <2>2
    <3>2. held[m].sclust \in Clusters => own[held[m].sclust] = m /\ idx[held[m].sclust] = 1
      BY <1>1 DEF Census
    <3>3. held[m].sclust \notin Clusters => len[m] = 0
      BY <1>1 DEF Census
    <3> QED BY <1>3, <2>2, <3>1, <3>2, <3>3
  <2> QED BY <2>1, <2>2
<1>6. ASSUME NEW c \in Clusters, o[c] # "none"
      PROVE  /\ 1 <= i[c] /\ i[c] <= l[o[c]]
             /\ i[c] = l[o[c]] => tab[c] = LastLink
             /\ i[c] < l[o[c]] => /\ tab[c] \in Clusters
                                  /\ o[tab[c]] = o[c] /\ i[tab[c]] = i[c] + 1
  <2>1. CASE c = x
    BY <1>3, <2>1
  <2>2. CASE c # x
    <3>1. own[c] # "none" /\ o[c] = own[c] /\ i[c] = idx[c] /\ own[c] # n /\ own[c] \in Names
      BY <1>1, <1>3, <1>4, <1>6, <2>2 DEF Owners
    <3>2. /\ 1 <= idx[c] /\ idx[c] <= len[own[c]]
          /\ idx[c] = len[own[c]] => tab[c] = LastLink
          /\ idx[c] < len[own[c]] => /\ tab[c] \in Clusters
                                     /\ own[tab[c]] = own[c] /\ idx[tab[c]] = idx[c] + 1
      BY <1>1, <3>1 DEF Census
    <3>3. l[o[c]] = len[own[c]]
      BY <1>3, <3>1
    <3>4. tab[c] = x => own[tab[c]] # own[c]
      BY <3>1
    <3> QED BY <1>3, <3>1, <3>2, <3>3, <3>4
  <2> QED BY <2>1, <2>2
<1>7. ASSUME NEW c \in Clusters, NEW d \in Clusters, o[c] # "none", o[c] = o[d], i[c] = i[d]
      PROVE  c = d
  <2>1. c # x /\ d # x => own[c] # "none" /\ own[c] = own[d] /\ idx[c] = idx[d]
    BY <1>3, <1>7
  <2>2. c # x /\ d # x => c = d
    BY <2>1, <1>1 DEF Census
  <2> QED BY <2>2, <1>3, <1>4, <1>7
<1>8. Census(tab, held2, o, i, l)
  BY <1>5, <1>6, <1>7 DEF Census
<1>9. \A m \in Names : dir[m].sclust \in Clusters => m # n /\ dir[m].sclust = held2[m].sclust
  BY DEF Order
<1>10. ASSUME ~cut
       PROVE  /\ Fits(held2, l)
              /\ \A m \in Names : dir[m].sclust \in Clusters => dir[m].size <= l[m] * Bytes
              /\ \A m \in Names : Placed(m, files2[m], o, i)
  <2>1. l[n] * Bytes >= 0
    BY <1>3, Constants
  <2>2. \A m \in Names \ {n} : l[m] = len[m]
    BY <1>3
  <2>3. Fits(held2, l)
    BY <1>10, <2>1, <2>2 DEF Order, Fits
  <2>4. \A m \in Names : dir[m].sclust \in Clusters => dir[m].size <= l[m] * Bytes
    BY <1>9, <1>10, <2>2 DEF Order
  <2>5. ASSUME NEW m \in Names PROVE Placed(m, files2[m], o, i)
    <3>1. CASE m = n
      BY <3>1 DEF Placed
    <3>2. CASE m # n
      <4>1. Placed(m, files[m], own, idx) /\ files2[m] = files[m]
        BY <1>10, <3>2 DEF Order
      <4> QED BY <1>3, <4>1 DEF Placed
    <3> QED BY <3>1, <3>2
  <2> QED BY <2>3, <2>4, <2>5
<1>11. Order(tab, dir, held2, files2, cut, o, i, l)
  BY <1>2, <1>8, <1>9, <1>10 DEF Order
<1> QED BY <1>3, <1>11

\* The first cluster of a chain no entry names may be freed, the rest staying in order.
LEMMA FreeKeeps ==
    ASSUME NEW tab \in Fats, NEW dir \in Dirs, NEW held \in Maps, NEW files, NEW cut,
           NEW own, NEW idx, NEW len, Order(tab, dir, held, files, cut, own, idx, len),
           NEW n \in Names, "W" \notin files[n].flags, dir[n].sclust \notin Clusters,
           NEW x \in Clusters, held[n].sclust = x, NEW held2,
           \A m \in Names \ {n} : held2[m] = held[m],
           held2[n] = [sclust |-> IF tab[x] \in Clusters THEN tab[x] ELSE 0, size |-> 0]
    PROVE  \E o, i, l : Order([tab EXCEPT ![x] = 0], dir, held2, files, cut, o, i, l)
<1> DEFINE f == [tab EXCEPT ![x] = 0]
           o == [own EXCEPT ![x] = "none"]
           i == [c \in Clusters |-> IF own[c] = n THEN idx[c] - 1 ELSE idx[c]]
           l == [len EXCEPT ![n] = len[n] - 1]
<1>1. own \in Owners /\ idx \in Places /\ len \in Lengths /\ Census(tab, held, own, idx, len)
  BY DEF Order
<1>2. own[x] = n /\ idx[x] = 1 /\ n # "none" /\ len[n] \in Nat /\ len[n] >= 1
  BY <1>1, Constants DEF Census, Lengths
<1>3. \A c \in Clusters : own[c] = n => idx[c] \in Nat /\ idx[c] >= 1
  BY <1>1, <1>2 DEF Census, Places
<1>4. o \in Owners /\ i \in Places /\ l \in Lengths
  BY <1>1, <1>2, <1>3 DEF Owners, Lengths, Places
<1>5. /\ \A c \in Clusters : /\ o[c] = IF c = x THEN "none" ELSE own[c]
                             /\ i[c] = IF own[c] = n THEN idx[c] - 1 ELSE idx[c]
                             /\ f[c] = IF c = x THEN 0 ELSE tab[c]
      /\ \A m \in Names : l[m] = IF m = n THEN len[n] - 1 ELSE len[m]
      /\ \A m \in Names : m # "none"
  BY <1>1, Constants DEF Owners, Places, Lengths, Fats
<1>6. /\ idx[x] = len[n] => tab[x] = LastLink
      /\ idx[x] < len[n] => tab[x] \in Clusters /\ own[tab[x]] = n /\ idx[tab[x]] = idx[x] + 1
  BY <1>1, <1>2 DEF Census
<1>7. \A c \in Clusters : c # x /\ own[c] = n => idx[c] # 1
  BY <1>1, <1>2 DEF Census
<1> HIDE DEF o, i, l, f
<1>8. ASSUME NEW m \in Names
      PROVE  /\ held2[m].sclust \in Clusters => o[held2[m].sclust] = m /\ i[held2[m].sclust] = 1
             /\ held2[m].sclust \notin Clusters => l[m] = 0
  <2>1. CASE m = n
    <3>1. CASE tab[x] \in Clusters
      <4>1. idx[x] < len[n] /\ tab[x] # x
        BY <3>1, <1>2, <1>6, Markers
      <4> QED BY <2>1, <3>1, <4>1, <1>2, <1>5, <1>6
    <3>2. CASE tab[x] \notin Clusters
      <4>1. len[n] = 1
        BY <3>2, <1>2, <1>6
      <4> QED BY <2>1, <3>2, <4>1, <1>5, Markers
    <3> QED BY <3>1, <3>2
  <2>2. CASE m # n
    <3>1. held2[m] = held[m]
      BY <2>2
    <3>2. held[m].sclust \in Clusters => own[held[m].sclust] = m /\ idx[held[m].sclust] = 1
      BY <1>1 DEF Census
    <3>3. held[m].sclust \notin Clusters => len[m] = 0
      BY <1>1 DEF Census
    <3> QED BY <1>2, <1>5, <2>2, <3>1, <3>2, <3>3
  <2> QED BY <2>1, <2>2
<1>9. ASSUME NEW c \in Clusters, o[c] # "none"
      PROVE  /\ 1 <= i[c] /\ i[c] <= l[o[c]]
             /\ i[c] = l[o[c]] => f[c] = LastLink
             /\ i[c] < l[o[c]] => /\ f[c] \in Clusters
                                  /\ o[f[c]] = o[c] /\ i[f[c]] = i[c] + 1
  <2>1. c # x /\ own[c] # "none" /\ o[c] = own[c] /\ own[c] \in Names /\ f[c] = tab[c]
        /\ idx[c] \in Nat /\ len[own[c]] \in Nat
    BY <1>1, <1>5, <1>9 DEF Owners, Places, Lengths
  <2>2. /\ 1 <= idx[c] /\ idx[c] <= len[own[c]]
        /\ idx[c] = len[own[c]] => tab[c] = LastLink
        /\ idx[c] < len[own[c]] => /\ tab[c] \in Clusters
                                   /\ own[tab[c]] = own[c] /\ idx[tab[c]] = idx[c] + 1
    BY <1>1, <2>1 DEF Census
  <2>3. idx[c] < len[own[c]] => tab[c] # x
    BY <1>2, <2>1, <2>2
  <2>4. CASE own[c] = n
    <3>1. i[c] = idx[c] - 1 /\ l[o[c]] = len[n] - 1 /\ idx[c] # 1
      BY <1>5, <1>7, <2>1, <2>4
    <3>2. idx[c] < len[n] => o[tab[c]] = n /\ i[tab[c]] = idx[c]
      BY <1>5, <2>1, <2>2, <2>3, <2>4
    <3> QED BY <2>1, <2>2, <2>4, <3>1, <3>2, <1>2
  <2>5. CASE own[c] # n
    <3>1. i[c] = idx[c] /\ l[o[c]] = len[own[c]]
      BY <1>5, <2>1, <2>5
    <3>2. idx[c] < len[own[c]] => o[tab[c]] = own[c] /\ i[tab[c]] = idx[c] + 1
      BY <1>5, <2>1, <2>2, <2>3, <2>5
    <3> QED BY <2>1, <2>2, <3>1, <3>2
  <2> QED BY <2>4, <2>5
<1>10. ASSUME NEW c \in Clusters, NEW d \in Clusters, o[c] # "none", o[c] = o[d], i[c] = i[d]
       PROVE  c = d
  <2>1. own[c] # "none" /\ own[c] = own[d] /\ idx[c] \in Nat /\ idx[d] \in Nat
    BY <1>1, <1>5, <1>10 DEF Places
  <2>2. idx[c] = idx[d]
    BY <2>1, <1>5, <1>10
  <2> QED BY <1>1, <2>1, <2>2 DEF Census
<1>11. Census(f, held2, o, i, l)
  BY <1>8, <1>9, <1>10 DEF Census
<1>12. \A m \in Names : dir[m].sclust \in Clusters => m # n /\ dir[m].sclust = held2[m].sclust
  BY DEF Order
<1>13. ASSUME ~cut
       PROVE  /\ Fits(held2, l)
              /\ \A m \in Names : dir[m].sclust \in Clusters => dir[m].size <= l[m] * Bytes
              /\ \A m \in Names : Placed(m, files[m], o, i)
  <2>1. l[n] * Bytes >= 0 /\ held2[n].size = 0
    BY <1>2, <1>5, Constants
  <2>2. \A m \in Names \ {n} : l[m] = len[m]
    BY <1>5
  <2>3. Fits(held2, l)
    BY <1>13, <2>1, <2>2 DEF Order, Fits
  <2>4. \A m \in Names : dir[m].sclust \in Clusters => dir[m].size <= l[m] * Bytes
    BY <1>12, <1>13, <2>2 DEF Order
  <2>5. ASSUME NEW m \in Names PROVE Placed(m, files[m], o, i)
    <3>1. CASE m = n
      BY <3>1 DEF Placed
    <3>2. CASE m # n
      <4>1. Placed(m, files[m], own, idx)
        BY <1>13 DEF Order
      <4> QED BY <1>2, <1>5, <3>2, <4>1 DEF Placed
    <3> QED BY <3>1, <3>2
  <2> QED BY <2>3, <2>4, <2>5
<1> HIDE DEF Placed
<1>14. Order(f, dir, held2, files, cut, o, i, l)
  BY <1>4, <1>11, <1>12, <1>13 DEF Order
<1> QED BY <1>14 DEF f

\* A cluster that belongs to nobody, from what a sound chain runs through.
LEMMA NextPlace ==
    ASSUME NEW tab, NEW dir, NEW held, NEW files, NEW cut, NEW own, NEW idx, NEW len,
           Order(tab, dir, held, files, cut, own, idx, len),
           NEW c \in Clusters, own[c] # "none", tab[c] # LastLink
    PROVE  tab[c] \in Clusters /\ own[tab[c]] = own[c] /\ idx[tab[c]] = idx[c] + 1
<1>1. /\ own \in Owners /\ idx \in Places /\ len \in Lengths
      /\ 1 <= idx[c] /\ idx[c] <= len[own[c]]
      /\ idx[c] = len[own[c]] => tab[c] = LastLink
      /\ idx[c] < len[own[c]] => tab[c] \in Clusters /\ own[tab[c]] = own[c] /\ idx[tab[c]] = idx[c] + 1
  BY DEF Order, Census
<1>2. idx[c] \in Nat /\ len[own[c]] \in Nat
  BY <1>1 DEF Owners, Places, Lengths
<1> QED BY <1>1, <1>2

\* At a mount every tidy volume is in order, no handle being open for writing.
LEMMA MountKeeps ==
    ASSUME NEW tab, NEW dir \in Dirs, NEW files, NEW cut, Tidy(tab, dir, ~cut),
           \A n \in Names : "W" \notin files[n].flags
    PROVE  \E o, i, l : Order(tab, dir, dir, files, cut, o, i, l)
<1>1. PICK o \in Owners, i \in Places, l \in Lengths :
        Census(tab, dir, o, i, l) /\ (~cut => Fits(dir, l))
  BY DEF Tidy
<1>2. \A n \in Names : Placed(n, files[n], o, i)
  BY DEF Placed
<1>3. ~cut => \A n \in Names : dir[n].sclust \in Clusters => dir[n].size <= l[n] * Bytes
  BY <1>1, Markers DEF Fits
<1>4. Order(tab, dir, dir, files, cut, o, i, l)
  BY <1>1, <1>2, <1>3 DEF Order
<1> QED BY <1>4

\* Noting that a chain was cut only weakens the order.
LEMMA CutKeeps ==
    ASSUME NEW tab, NEW dir, NEW held, NEW files, NEW cut, NEW own, NEW idx, NEW len,
           Order(tab, dir, held, files, cut, own, idx, len)
    PROVE  Order(tab, dir, held, files, TRUE, own, idx, len)
  BY DEF Order

\* The files as the handles hold them are tidy too.
LEMMA HeldTidy ==
    ASSUME NEW tab, NEW dir, NEW held, NEW files, NEW cut, NEW own, NEW idx, NEW len,
           Order(tab, dir, held, files, cut, own, idx, len)
    PROVE  Tidy(tab, held, ~cut)
  BY DEF Order, Tidy

\* The handles with the file at work among them.
Handled(s) == [s.open EXCEPT ![s.n] = s.f]
\* Start and size of every file: its handle's when that writes, else its entry's.
HeldBy(s) == FilesHeld(DirSeen(s), Handled(s))
\* The census (own, idx, len) accounts for what s sees.
View(s, own, idx, len) ==
    Order(FatSeen(s), DirSeen(s), HeldBy(s), Handled(s), s.cut, own, idx, len)
\* Some census accounts for what s sees.
Chained(s) == \E own, idx, len : View(s, own, idx, len)

\* The types of the parts of the view.
LEMMA ViewTypes ==
    ASSUME NEW s, Volume(s)
    PROVE  /\ FatSeen(s) \in Fats /\ DirSeen(s) \in Dirs
           /\ Handled(s) \in Handles /\ HeldBy(s) \in Maps
<1>1. s \in States /\ WindowOK(s)
  BY DEF Volume
<1>2. ASSUME NEW c \in Clusters PROVE FatSeen(s)[c] \in Links
  <2>1. s.card[FatSector(c)] \in [{d \in Clusters : FatSector(d) = FatSector(c)} -> Links]
    BY <1>1, SectorKinds DEF WindowOK, Content
  <2>2. c \in {d \in Clusters : FatSector(d) = FatSector(c)}
    OBVIOUS
  <2>3. s.card[FatSector(c)][c] \in Links
    BY <2>1, <2>2
  <2>4. CASE s.winsect = FatSector(c)
    BY <2>4, WindowLink
  <2>5. CASE s.winsect # FatSector(c)
    BY <2>3, <2>5 DEF FatSeen
  <2> QED BY <2>4, <2>5
<1>3. FatSeen(s) \in Fats
  BY <1>2 DEF Fats, FatSeen
<1>4. DirSeen(s) \in Dirs
  BY <1>1, SectorKinds DEF WindowOK, Content, DirSeen, Dirs
<1>5. Handled(s) \in Handles
  BY <1>1 DEF Handled, Handles, States
<1>6. \A n \in Names : HeldBy(s)[n] \in [sclust : {-1, 0, Bad} \cup Clusters, size : Int]
  <2> TAKE n \in Names
  <2>1. DirSeen(s)[n] \in [sclust : {-1, 0, Bad} \cup Clusters, size : Int]
    BY <1>4 DEF Dirs, Entries, NoEntry, Empty
  <2>2. Handled(s)[n] \in Files
    BY <1>5 DEF Handles
  <2>3. [sclust |-> Handled(s)[n].sclust, size |-> Handled(s)[n].fsize]
           \in [sclust : {-1, 0, Bad} \cup Clusters, size : Int]
    BY <2>2 DEF Files
  <2> QED BY <2>1, <2>3 DEF HeldBy, FilesHeld
<1>7. HeldBy(s) \in Maps
  BY <1>6 DEF HeldBy, FilesHeld, Maps
<1> QED BY <1>3, <1>4, <1>5, <1>7

\* The file at work is at its name, the others where they were.
LEMMA HandledIs ==
    ASSUME NEW s, Volume(s), s.n \in Names
    PROVE  /\ Handled(s)[s.n] = s.f
           /\ \A m \in Names \ {s.n} : Handled(s)[m] = s.open[m]
           /\ HeldBy(s)[s.n] = IF "W" \in s.f.flags
                               THEN [sclust |-> s.f.sclust, size |-> s.f.fsize]
                               ELSE DirSeen(s)[s.n]
<1>1. s.open \in [Names -> Files]
  BY DEF Volume, States
<1> QED BY <1>1 DEF Handled, HeldBy, FilesHeld

\* Two handles that differ in the sector buffer at most.
SameHandle(f, g) ==
    /\ g.fptr = f.fptr /\ g.fsize = f.fsize /\ g.sclust = f.sclust /\ g.clust = f.clust
    /\ \A flag \in {"R", "W", "WRITTEN"} : flag \in g.flags <=> flag \in f.flags
    /\ "ERROR" \in f.flags => "ERROR" \in g.flags

\* A step that the view cannot tell, though the handle's buffer may change.
Touched(s, t) ==
    /\ Volume(t) /\ SameView(s, t) /\ t.n = s.n /\ t.open = s.open /\ t.x = s.x
    /\ t.ncl = s.ncl /\ SameHandle(s.f, t.f)

\* Such steps compose.
LEMMA TouchedTrans ==
    ASSUME NEW s, NEW t, NEW u, Touched(s, t), Touched(t, u)
    PROVE  Touched(s, u)
  BY DEF Touched, SameView, SameHandle

\* A step nobody can tell is one of them.
LEMMA KeptTouched ==
    ASSUME NEW s, NEW t, Volume(t), Kept(s, t), t.x = s.x, t.ncl = s.ncl
    PROVE  Touched(s, t)
  BY DEF Touched, Kept, SameFile, SameHandle

\* The handle of the file at work changes, but not the start of its chain.
LEMMA HandleKeeps ==
    ASSUME NEW s, NEW t, NEW own, NEW idx, NEW len, View(s, own, idx, len), s.n \in Names,
           Volume(s), Volume(t), SameView(s, t), t.n = s.n, t.open = s.open,
           "W" \in t.f.flags <=> "W" \in s.f.flags, t.f.sclust = s.f.sclust,
           ~s.cut /\ "W" \in s.f.flags /\ s.f.sclust # Bad =>
               t.f.fsize <= len[s.n] * Bytes /\ Placed(s.n, t.f, own, idx)
    PROVE  View(t, own, idx, len)
<1>1. FatSeen(t) = FatSeen(s) /\ DirSeen(t) = DirSeen(s) /\ t.cut = s.cut
  BY DEF SameView
<1>2. /\ Handled(s)[s.n] = s.f /\ Handled(t)[s.n] = t.f
      /\ \A m \in Names \ {s.n} : Handled(t)[m] = Handled(s)[m]
      /\ HeldBy(t)[s.n] = IF "W" \in t.f.flags
                          THEN [sclust |-> t.f.sclust, size |-> t.f.fsize] ELSE DirSeen(s)[s.n]
      /\ HeldBy(s)[s.n] = IF "W" \in s.f.flags
                          THEN [sclust |-> s.f.sclust, size |-> s.f.fsize] ELSE DirSeen(s)[s.n]
  BY <1>1, HandledIs
<1>3. \A m \in Names \ {s.n} : HeldBy(t)[m] = HeldBy(s)[m]
  BY <1>1, <1>2 DEF HeldBy, FilesHeld
<1>4. HeldBy(t)[s.n].sclust = HeldBy(s)[s.n].sclust
  BY <1>2
<1>5. /\ DirSeen(s)[s.n].sclust \in Clusters => DirSeen(s)[s.n].sclust = HeldBy(s)[s.n].sclust
      /\ ~s.cut => /\ DirSeen(s)[s.n].sclust \in Clusters => DirSeen(s)[s.n].size <= len[s.n] * Bytes
                   /\ HeldBy(s)[s.n].sclust # Bad => HeldBy(s)[s.n].size <= len[s.n] * Bytes
  BY DEF View, Order, Fits
<1>6. ~s.cut => /\ HeldBy(t)[s.n].sclust # Bad => HeldBy(t)[s.n].size <= len[s.n] * Bytes
                /\ Placed(s.n, Handled(t)[s.n], own, idx)
  BY <1>2, <1>5 DEF Placed
<1>7. Order(FatSeen(s), DirSeen(s), HeldBy(t), Handled(t), s.cut, own, idx, len)
  BY <1>2, <1>3, <1>4, <1>5, <1>6, UpdateKeeps DEF View
<1> QED BY <1>1, <1>7 DEF View

\* A step that only touches the window keeps the census of clusters.
LEMMA TouchedView ==
    ASSUME NEW s, NEW t, NEW own, NEW idx, NEW len, View(s, own, idx, len), s.n \in Names,
           Volume(s), Touched(s, t)
    PROVE  View(t, own, idx, len)
<1>1. ASSUME ~s.cut, "W" \in s.f.flags, s.f.sclust # Bad
      PROVE  t.f.fsize <= len[s.n] * Bytes /\ Placed(s.n, t.f, own, idx)
  <2>1. /\ Placed(s.n, s.f, own, idx)
        /\ HeldBy(s)[s.n].sclust # Bad => HeldBy(s)[s.n].size <= len[s.n] * Bytes
        /\ HeldBy(s)[s.n] = [sclust |-> s.f.sclust, size |-> s.f.fsize]
    BY <1>1, HandledIs DEF View, Order, Fits
  <2> QED BY <1>1, <2>1 DEF Touched, SameHandle, Placed
<1> QED BY <1>1, HandleKeeps DEF Touched, SameHandle

\* What the census accounts for is tidy.
LEMMA ViewTidy ==
    ASSUME NEW s, Volume(s), NEW own, NEW idx, NEW len, View(s, own, idx, len)
    PROVE  SeenSound(s) /\ Tidy(FatSeen(s), HeldBy(s), ~s.cut)
  BY ViewTypes, OrderTidy, HeldTidy DEF View, SeenSound

-----------------------------------------------------------------------------
(* Changes of the handle. *)
\* A new value of the handle changes no sector.
LEMMA SetFile ==
    ASSUME NEW s, Volume(s), NEW f \in Files
    PROVE  LET u == [s EXCEPT !.f = f]
           IN  /\ Volume(u) /\ SameView(s, u) /\ u.n = s.n /\ u.open = s.open /\ u.f = f
               /\ u.x = s.x /\ u.ncl = s.ncl /\ u.res = s.res /\ u.live = s.live
               /\ u.winsect = s.winsect /\ u.wflag = s.wflag /\ u.cut = s.cut
<1> DEFINE u == [s EXCEPT !.f = f]
<1>1. /\ u \in States /\ SameWindow(s, u) /\ u.n = s.n /\ u.open = s.open /\ u.f = f
      /\ u.x = s.x /\ u.ncl = s.ncl /\ u.res = s.res /\ u.live = s.live
  BY DEF Volume, States, SameWindow
<1> HIDE DEF u
<1>2. Volume(u) /\ SameView(s, u)
  BY <1>1, VolumeSame
<1> QED BY <1>1, <1>2 DEF u, SameWindow

\* The flags of a handle.
FlagNames == {"R", "W", "WRITTEN", "DIRTY", "ERROR"}

\* The types of the handle's fields.
LEMMA FileFields ==
    ASSUME NEW s, Volume(s)
    PROVE  /\ s.f \in Files /\ s.f.flags \in SUBSET FlagNames /\ s.f.fptr \in Nat
           /\ s.f.fsize \in Nat /\ s.f.sclust \in {0, Bad} \cup Clusters /\ s.f.sclust \in Nat
           /\ s.f.clust \in Nat /\ s.f.dsect \in {0} \cup DataSectors /\ s.f.buf \in SectorBytes
<1>1. s.f \in Files
  BY DEF Volume, States
<1>2. s.f.sclust \in {0, Bad} \cup Clusters
  BY <1>1 DEF Files
<1>3. {0, Bad} \cup Clusters \subseteq Nat
  <2>1. Clusters \subseteq Nat /\ Bad \in Nat
    BY Markers
  <2> QED BY <2>1
<1> QED BY <1>1, <1>2, <1>3 DEF Files, FlagNames

\* FA__DIRTY may change, and FA__ERROR be set, without the view telling.
LEMMA SetFlags ==
    ASSUME NEW s, Volume(s), NEW A \in SUBSET FlagNames,
           \A flag \in {"R", "W", "WRITTEN"} : flag \in A <=> flag \in s.f.flags,
           "ERROR" \in s.f.flags => "ERROR" \in A
    PROVE  LET u == [s EXCEPT !.f.flags = A]
           IN  /\ Touched(s, u) /\ u.res = s.res /\ u.live = s.live /\ u.f.flags = A
               /\ u.winsect = s.winsect
<1> DEFINE u == [s EXCEPT !.f.flags = A]
           f == [s.f EXCEPT !.flags = A]
<1>1. s.f \in Files /\ s \in States
  BY FileFields DEF Volume
<1>2. f \in Files /\ SameHandle(s.f, f) /\ f.flags = A
  BY <1>1 DEF Files, FlagNames, SameHandle
<1>3. u = [s EXCEPT !.f = f]
  BY <1>1 DEF States
<1> HIDE DEF u, f
<1>4. /\ Volume(u) /\ SameView(s, u) /\ u.n = s.n /\ u.open = s.open /\ u.f = f
      /\ u.x = s.x /\ u.ncl = s.ncl /\ u.res = s.res /\ u.live = s.live
      /\ u.winsect = s.winsect
  BY <1>2, <1>3, SetFile
<1> QED BY <1>2, <1>4 DEF u, Touched

\* ABORT marks the handle and touches no view.
LEMMA AbortKeeps ==
    ASSUME NEW s, Volume(s), NEW r \in Results, NEW t \in Abort(s, r)
    PROVE  Touched(s, t) /\ t.res = r /\ t.live = s.live /\ "ERROR" \in t.f.flags
<1> DEFINE m == Set(s, r)
           A == m.f.flags \cup {"ERROR"}
<1>1. /\ Volume(m) /\ Kept(s, m) /\ m.x = s.x /\ m.ncl = s.ncl /\ m.res = r /\ m.live = s.live
  BY SetVolume
<1>2. t = [m EXCEPT !.f.flags = A]
  BY <1>1 DEF Abort, Volume, States
<1> HIDE DEF m
<1>3. /\ A \in SUBSET FlagNames
      /\ \A flag \in {"R", "W", "WRITTEN"} : flag \in A <=> flag \in m.f.flags
      /\ "ERROR" \in A
  BY <1>1, FileFields DEF FlagNames
<1> HIDE DEF A
<1>4. Touched(m, t) /\ t.res = m.res /\ t.live = m.live /\ t.f.flags = A
  BY <1>1, <1>2, <1>3, SetFlags
<1>5. Touched(s, m)
  BY <1>1, KeptTouched
<1> QED BY <1>1, <1>3, <1>4, <1>5, TouchedTrans

\* The data sectors are in no view.
LEMMA SetData ==
    ASSUME NEW s, Volume(s), NEW d \in [DataSectors -> SectorBytes]
    PROVE  LET u == [s EXCEPT !.data = d]
           IN  /\ Volume(u) /\ Kept(s, u) /\ u.x = s.x /\ u.ncl = s.ncl /\ u.res = s.res
               /\ u.live = s.live /\ u.data = d /\ u.winsect = s.winsect
<1> DEFINE u == [s EXCEPT !.data = d]
<1>1. /\ u \in States /\ SameWindow(s, u) /\ SameFile(s, u)
      /\ u.x = s.x /\ u.ncl = s.ncl /\ u.res = s.res /\ u.live = s.live /\ u.data = d
  BY DEF Volume, States, SameWindow, SameFile
<1> HIDE DEF u
<1>2. Volume(u) /\ SameView(s, u)
  BY <1>1, VolumeSame
<1> QED BY <1>1, <1>2 DEF u, SameWindow, Kept

\* Writing the file's buffer back touches no view.
LEMMA FlushKeeps ==
    ASSUME NEW s, Volume(s), NEW t \in Flush(s)
    PROVE  /\ Touched(s, t) /\ t.winsect = s.winsect
           /\ t.live => t.res \in {"OK", "DISK_ERR"}
           /\ "ERROR" \in t.f.flags <=> "ERROR" \in s.f.flags
<1>1. CASE "DIRTY" \notin s.f.flags
  <2>1. t = Set(s, "OK") /\ "OK" \in Results
    BY <1>1 DEF Flush, Results
  <2>2. Volume(t) /\ Kept(s, t) /\ t.x = s.x /\ t.ncl = s.ncl /\ t.res = "OK" /\ SameWindow(s, t)
    BY <2>1, SetVolume
  <2> QED BY <2>2, KeptTouched DEF SameWindow, Kept, SameFile
<1>2. CASE "DIRTY" \in s.f.flags
  <2> DEFINE d == [s.data EXCEPT ![s.f.dsect] = s.f.buf]
             w == [s EXCEPT !.data = d]
  <2>1. s.data \in [DataSectors -> SectorBytes] /\ s \in States
    BY DEF Volume, States
  <2>2. d \in [DataSectors -> SectorBytes]
    BY <2>1, FileFields
  <2>3. w = [s EXCEPT !.data[s.f.dsect] = s.f.buf]
    BY <2>1 DEF States
  <2> HIDE DEF d
  <2>4. /\ Volume(w) /\ Kept(s, w) /\ w.x = s.x /\ w.ncl = s.ncl /\ w.live = s.live
        /\ w.winsect = s.winsect
    BY <2>2, SetData
  <2>5. Touched(s, w)
    BY <2>4, KeptTouched
  <2>6. PICK e \in DiskWrite(s, w) :
          t = IF e.live /\ e.res = "OK" THEN [e EXCEPT !.f.flags = @ \ {"DIRTY"}] ELSE e
    BY <1>2, <2>3 DEF Flush, IfOk, Then
  <2> HIDE DEF w
  <2>7. /\ Touched(s, e) /\ e.winsect = s.winsect
        /\ e.live => e.res \in {"OK", "DISK_ERR"}
        /\ e.f = s.f
    <3>1. \/ e = Set(w, "OK")
          \/ e \in Failed(s) \cup Lost(s)
          \/ e \in Failed(w) \cup Lost(w)
      BY <2>6, DiskWriteCases
    <3>2. CASE e = Set(w, "OK")
      <4>1. Volume(e) /\ Kept(w, e) /\ e.x = w.x /\ e.ncl = w.ncl /\ SameWindow(w, e)
            /\ e.res = "OK"
        BY <2>4, <3>2, SetVolume DEF Results
      <4>2. Touched(w, e)
        BY <4>1, KeptTouched
      <4> QED BY <2>4, <2>5, <4>1, <4>2, TouchedTrans DEF SameWindow, Kept, SameFile
    <3>3. CASE e \in Failed(s) \cup Lost(s)
      <4>1. Volume(e) /\ Kept(s, e) /\ e.x = s.x /\ e.ncl = s.ncl /\ SameWindow(s, e)
            /\ (e.live => e.res = "DISK_ERR")
        BY <3>3, FailedVolume, LostVolume
      <4> QED BY <4>1, KeptTouched DEF SameWindow, Kept, SameFile
    <3>4. CASE e \in Failed(w) \cup Lost(w)
      <4>1. Volume(e) /\ Kept(w, e) /\ e.x = w.x /\ e.ncl = w.ncl /\ SameWindow(w, e)
            /\ (e.live => e.res = "DISK_ERR")
        BY <2>4, <3>4, FailedVolume, LostVolume
      <4>2. Touched(w, e)
        BY <4>1, KeptTouched
      <4> QED BY <2>4, <2>5, <4>1, <4>2, TouchedTrans DEF SameWindow, Kept, SameFile
    <3> QED BY <3>1, <3>2, <3>3, <3>4
  <2>8. CASE ~(e.live /\ e.res = "OK")
    BY <2>6, <2>7, <2>8
  <2>9. CASE e.live /\ e.res = "OK"
    <3> DEFINE A == e.f.flags \ {"DIRTY"}
    <3>1. Volume(e)
      BY <2>7 DEF Touched
    <3>2. t = [e EXCEPT !.f.flags = A]
      BY <2>6, <2>9
    <3>3. /\ A \in SUBSET FlagNames
          /\ \A flag \in {"R", "W", "WRITTEN"} : flag \in A <=> flag \in e.f.flags
          /\ "ERROR" \in e.f.flags <=> "ERROR" \in A
      BY <3>1, FileFields
    <3> HIDE DEF A
    <3>4. /\ Touched(e, t) /\ t.res = e.res /\ t.live = e.live /\ t.winsect = e.winsect
          /\ t.f.flags = A
      BY <3>1, <3>2, <3>3, SetFlags
    <3> QED BY <2>7, <2>9, <3>3, <3>4, TouchedTrans
  <2> QED BY <2>8, <2>9
<1> QED BY <1>1, <1>2

\* The buffer, or the sector it stands for, changes.
LEMMA SetBuffer ==
    ASSUME NEW s, Volume(s), NEW b \in SectorBytes, NEW d \in {0} \cup DataSectors
    PROVE  LET u == [s EXCEPT !.f = [s.f EXCEPT !.buf = b, !.dsect = d]]
           IN  Touched(s, u) /\ u.res = s.res /\ u.live = s.live /\ u.f.flags = s.f.flags
<1> DEFINE f == [s.f EXCEPT !.buf = b, !.dsect = d]
           u == [s EXCEPT !.f = f]
<1>1. f \in Files /\ SameHandle(s.f, f) /\ f.flags = s.f.flags
  BY FileFields DEF Files, SameHandle
<1> HIDE DEF f
<1>2. /\ Volume(u) /\ SameView(s, u) /\ u.n = s.n /\ u.open = s.open /\ u.f = f
      /\ u.x = s.x /\ u.ncl = s.ncl /\ u.res = s.res /\ u.live = s.live
  BY <1>1, SetFile
<1> HIDE DEF u
<1>3. Touched(s, u)
  BY <1>1, <1>2 DEF Touched
<1> QED BY <1>1, <1>2, <1>3 DEF u, f

\* Loading the file's buffer touches no view; its failure marks the handle.
LEMMA FillBufKeeps ==
    ASSUME NEW s, Volume(s), NEW sect \in DataSectors, NEW t \in FillBuf(s, sect)
    PROVE  /\ Touched(s, t)
           /\ t.live => (t.res # "OK" => "ERROR" \in t.f.flags /\ t.res = "DISK_ERR")
           /\ t.live /\ t.res = "OK" => ("ERROR" \in t.f.flags <=> "ERROR" \in s.f.flags)
<1> DEFINE Read(e) == DiskRead(e, [e EXCEPT !.f.buf = e.data[sect]])
<1>1. PICK m \in IfOk(Flush(s), Read) :
        t \in IF m.live THEN (IF m.res # "OK" THEN Abort(m, "DISK_ERR")
                              ELSE {[m EXCEPT !.f.dsect = sect]})
              ELSE {m}
  BY DEF FillBuf, Then
<1>2. PICK e \in Flush(s) : m \in IF e.live /\ e.res = "OK" THEN Read(e) ELSE {e}
  BY <1>1 DEF IfOk, Then
<1>3. Touched(s, e) /\ Volume(e) /\ ("ERROR" \in e.f.flags <=> "ERROR" \in s.f.flags)
  BY FlushKeeps DEF Touched
<1>4. Touched(e, m) /\ m.f.flags = e.f.flags
  <2>1. CASE ~(e.live /\ e.res = "OK")
    BY <1>2, <1>3, <2>1 DEF Touched, SameView, SameHandle
  <2>2. CASE e.live /\ e.res = "OK"
    <3> DEFINE u == [e EXCEPT !.f = [e.f EXCEPT !.buf = e.data[sect], !.dsect = e.f.dsect]]
    <3>1. e.data[sect] \in SectorBytes /\ e \in States /\ e.f \in Files
          /\ e.f.dsect \in {0} \cup DataSectors
      BY <1>3, FileFields DEF Volume, States
    <3>2. u = [e EXCEPT !.f.buf = e.data[sect]]
      BY <3>1 DEF States, Files
    <3>3. Touched(e, u) /\ Volume(u) /\ u.f.flags = e.f.flags
      BY ZenonT(60), <1>3, <3>1, SetBuffer DEF Touched
    <3> HIDE DEF u
    <3>4. m \in DiskRead(e, u)
      BY <1>2, <2>2, <3>2
    <3>5. CASE m = Set(u, "OK")
      <4>1. Volume(m) /\ Kept(u, m) /\ m.x = u.x /\ m.ncl = u.ncl
        BY <3>3, <3>5, SetVolume DEF Results
      <4> QED BY <3>3, <4>1, KeptTouched, TouchedTrans DEF Kept, SameFile
    <3>6. CASE m \in Failed(e)
      <4>1. Volume(m) /\ Kept(e, m) /\ m.x = e.x /\ m.ncl = e.ncl
        BY <1>3, <3>6, FailedVolume
      <4> QED BY <4>1, KeptTouched DEF Kept, SameFile
    <3> QED BY <3>4, <3>5, <3>6, DiskReadKeeps
  <2> QED BY <2>1, <2>2
<1>5. Touched(s, m) /\ Volume(m)
  BY <1>3, <1>4, TouchedTrans DEF Touched
<1>6. CASE ~m.live
  BY <1>1, <1>5, <1>6
<1>7. CASE m.live /\ m.res # "OK"
  <2>1. Touched(m, t) /\ "ERROR" \in t.f.flags /\ t.res = "DISK_ERR"
    BY <1>1, <1>5, <1>7, AbortKeeps DEF Results
  <2> QED BY <1>5, <2>1, TouchedTrans
<1>8. CASE m.live /\ m.res = "OK"
  <2> DEFINE u == [m EXCEPT !.f = [m.f EXCEPT !.buf = m.f.buf, !.dsect = sect]]
  <2>1. m \in States /\ m.f \in Files /\ m.f.buf \in SectorBytes
    BY <1>5, FileFields DEF Volume
  <2>2. t = u
    BY <1>1, <1>8, <2>1 DEF States, Files
  <2>3. Touched(m, u) /\ u.res = m.res /\ u.f.flags = m.f.flags
    BY ZenonT(60), <1>5, <2>1, SetBuffer
  <2> HIDE DEF u
  <2> QED BY <1>3, <1>4, <1>5, <1>8, <2>2, <2>3, TouchedTrans
<1> QED BY <1>6, <1>7, <1>8

-----------------------------------------------------------------------------
(* Loops. *)
\* g[k] is what the loop body G can reach from s in k turns.
Unrolls(g, G, s, n) == \A k \in 0 .. n : g[k] = IF k = 0 THEN {s} ELSE UNION {G[t] : t \in g[k - 1]}

\* Such a table exists for every body and number of turns.
LEMMA LoopUnrolls ==
    ASSUME NEW A, NEW G \in [A -> SUBSET A], NEW s \in A, NEW n \in Nat
    PROVE  \E g \in [0 .. n -> SUBSET A] : Unrolls(g, G, s, n)
<1> DEFINE F == [X \in SUBSET A |-> UNION {G[t] : t \in X}]
           Q == SUBSET A
           a == {s}
<1>1. F \in [Q -> Q]
  OBVIOUS
<1>2. a \in Q
  OBVIOUS
<1>3. PICK g \in [0 .. n -> Q] : Iterates(g, F, a, n)
  <2> HIDE DEF F, Q, a
  <2> QED BY <1>1, <1>2, IterationExists
<1>4. ASSUME NEW k \in 0 .. n
      PROVE  g[k] = IF k = 0 THEN {s} ELSE UNION {G[t] : t \in g[k - 1]}
  <2>1. k # 0 => g[k - 1] \in SUBSET A
    OBVIOUS
  <2> QED BY <1>3, <2>1 DEF Iterates
<1> QED BY <1>3, <1>4 DEF Unrolls

-----------------------------------------------------------------------------
(* The search for a free cluster. *)
\* Where the search for a free cluster may stand; 0 when it is over.
Slots == 0 .. NFatEnt - 1

\* The search moves to slot p with k to return.
Searching(s, u, p, k) == u = [s EXCEPT !.ncl = p, !.x = k]

\* Moving the search keeps the volume.
LEMMA SetSearch ==
    ASSUME NEW s, Volume(s), NEW p \in Slots, NEW k \in Nat, NEW u, Searching(s, u, p, k)
    PROVE  /\ Volume(u) /\ Kept(s, u) /\ SameWindow(s, u) /\ u.x = k /\ u.ncl = p
           /\ u.res = s.res /\ u.live = s.live
<1>1. /\ u \in States /\ SameWindow(s, u) /\ SameFile(s, u) /\ u.x = k /\ u.ncl = p
      /\ u.res = s.res /\ u.live = s.live
  BY DEF Volume, States, SameWindow, SameFile, Slots, Searching
<1>2. Volume(u) /\ SameView(s, u)
  BY <1>1, VolumeSame
<1> QED BY <1>1, <1>2 DEF Kept

\* The search is over: no cluster, a failed read, or a free cluster.
Ceased(t) ==
    /\ t.ncl = 0 /\ t.x \in {0, Bad} \cup Clusters
    /\ t.x \in Clusters => FatSeen(t)[t.x] = 0 /\ t.winsect # 0
\* The slot after c, round the end of the FAT.
After(c) == IF c + 1 >= NFatEnt THEN 2 ELSE c + 1

\* A turn of the search keeps the view, and unless it is the last one moves on, never
\* past its start.
LEMMA LookNextKeeps ==
    ASSUME NEW s, Volume(s), s.ncl # 0, NEW scl \in 1 .. NFatEnt - 1,
           NEW t \in LookNext(s, scl)
    PROVE  /\ Volume(t) /\ Kept(s, t)
           /\ t.live /\ ~Ceased(t) => /\ t.ncl = After(s.ncl) /\ t.ncl # scl
                                      /\ s.ncl + 1 >= NFatEnt => 2 <= scl
<1> DEFINE next == After(s.ncl)
           over(u, r) == [u EXCEPT !.ncl = 0, !.x = r]
<1>1. s.ncl \in 1 .. NFatEnt - 1 /\ s.x \in Nat
  BY DEF Volume, States
<1>2. next \in Clusters /\ next \in Slots /\ 0 \in Slots
  BY <1>1, Constants, Markers DEF After, Slots
<1>3. ASSUME NEW u, Volume(u), NEW r \in {0, Bad} \cup Clusters,
             r \in Clusters => FatSeen(u)[r] = 0 /\ u.winsect # 0
      PROVE  Volume(over(u, r)) /\ Kept(u, over(u, r)) /\ Ceased(over(u, r))
  <2>1. r \in Nat /\ 0 \in Slots /\ Volume(u)
    BY <1>2, <1>3, Markers
  <2> DEFINE w == over(u, r)
  <2>3. Searching(u, w, 0, r)
    BY DEF Searching
  <2> HIDE DEF w
  <2>2. Volume(w) /\ Kept(u, w) /\ SameWindow(u, w) /\ w.x = r /\ w.ncl = 0
    BY <2>1, <2>3, SetSearch
  <2>4. FatSeen(w) = FatSeen(u)
    BY <2>2 DEF Kept, SameView
  <2>5. Ceased(w)
    BY <1>3, <2>2, <2>4 DEF Ceased, SameWindow
  <2> QED BY <2>2, <2>5 DEF w
<1>4. CASE s.ncl + 1 >= NFatEnt /\ 2 > scl
  <2>1. t = over(s, 0)
    BY <1>4 DEF LookNext
  <2> HIDE DEF over
  <2> QED BY <1>3, <2>1, Markers
<1>5. CASE ~(s.ncl + 1 >= NFatEnt /\ 2 > scl)
  <2>1. PICK g \in get_fat(s, next) :
          t \in IF g.live
                THEN IF g.x = 0 THEN {over(g, next)}
                     ELSE IF g.x \in {1, Bad} THEN {over(g, g.x)}
                     ELSE IF next = scl THEN {over(g, 0)}
                     ELSE {[g EXCEPT !.ncl = next]}
                ELSE {g}
    BY <1>5 DEF LookNext, Then, After
  <2>2. Fetched(s, g, next)
    BY <2>1, GetFat
  <2>3. Volume(g) /\ Kept(s, g)
    BY <2>2 DEF Fetched
  <2> HIDE DEF over
  <2>4. CASE ~g.live
    BY <2>1, <2>3, <2>4
  <2>5. CASE g.live /\ g.x = 0
    <3>1. FatSeen(g)[next] = 0 /\ g.winsect # 0
      <4>1. g.x = FatSeen(s)[next] /\ g.winsect = FatSector(next)
        BY <1>2, <2>2, <2>5, LinksType DEF Fetched
      <4>2. FatSeen(g) = FatSeen(s)
        BY <2>3 DEF Kept, SameView
      <4> QED BY <1>2, <2>5, <4>1, <4>2, SectorKinds
    <3>2. t = over(g, next)
      BY <2>1, <2>5
    <3>3. Volume(t) /\ Kept(g, t) /\ Ceased(t)
      BY <1>2, <1>3, <2>3, <3>1, <3>2
    <3> QED BY <2>3, <3>3, KeptTrans
  <2>6. CASE g.live /\ g.x \in {1, Bad}
    <3>1. g.x = Bad
      BY <1>2, <2>2, <2>6 DEF Fetched
    <3>2. t = over(g, Bad)
      BY <2>1, <2>6, <3>1, LinksType
    <3>3. Volume(t) /\ Kept(g, t) /\ Ceased(t)
      BY <1>3, <2>3, <3>2, Markers
    <3> QED BY <2>3, <3>3, KeptTrans
  <2>7. CASE g.live /\ g.x \notin {0, 1, Bad} /\ next = scl
    <3>1. t = over(g, 0)
      BY <2>1, <2>7
    <3>2. Volume(t) /\ Kept(g, t) /\ Ceased(t)
      BY <1>3, <2>3, <3>1, Markers
    <3> QED BY <2>3, <3>2, KeptTrans
  <2>8. CASE g.live /\ g.x \notin {0, 1, Bad} /\ next # scl
    <3>1. t = [g EXCEPT !.ncl = next]
      BY <2>1, <2>8
    <3>2. g.x \in Nat /\ g \in States
      BY <2>3 DEF Volume, States
    <3>3. Searching(g, t, next, g.x)
      BY <3>1, <3>2 DEF States, Searching
    <3>4. Volume(t) /\ Kept(g, t) /\ t.ncl = next
      <4>1. Volume(g) /\ next \in Slots /\ g.x \in Nat
        BY <1>2, <2>3, <3>2
      <4> HIDE DEF next
      <4> QED BY <3>3, <4>1, SetSearch
    <3>5. s.ncl + 1 >= NFatEnt => 2 <= scl
      BY <1>5
    <3> QED BY <2>3, <2>8, <3>4, <3>5, KeptTrans
  <2> QED BY <2>4, <2>5, <2>6, <2>7, <2>8
<1> QED BY <1>4, <1>5

\* What the search for a free cluster may do.
Searched(s, t) ==
    /\ Volume(t) /\ Kept(s, t)
    /\ t.live => Ceased(t)

\* The search ends, and what it found is free.
LEMMA FindFreeKeeps ==
    ASSUME NEW s, Volume(s), s.ncl = 0, NEW scl \in 1 .. NFatEnt - 1, NEW t \in FindFree(s, scl)
    PROVE  Searched(s, t)
<1> DEFINE z == [s EXCEPT !.ncl = scl]
           A == {u \in States : Volume(u) /\ Kept(s, u) /\ (u.live /\ u.ncl = 0 => Ceased(u))}
           Turn(u) == IF u.live /\ u.ncl # 0 THEN LookNext(u, scl) ELSE {u}
           G == [u \in A |-> Turn(u)]
           Body(g) == [k \in 0 .. NFatEnt |->
                         IF k = 0 THEN {z}
                         ELSE UNION {IF u.live /\ u.ncl # 0 THEN LookNext(u, scl) ELSE {u} : u \in g[k - 1]}]
           after == CHOOSE g : g = Body(g)
<1>1. FindFree(s, scl) = after[NFatEnt]
  BY DEF FindFree, Loop
<1>2. Volume(z) /\ Kept(s, z) /\ z.ncl = scl /\ scl # 0 /\ z \in States
  <2>1. s.x \in Nat /\ s \in States /\ scl \in Slots /\ scl # 0
    BY DEF Volume, States, Slots
  <2>2. Searching(s, z, scl, s.x)
    BY <2>1 DEF States, Searching
  <2> HIDE DEF z
  <2>3. Volume(z) /\ Kept(s, z) /\ z.ncl = scl
    BY <2>1, <2>2, SetSearch
  <2> QED BY <2>1, <2>3 DEF Volume
<1> HIDE DEF z
<1>3. z \in A
  BY <1>2
<1>4. \A u \in A : Turn(u) \in SUBSET A
  <2> SUFFICES ASSUME NEW u \in A, NEW w \in Turn(u) PROVE w \in A
    OBVIOUS
  <2>1. Volume(u) /\ Kept(s, u) /\ (u.live /\ u.ncl = 0 => Ceased(u))
    OBVIOUS
  <2>2. CASE ~(u.live /\ u.ncl # 0)
    BY <2>2
  <2>3. CASE u.live /\ u.ncl # 0
    <3>1. w \in LookNext(u, scl)
      BY <2>3
    <3>2. /\ Volume(w) /\ Kept(u, w)
          /\ w.live /\ ~Ceased(w) => w.ncl = After(u.ncl)
      BY <2>1, <2>3, <3>1, LookNextKeeps
    <3>3. u.ncl \in Nat
      BY <2>1 DEF Volume, States
    <3>4. After(u.ncl) # 0
      BY <3>3 DEF After
    <3>5. Kept(s, w) /\ w \in States
      BY <2>1, <3>2, KeptTrans DEF Volume
    <3> QED BY <3>2, <3>4, <3>5
  <2> QED BY <2>2, <2>3
<1>5. G \in [A -> SUBSET A]
  BY <1>4
<1> HIDE DEF Turn
<1>6. PICK g \in [0 .. NFatEnt -> SUBSET A] : Unrolls(g, G, z, NFatEnt)
  <2> HIDE DEF A, G
  <2> QED BY <1>3, <1>5, Constants, LoopUnrolls
<1>7. \A k \in 0 .. NFatEnt : g[k] = IF k = 0 THEN {z} ELSE UNION {Turn(u) : u \in g[k - 1]}
  <2> TAKE k \in 0 .. NFatEnt
  <2>1. g[k] = IF k = 0 THEN {z} ELSE UNION {G[u] : u \in g[k - 1]}
    BY <1>6 DEF Unrolls
  <2>2. k # 0 => g[k - 1] \in SUBSET A
    BY Constants
  <2>3. k # 0 => UNION {G[u] : u \in g[k - 1]} = UNION {Turn(u) : u \in g[k - 1]}
    BY <2>2
  <2> QED BY <2>1, <2>3
<1>8. g = Body(g)
  BY <1>7 DEF Turn
<1>9. after = Body(after)
  BY <1>8
<1> HIDE DEF after
<1>10. \A k \in 0 .. NFatEnt : after[k] = IF k = 0 THEN {z} ELSE UNION {Turn(u) : u \in after[k - 1]}
  BY <1>9 DEF Turn
<1> DEFINE Far(u, k) == \/ scl <= u.ncl /\ u.ncl = scl + k
                        \/ u.ncl < scl /\ u.ncl = scl + k - (NFatEnt - 2)
           Good(k) == \A u \in after[k] : u \in A /\ (u.live /\ u.ncl # 0 => Far(u, k))
           S == {k \in Nat : k <= NFatEnt => Good(k)}
<1>11. 0 \in S
  <2>1. after[0] = {z}
    <3>1. 0 \in 0 .. NFatEnt
      BY Constants
    <3> HIDE DEF Good, S
    <3> QED BY <1>10, <3>1, Zenon
  <2>2. Far(z, 0)
    BY <1>2
  <2> QED BY <1>3, <2>1, <2>2
<1>12. ASSUME NEW k \in Nat, k \in S PROVE k + 1 \in S
  <2> SUFFICES ASSUME k + 1 <= NFatEnt, NEW w \in after[k + 1]
               PROVE  w \in A /\ (w.live /\ w.ncl # 0 => Far(w, k + 1))
    OBVIOUS
  <2>1. Good(k) /\ k + 1 \in 0 .. NFatEnt /\ k + 1 # 0 /\ (k + 1) - 1 = k
    BY <1>12, Constants
  <2>2. after[k + 1] = UNION {Turn(u) : u \in after[(k + 1) - 1]}
    BY <1>10, <2>1
  <2>3. PICK u \in after[k] : w \in Turn(u)
    BY <2>1, <2>2
  <2>4. u \in A /\ (u.live /\ u.ncl # 0 => Far(u, k))
    BY <2>1
  <2>5. w \in A
    BY <1>4, <2>3, <2>4
  <2>6. CASE ~(u.live /\ u.ncl # 0)
    BY <2>3, <2>5, <2>6 DEF Turn
  <2>7. CASE u.live /\ u.ncl # 0
    <3>1. w \in LookNext(u, scl)
      BY <2>3, <2>7 DEF Turn
    <3>2. w.live /\ w.ncl # 0 => /\ w.ncl = After(u.ncl) /\ w.ncl # scl
                                 /\ u.ncl + 1 >= NFatEnt => 2 <= scl
      BY <2>4, <2>7, <3>1, LookNextKeeps DEF Ceased
    <3>3. u.ncl \in 0 .. NFatEnt - 1
      BY <2>4 DEF States
    <3>4. Far(u, k)
      BY <2>4, <2>7
    <3> HIDE DEF A
    <3>5. w.live /\ w.ncl # 0 => Far(w, k + 1)
      BY <2>7, <3>2, <3>3, <3>4, Constants DEF After
    <3> QED BY <2>5, <3>5
  <2> QED BY <2>6, <2>7
<1>13. Good(NFatEnt)
  <2> HIDE DEF S
  <2>1. NFatEnt \in S
    BY <1>11, <1>12, Constants, SetOfNat
  <2> QED BY <2>1, Constants DEF S
<1>14. t \in A /\ (t.live /\ t.ncl # 0 => Far(t, NFatEnt))
  BY <1>1, <1>13
<1>15. ~(t.live /\ t.ncl # 0)
  <2>1. t.ncl \in 0 .. NFatEnt - 1
    BY <1>14 DEF States
  <2>2. ~Far(t, NFatEnt)
    BY <2>1, Constants
  <2> QED BY <1>14, <2>2
<1> QED BY <1>14, <1>15 DEF Searched

-----------------------------------------------------------------------------
(* Stretching a chain. *)
\* What the handles hold depends on the directory seen and the handles alone.
LEMMA SameHeld ==
    ASSUME NEW s, NEW t, SameFile(s, t), DirSeen(t) = DirSeen(s)
    PROVE  Handled(t) = Handled(s) /\ HeldBy(t) = HeldBy(s)
  BY DEF SameFile, Handled, HeldBy

\* A step nobody can tell keeps the census.
LEMMA KeptView ==
    ASSUME NEW s, NEW t, NEW own, NEW idx, NEW len, View(s, own, idx, len), Kept(s, t)
    PROVE  View(t, own, idx, len)
  BY SameHeld DEF View, Kept, SameView

\* A put_fat keeps the census when the entry it sets does.
LEMMA LinkedView ==
    ASSUME NEW s, NEW t, NEW c, NEW val, Linked(s, t, c, val), NEW own, NEW idx, NEW len,
           IF t.live /\ t.res = "OK"
           THEN Order([FatSeen(s) EXCEPT ![c] = val], DirSeen(s), HeldBy(s), Handled(s), s.cut,
                      own, idx, len)
           ELSE View(s, own, idx, len)
    PROVE  View(t, own, idx, len)
  BY SameHeld DEF View, Linked

\* Marking a free cluster as a chain's last one.
LEMMA MarkedKeeps ==
    ASSUME NEW s, Volume(s), s.winsect # 0, NEW own, NEW idx, NEW len, View(s, own, idx, len),
           NEW x \in Clusters, FatSeen(s)[x] = 0, NEW t \in put_fat(s, x, LastLink)
    PROVE  Linked(s, t, x, LastLink) /\ View(t, own, idx, len) /\ own[x] = "none"
<1> DEFINE g == [FatSeen(s) EXCEPT ![x] = LastLink]
<1>1. FatSeen(s) \in Fats /\ DirSeen(s) \in Dirs /\ Handled(s) \in Handles /\ HeldBy(s) \in Maps
  BY ViewTypes
<1>2. own[x] = "none"
  BY <1>1, FreeUnowned DEF View
<1>3. Order(g, DirSeen(s), HeldBy(s), Handled(s), s.cut, own, idx, len)
  BY <1>1, <1>2, Unowned DEF View
<1>4. LastLink \in Links
  BY DEF Links
<1>5. g \in Fats
  BY <1>1, <1>4 DEF Fats
<1> HIDE DEF g
<1>6. Tidy(g, DirSeen(s), ~s.cut)
  BY <1>1, <1>3, <1>5, OrderTidy
<1>7. Linked(s, t, x, LastLink)
  BY <1>4, <1>6, PutFat DEF g
<1> QED BY <1>2, <1>3, <1>7, LinkedView DEF g

\* Linking it to the last cluster of a chain.
LEMMA JoinKeeps ==
    ASSUME NEW s, Volume(s), s.winsect # 0, NEW own, NEW idx, NEW len, View(s, own, idx, len),
           NEW c \in Clusters, NEW x \in Clusters, FatSeen(s)[x] = LastLink, own[x] = "none",
           FatSeen(s)[c] = LastLink \/ s.cut, NEW t \in put_fat(s, c, x)
    PROVE  /\ Linked(s, t, c, x)
           /\ \E o, i, l : /\ View(t, o, i, l)
                           /\ t.live /\ t.res = "OK" => Follows(own, idx, c, o, i, x)
<1> DEFINE g == [FatSeen(s) EXCEPT ![c] = x]
<1>1. FatSeen(s) \in Fats /\ DirSeen(s) \in Dirs /\ Handled(s) \in Handles /\ HeldBy(s) \in Maps
  BY ViewTypes
<1>2. PICK o, i, l : /\ Order(g, DirSeen(s), HeldBy(s), Handled(s), s.cut, o, i, l)
                     /\ Follows(own, idx, c, o, i, x)
  BY <1>1, LinkKeeps DEF View
<1>3. x \in Links
  BY DEF Links
<1>4. g \in Fats
  BY <1>1, <1>3 DEF Fats
<1> HIDE DEF g
<1>5. Tidy(g, DirSeen(s), ~s.cut)
  BY <1>1, <1>2, <1>4, OrderTidy
<1>6. Linked(s, t, c, x)
  BY <1>3, <1>5, PutFat DEF g
<1>7. CASE t.live /\ t.res = "OK"
  <2>1. View(t, o, i, l)
    BY <1>2, <1>6, <1>7, LinkedView DEF g
  <2> QED BY <1>2, <1>6, <2>1
<1>8. CASE ~(t.live /\ t.res = "OK")
  <2>1. View(t, own, idx, len)
    BY <1>6, <1>8, LinkedView
  <2> QED BY <1>6, <1>8, <2>1
<1> QED BY <1>7, <1>8

\* What create_chain may do, for a file whose chain has reached c.
Grows(s, t) == Volume(t) /\ SameFile(s, t) /\ DirSeen(t) = DirSeen(s)
               /\ (t.live => t.ncl = s.ncl)
\* After create_chain, t's new cluster stands behind c in the census (o, i, l).
Reaches(t, c, own, idx, o, i, l) ==
    /\ View(t, o, i, l)
    /\ t.x \in Clusters => IF c = 0 THEN o[t.x] = "none" /\ FatSeen(t)[t.x] = LastLink
                           ELSE Follows(own, idx, c, o, i, t.x)
    /\ t.x = 0 => o = own /\ i = idx
\* What create_chain may do to a volume with a census.
Stretched(s, t, c, own, idx) ==
    /\ Grows(s, t) /\ (s.cut => t.cut)
    /\ t.live => /\ t.x \in {0, 1, Bad} \cup Clusters
                 /\ c = 0 => t.x # 1
                 /\ \E o, i, l : Reaches(t, c, own, idx, o, i, l)

\* How create_chain ends once the cluster is linked or has failed.
Finished(s, t, x) ==
    /\ Volume(t) /\ Kept(s, t) /\ t.ncl = s.ncl /\ t.live = s.live
    /\ t.x = IF s.res = "OK" THEN x ELSE Bad

\* The end of create_chain changes counters only.
LEMMA FinishKeeps ==
    ASSUME NEW s, Volume(s), s.live, s.res \in {"OK", "DISK_ERR"}, NEW x \in Clusters, NEW t,
           t = IF s.res = "OK" THEN [Counted(s, -1) EXCEPT !.last_clust = x, !.x = x]
               ELSE [s EXCEPT !.x = IF s.res = "DISK_ERR" THEN Bad ELSE 1]
    PROVE  Finished(s, t, x)
<1>1. CASE s.res = "OK"
  <2> DEFINE u == Counted(s, -1)
  <2>1. /\ Volume(u) /\ Kept(s, u) /\ SameWindow(s, u) /\ u.x = s.x /\ u.ncl = s.ncl
        /\ u.res = s.res /\ u.live = s.live
    BY CountedKeeps
  <2>2. t = [u EXCEPT !.last_clust = x, !.x = x] /\ x \in Nat
    BY <1>1, Markers
  <2> HIDE DEF u
  <2>3. /\ t \in States /\ SameWindow(u, t) /\ SameFile(u, t) /\ t.x = x /\ t.ncl = u.ncl
        /\ t.live = u.live
    BY ZenonT(60), <2>1, <2>2 DEF Volume, States, SameWindow, SameFile
  <2>4. Volume(t) /\ SameView(u, t)
    BY <2>1, <2>3, VolumeSame
  <2>5. Kept(s, t)
    BY <2>1, <2>3, <2>4, KeptTrans DEF Kept
  <2> QED BY <1>1, <2>1, <2>3, <2>4, <2>5 DEF Finished
<1>2. CASE s.res = "DISK_ERR"
  <2>1. t = [s EXCEPT !.x = Bad] /\ Bad \in Nat
    BY <1>2, Markers
  <2>2. t \in States /\ SameWindow(s, t) /\ SameFile(s, t) /\ t.x = Bad /\ t.ncl = s.ncl
        /\ t.live = s.live
    BY ZenonT(60), <2>1 DEF Volume, States, SameWindow, SameFile
  <2>3. Volume(t) /\ SameView(s, t)
    BY <2>2, VolumeSame
  <2> QED BY <1>2, <2>2, <2>3 DEF Finished, Kept
<1> QED BY <1>1, <1>2

\* Taking a free cluster as the new end, then linking it behind c, keeps the census at
\* every point between.
LEMMA AllocateKeeps ==
    ASSUME NEW s, Volume(s), s.winsect # 0, NEW own, NEW idx, NEW len, View(s, own, idx, len),
           NEW x \in Clusters, FatSeen(s)[x] = 0, NEW c,
           c = 0 \/ (c \in Clusters /\ (FatSeen(s)[c] = LastLink \/ s.cut)),
           NEW t \in Allocate(s, c, x)
    PROVE  Stretched(s, t, c, own, idx)
<1> DEFINE Join(u) == IF c = 0 THEN {u} ELSE put_fat(u, c, x)
           Finish(u) == IF u.res = "OK" THEN [Counted(u, -1) EXCEPT !.last_clust = x, !.x = x]
                        ELSE [u EXCEPT !.x = IF u.res = "DISK_ERR" THEN Bad ELSE 1]
<1>1. PICK m \in IfOk(put_fat(s, x, LastLink), Join) : t = IF m.live THEN Finish(m) ELSE m
  BY DEF Allocate, Then
<1>2. PICK e \in put_fat(s, x, LastLink) : m \in IF e.live /\ e.res = "OK" THEN Join(e) ELSE {e}
  BY <1>1 DEF IfOk, Then
<1>3. Linked(s, e, x, LastLink) /\ View(e, own, idx, len) /\ own[x] = "none"
  BY <1>2, MarkedKeeps
<1>4. /\ Grows(s, m) /\ m.cut = s.cut
      /\ m.live => /\ m.res \in {"OK", "DISK_ERR"}
                   /\ m.res # "OK" => Chained(m)
                   /\ m.res = "OK" =>
                        \E o, i, l : /\ View(m, o, i, l)
                                     /\ IF c = 0 THEN o[x] = "none" /\ FatSeen(m)[x] = LastLink
                                        ELSE Follows(own, idx, c, o, i, x)
  <2>1. CASE ~(e.live /\ e.res = "OK")
    BY <1>2, <1>3, <2>1 DEF Linked, Grows, Chained
  <2>2. CASE e.live /\ e.res = "OK"
    <3>1. FatSeen(e) = [FatSeen(s) EXCEPT ![x] = LastLink] /\ e.winsect # 0 /\ e.cut = s.cut
          /\ Volume(e)
      BY <1>3, <2>2 DEF Linked
    <3>2. FatSeen(s) \in Fats
      BY ViewTypes
    <3>3. FatSeen(e)[x] = LastLink
      BY <3>1, <3>2 DEF Fats
    <3>4. CASE c = 0
      <4>1. m = e
        BY <1>2, <2>2, <3>4
      <4>2. Grows(s, e) /\ e.cut = s.cut
        BY <1>3 DEF Linked, Grows
      <4>3. View(e, own, idx, len) /\ own[x] = "none" /\ FatSeen(e)[x] = LastLink
        BY <1>3, <3>3
      <4> QED BY <2>2, <3>4, <4>1, <4>2, <4>3
    <3>5. CASE c # 0
      <4>1. c \in Clusters /\ (FatSeen(e)[c] = LastLink \/ e.cut)
        BY <3>1, <3>2, <3>5 DEF Fats
      <4>2. m \in put_fat(e, c, x)
        BY <1>2, <2>2, <3>5
      <4>3. /\ Linked(e, m, c, x)
            /\ \E o, i, l : /\ View(m, o, i, l)
                            /\ m.live /\ m.res = "OK" => Follows(own, idx, c, o, i, x)
        BY <1>3, <3>1, <3>3, <4>1, <4>2, JoinKeeps
      <4>4. Grows(s, m) /\ m.cut = s.cut /\ (m.live => m.res \in {"OK", "DISK_ERR"})
        BY <1>3, <4>3 DEF Linked, Grows, SameFile
      <4> QED BY <3>5, <4>3, <4>4 DEF Chained
    <3> QED BY <3>4, <3>5
  <2> QED BY <2>1, <2>2
<1>5. CASE ~m.live
  BY <1>1, <1>4, <1>5 DEF Stretched
<1>6. CASE m.live
  <2>1. t = Finish(m) /\ Volume(m) /\ m.res \in {"OK", "DISK_ERR"}
    BY <1>1, <1>4, <1>6 DEF Grows
  <2>2. Finished(m, t, x)
    BY <1>6, <2>1, FinishKeeps
  <2>3. Grows(s, t) /\ t.cut = s.cut /\ FatSeen(t) = FatSeen(m) /\ Kept(m, t)
    BY <1>4, <2>2 DEF Finished, Grows, Kept, SameView, SameFile
  <2>4. CASE m.res = "OK"
    <3>1. PICK o, i, l : /\ View(m, o, i, l)
                         /\ IF c = 0 THEN o[x] = "none" /\ FatSeen(m)[x] = LastLink
                            ELSE Follows(own, idx, c, o, i, x)
      BY <1>4, <1>6, <2>4
    <3>2. View(t, o, i, l) /\ t.x = x
      BY <2>2, <2>3, <2>4, <3>1, KeptView DEF Finished
    <3>3. Reaches(t, c, own, idx, o, i, l)
      BY <2>3, <3>1, <3>2, Markers DEF Reaches
    <3>4. t.x # 1
      BY <3>2, Markers
    <3> QED BY <2>3, <3>2, <3>3, <3>4 DEF Stretched
  <2>5. CASE m.res # "OK"
    <3>1. PICK o, i, l : View(m, o, i, l)
      BY <1>4, <1>6, <2>5 DEF Chained
    <3>2. View(t, o, i, l) /\ t.x = Bad
      BY <2>2, <2>3, <2>5, <3>1, KeptView DEF Finished
    <3>3. Reaches(t, c, own, idx, o, i, l) /\ t.x # 1
      BY <3>2, Markers, LinksType DEF Reaches
    <3> QED BY <2>3, <3>2, <3>3 DEF Stretched
  <2> QED BY <2>4, <2>5
<1> QED BY <1>5, <1>6

\* The search and the allocation, for a chain that ends at c or has no cluster yet.
Search(s, c, scl) ==
    Then(FindFree(s, scl), LAMBDA u : IF u.x \in Clusters THEN Allocate(u, c, u.x) ELSE {u})

\* The search and what follows it keep the census.
LEMMA SearchKeeps ==
    ASSUME NEW s, Volume(s), s.ncl = 0, NEW own, NEW idx, NEW len, View(s, own, idx, len),
           NEW c, c = 0 \/ (c \in Clusters /\ (FatSeen(s)[c] = LastLink \/ s.cut)),
           NEW scl \in 1 .. NFatEnt - 1, NEW t \in Search(s, c, scl)
    PROVE  Stretched(s, t, c, own, idx)
<1>1. PICK u \in FindFree(s, scl) :
        t \in IF u.live THEN (IF u.x \in Clusters THEN Allocate(u, c, u.x) ELSE {u}) ELSE {u}
  BY DEF Search, Then
<1>2. Searched(s, u)
  BY FindFreeKeeps
<1>3. /\ Grows(s, u) /\ u.cut = s.cut /\ View(u, own, idx, len) /\ FatSeen(u) = FatSeen(s)
      /\ Volume(u)
  BY <1>2, KeptView DEF Searched, Grows, Kept, SameView, Ceased
<1>4. CASE ~u.live
  BY <1>1, <1>3, <1>4 DEF Stretched
<1>5. CASE u.live /\ u.x \notin Clusters
  <2>1. t = u /\ u.x \in {0, Bad} /\ u.x # 1
    BY <1>1, <1>2, <1>5, LinksType DEF Searched, Ceased
  <2>2. Reaches(u, c, own, idx, own, idx, len)
    BY <1>3, <1>5 DEF Reaches
  <2> QED BY <1>3, <2>1, <2>2 DEF Stretched
<1>6. CASE u.live /\ u.x \in Clusters
  <2>1. t \in Allocate(u, c, u.x) /\ u.winsect # 0 /\ FatSeen(u)[u.x] = 0
    BY <1>1, <1>2, <1>6 DEF Searched, Ceased
  <2>2. Stretched(u, t, c, own, idx)
    BY <1>3, <1>6, <2>1, AllocateKeeps
  <2>3. Grows(s, t)
    BY <1>3, <1>6, <2>2 DEF Stretched, Grows, SameFile
  <2> QED BY <1>3, <2>2, <2>3 DEF Stretched
<1> QED BY <1>4, <1>5, <1>6

\* Noting a cut keeps the census.
LEMMA CutNoted ==
    ASSUME NEW s, Volume(s), NEW b \in BOOLEAN, NEW t, t = [s EXCEPT !.cut = s.cut \/ b],
           NEW own, NEW idx, NEW len, View(s, own, idx, len)
    PROVE  /\ Volume(t) /\ SameFile(s, t) /\ DirSeen(t) = DirSeen(s) /\ FatSeen(t) = FatSeen(s)
           /\ t.ncl = s.ncl /\ t.live = s.live /\ t.cut = (s.cut \/ b) /\ View(t, own, idx, len)
           /\ t.last_clust = s.last_clust
<1>1. s \in States /\ WindowOK(s)
  BY DEF Volume
<1>2. /\ t \in States /\ SameFile(s, t) /\ t.ncl = s.ncl /\ t.live = s.live /\ t.cut = (s.cut \/ b)
      /\ t.card = s.card /\ t.win = s.win /\ t.winsect = s.winsect /\ t.wflag = s.wflag
      /\ t.last_clust = s.last_clust
  BY <1>1 DEF States, SameFile
<1>3. FatOf(t) = FatOf(s) /\ FatSeen(t) = FatSeen(s) /\ DirSeen(t) = DirSeen(s)
  BY <1>2 DEF FatOf, FatSeen, DirSeen
<1>4. WindowOK(t)
  BY <1>1, <1>2 DEF WindowOK
<1>5. ~t.cut => ~s.cut
  BY <1>2
<1>6. CardSound(t) /\ SeenSound(t)
  BY <1>2, <1>3, <1>5 DEF Volume, CardSound, SeenSound, Tidy
<1>7. View(t, own, idx, len)
  BY <1>2, <1>3, <1>5, SameHeld DEF View, Order
<1> QED BY <1>2, <1>3, <1>4, <1>6, <1>7 DEF Volume

\* create_chain keeps a census, whatever access fails in it.
LEMMA CreateChainKeeps ==
    ASSUME NEW s, Volume(s), s.ncl = 0, NEW own, NEW idx, NEW len, View(s, own, idx, len),
           NEW c \in Nat, NEW t \in create_chain(s, c)
    PROVE  Stretched(s, t, c, own, idx)
<1>1. CASE c = 0
  <2> DEFINE scl == IF s.last_clust = 0 \/ s.last_clust >= NFatEnt THEN 1 ELSE s.last_clust
  <2>1. s.last_clust \in Nat
    BY DEF Volume, States
  <2>2. scl \in 1 .. NFatEnt - 1
    BY <2>1, Constants
  <2> HIDE DEF scl
  <2>3. t \in Search(s, c, scl)
    BY <1>1 DEF create_chain, Search, scl
  <2> QED BY <1>1, <2>2, <2>3, SearchKeeps
<1>2. CASE c # 0
  <2>1. PICK g \in get_fat(s, c) :
          t \in IF g.live
                THEN IF g.x < 2 THEN {[g EXCEPT !.x = 1]}
                     ELSE IF g.x < NFatEnt THEN {g}
                     ELSE Search([g EXCEPT !.cut = @ \/ g.x = Bad], c, c)
                ELSE {g}
    BY <1>2 DEF create_chain, Search, Then
  <2>2. Fetched(s, g, c)
    BY <2>1, GetFat
  <2>3. /\ Volume(g) /\ Kept(s, g) /\ View(g, own, idx, len) /\ g.ncl = s.ncl /\ g.cut = s.cut
        /\ FatSeen(g) = FatSeen(s)
    BY <2>2, KeptView DEF Fetched, Kept, SameView
  <2>4. Grows(s, g)
    BY <2>3 DEF Grows, Kept, SameView
  <2>5. CASE ~g.live
    BY <2>1, <2>3, <2>4, <2>5 DEF Stretched
  <2>6. CASE g.live /\ g.x < 2
    <3>1. t = [g EXCEPT !.x = 1] /\ 1 \in Nat
      BY <2>1, <2>6
    <3>2. Volume(t) /\ Kept(g, t) /\ t.x = 1 /\ t.ncl = g.ncl /\ t.live = g.live
      BY <2>3, <3>1, SetX
    <3>3. View(t, own, idx, len)
      BY <2>3, <3>2, KeptView
    <3>4. Grows(s, t) /\ t.cut = s.cut
      BY <2>3, <3>2 DEF Grows, Kept, SameView, SameFile
    <3>5. Reaches(t, c, own, idx, own, idx, len)
      BY <3>2, <3>3, Markers DEF Reaches
    <3> QED BY <1>2, <3>2, <3>4, <3>5 DEF Stretched
  <2>7. CASE g.live /\ ~(g.x < 2) /\ g.x < NFatEnt
    <3>1. t = g /\ g.x \in Nat
      BY <2>1, <2>3, <2>7 DEF Volume, States
    <3>2. g.x \in Clusters /\ g.x # 1 /\ g.x # Bad
      BY <2>7, <3>1, Markers
    <3>3. c \in Clusters /\ g.x = FatSeen(g)[c]
      BY <2>2, <2>3, <2>7, <3>2 DEF Fetched
    <3>4. own[c] # "none" => own[g.x] = own[c] /\ idx[g.x] = idx[c] + 1
      BY <2>3, <3>2, <3>3, NextPlace, Markers DEF View
    <3>5. Reaches(g, c, own, idx, own, idx, len)
      BY <1>2, <2>3, <3>4 DEF Reaches, Follows
    <3> QED BY <1>2, <2>3, <2>4, <3>1, <3>2, <3>5 DEF Stretched
  <2>8. CASE g.live /\ ~(g.x < 2) /\ ~(g.x < NFatEnt)
    <3> DEFINE b == (g.x = Bad)
               u == [g EXCEPT !.cut = g.cut \/ b]
    <3>1. t \in Search(u, c, c) /\ g \in States
      BY <2>1, <2>3, <2>8 DEF Volume
    <3>2. /\ Volume(u) /\ SameFile(g, u) /\ DirSeen(u) = DirSeen(g) /\ FatSeen(u) = FatSeen(g)
          /\ u.ncl = g.ncl /\ u.live = g.live /\ u.cut = (g.cut \/ b) /\ View(u, own, idx, len)
      <4> HIDE DEF b
      <4>1. b \in BOOLEAN
        BY DEF b
      <4> QED BY <2>3, <4>1, CutNoted
    <3> HIDE DEF u
    <3>3. g.x \notin Clusters /\ g.x \notin {0, 1}
      <4>1. g.x \in Nat
        BY <2>3 DEF Volume, States
      <4>2. \A k \in Clusters : k < NFatEnt
        BY Markers
      <4> QED BY <2>8, <4>1, <4>2
    <3>4. c \in Clusters
      BY <2>2, <2>8, <3>3 DEF Fetched
    <3>5. g.x = Bad \/ g.x = LastLink
      BY <2>2, <2>8, <3>3 DEF Fetched, Links
    <3>6. FatSeen(u)[c] = LastLink \/ u.cut
      BY <2>2, <2>3, <2>8, <3>2, <3>3, <3>5 DEF Fetched
    <3>7. c \in 1 .. NFatEnt - 1
      BY <3>4, Markers, Constants
    <3>8. Stretched(u, t, c, own, idx)
      BY <2>3, <3>1, <3>2, <3>4, <3>6, <3>7, SearchKeeps
    <3>9. Grows(s, t) /\ (s.cut => t.cut)
      BY <2>3, <2>4, <2>8, <3>2, <3>8 DEF Stretched, Grows, SameFile, Kept
    <3> QED BY <3>8, <3>9 DEF Stretched
  <2> QED BY <2>5, <2>6, <2>7, <2>8
<1> QED BY <1>1, <1>2

-----------------------------------------------------------------------------
(* Positions in a file. *)
\* Quotient and remainder are unique.
LEMMA Division ==
    ASSUME NEW d \in Nat, d > 0, NEW u \in Nat, NEW y \in Nat, y < d
    PROVE  /\ (d * u + y) \div d = u /\ (d * u + y) % d = y
<1> DEFINE x == d * u + y
<1>1. d * u \in Nat /\ x \in Nat
  OBVIOUS
<1>2. x = d * (x \div d) + (x % d) /\ x \div d \in Nat /\ x % d \in Nat /\ x % d < d
  BY <1>1
<1>3. \A p, q \in Nat : q + 1 <= p => d * p >= d * q + d
  OBVIOUS
<1>4. x = d * u + y
  OBVIOUS
<1> HIDE DEF x
<1>5. x \div d = u
  BY <1>2, <1>3, <1>4
<1>6. x % d = y
  BY <1>2, <1>4, <1>5, <1>1
<1> QED BY <1>5, <1>6 DEF x

\* Division with remainder.
LEMMA Divided ==
    ASSUME NEW d \in Nat, d > 0, NEW x \in Nat
    PROVE  /\ x \div d \in Nat /\ x % d \in Nat /\ x % d < d /\ x = d * (x \div d) + (x % d)
  OBVIOUS

\* Within its cluster, a position is that of its sector and that within it.
LEMMA Position ==
    ASSUME NEW p \in Nat
    PROVE  /\ p \div Bytes = (p \div SS) \div CSize
           /\ p % Bytes = SS * ((p \div SS) % CSize) + (p % SS)
<1> DEFINE q == p \div SS
           r == p % SS
           u == q \div CSize
           w == q % CSize
           y == SS * w + r
<1>1. SS \in Nat /\ SS > 0 /\ CSize \in Nat /\ CSize > 0
  BY Constants
<1>2. q \in Nat /\ r \in Nat /\ r < SS /\ p = SS * q + r
  BY <1>1, Divided
<1>3. u \in Nat /\ w \in Nat /\ w < CSize /\ q = CSize * u + w
  BY <1>1, <1>2, Divided
<1> HIDE DEF q, r, u, w
<1>4. SS * w \in Nat /\ SS * w + SS <= SS * CSize
  <2>1. w + 1 <= CSize
    BY <1>1, <1>3
  <2>2. \A a, b \in Nat : a <= b => SS * a <= SS * b
    BY <1>1
  <2>3. SS * (w + 1) <= SS * CSize
    BY <1>1, <1>3, <2>1, <2>2
  <2> QED BY <1>1, <1>3, <2>3
<1>5. y \in Nat /\ y < Bytes
  BY <1>1, <1>2, <1>4 DEF Bytes
<1>6. p = Bytes * u + y
  <2>1. SS * q = SS * (CSize * u) + SS * w
    BY <1>1, <1>3
  <2>2. SS * (CSize * u) = (SS * CSize) * u
    BY <1>1, <1>3
  <2>3. SS * (CSize * u) \in Nat
    BY <1>1, <1>3
  <2> QED BY <1>2, <1>4, <2>1, <2>2, <2>3 DEF Bytes
<1> HIDE DEF y
<1>7. p \div Bytes = u /\ p % Bytes = y
  BY <1>3, <1>5, <1>6, Constants, Division
<1> QED BY <1>7 DEF q, r, u, w, y

\* Bytes taken up to the end of a cluster stay in it.
LEMMA InCluster ==
    ASSUME NEW p \in Nat, NEW k \in Nat, k > 0, (p % Bytes) + k <= Bytes
    PROVE  (p + k - 1) \div Bytes = p \div Bytes
<1> DEFINE b == Bytes
           u == p \div b
           y == p % b
<1>1. b \in Nat /\ b > 0
  BY Constants
<1>2. u \in Nat /\ y \in Nat /\ y < b /\ p = b * u + y /\ y + k <= b
  BY <1>1, Divided
<1> HIDE DEF b, u, y
<1>3. y + k - 1 \in Nat /\ y + k - 1 < b
  BY <1>1, <1>2
<1>4. (b * u + (y + k - 1)) \div b = u
  BY <1>1, <1>2, <1>3, Division
<1>5. b * u \in Nat
  BY <1>1, <1>2
<1>6. p + k - 1 = b * u + (y + k - 1)
  BY <1>1, <1>2, <1>5
<1> QED BY <1>4, <1>6 DEF b, u, y

\* The byte before a position is in the cluster before only at a cluster's start.
LEMMA ByteBefore ==
    ASSUME NEW p \in Nat, p > 0
    PROVE  /\ p % Bytes # 0 => (p - 1) \div Bytes = p \div Bytes
           /\ p % Bytes = 0 => (p - 1) \div Bytes = p \div Bytes - 1
           /\ p - 1 \in Nat /\ (p - 1) \div Bytes \in Nat /\ p \div Bytes \in Nat
<1> DEFINE b == Bytes
           u == p \div b
           y == p % b
<1>1. b \in Nat /\ b > 0
  BY Constants
<1>2. u \in Nat /\ y \in Nat /\ y < b /\ p = b * u + y
  BY <1>1, Divided
<1>3. p - 1 \in Nat /\ (p - 1) \div b \in Nat
  BY <1>1, Divided
<1> HIDE DEF b, u, y
<1>4. ASSUME y # 0 PROVE (p - 1) \div b = u
  <2>1. y - 1 \in Nat /\ y - 1 < b
    BY <1>1, <1>2, <1>4
  <2>2. (b * u + (y - 1)) \div b = u
    BY <1>1, <1>2, <2>1, Division
  <2>3. b * u \in Nat
    BY <1>1, <1>2
  <2>4. p - 1 = b * u + (y - 1)
    BY <1>2, <2>3
  <2> QED BY <2>2, <2>4
<1>5. ASSUME y = 0 PROVE (p - 1) \div b = u - 1
  <2>1. u # 0
    BY <1>1, <1>2, <1>5
  <2>2. u - 1 \in Nat /\ b - 1 \in Nat /\ b - 1 < b
    BY <1>1, <1>2, <2>1
  <2>3. (b * (u - 1) + (b - 1)) \div b = u - 1
    BY <1>1, <2>2, Division
  <2>4. b * u \in Nat /\ b * (u - 1) = b * u - b
    BY <1>1, <1>2
  <2>5. p - 1 = b * (u - 1) + (b - 1)
    BY <1>1, <1>2, <1>5, <2>4
  <2> QED BY <2>3, <2>5
<1> QED BY <1>2, <1>3, <1>4, <1>5 DEF b, u, y

\* A position inside cluster k lies within the first k clusters.
LEMMA LengthCovers ==
    ASSUME NEW p \in Nat, NEW k \in Nat, p > 0 => (p - 1) \div Bytes < k
    PROVE  p <= k * Bytes /\ k * Bytes \in Nat
<1> DEFINE b == Bytes
           u == (p - 1) \div b
           y == (p - 1) % b
<1>1. b \in Nat /\ b > 0
  BY Constants
<1>2. CASE p = 0
  BY <1>1, <1>2
<1>3. CASE p > 0
  <2>1. p - 1 \in Nat
    BY <1>3
  <2>2. u \in Nat /\ y \in Nat /\ y < b /\ p - 1 = b * u + y /\ u < k
    BY <1>1, <1>3, <2>1, Divided
  <2> HIDE DEF b, u, y
  <2>3. \A i, j \in Nat : i + 1 <= j => b * j >= b * i + b
    BY <1>1
  <2>4. b * k >= b * u + b /\ b * u \in Nat /\ b * k \in Nat /\ b * k = k * b
    BY <1>1, <2>2, <2>3
  <2>5. p <= k * b
    BY <1>1, <2>2, <2>4
  <2> QED BY <2>4, <2>5 DEF b
<1> QED BY <1>2, <1>3

\* The sectors of a cluster are data sectors.
LEMMA SectorIn ==
    ASSUME NEW c \in Clusters, NEW w \in Nat, w < CSize
    PROVE  c * CSize + w \in DataSectors
<1> DEFINE d == CSize
           a == c * d
           z == NFatEnt * d
<1>1. d \in Nat /\ d > 0 /\ c \in Nat /\ c >= 2 /\ c + 1 <= NFatEnt /\ NFatEnt \in Nat
  BY Constants, Markers
<1> HIDE DEF d
<1>2. \A i, j \in Nat : i <= j => i * d <= j * d /\ i * d \in Nat /\ j * d \in Nat
  BY <1>1
<1>3. 2 * d <= a /\ a \in Nat /\ (c + 1) * d <= z /\ z \in Nat /\ 2 * d \in Nat
  BY <1>1, <1>2
<1>4. (c + 1) * d = a + d
  BY <1>1
<1>5. w < d
  BY DEF d
<1> HIDE DEF a, z
<1>6. a + w \in 2 * d .. z - 1
  BY <1>1, <1>3, <1>4, <1>5
<1> QED BY <1>6 DEF a, z, d, DataSectors

\* clust2sect gives the first sector of a cluster, and 0 for anything else.
LEMMA ClusterSector ==
    ASSUME NEW c
    PROVE  /\ c \in Clusters => clust2sect(c) = c * CSize /\ clust2sect(c) # 0
           /\ c \notin Clusters => clust2sect(c) = 0
<1>1. ASSUME c \in Clusters PROVE c * CSize # 0
  BY <1>1, Constants, Markers
<1> QED BY <1>1 DEF clust2sect

\* The sector of the position is a data sector while the cluster is one.
LEMMA SectorOfFile ==
    ASSUME NEW s, Volume(s), s.f.clust \in Clusters, NEW k \in Nat, CSect(s) + k < CSize
    PROVE  Sector(s) + k \in DataSectors /\ Sector(s) \in Nat /\ CSect(s) \in Nat
<1>1. s.f.fptr \in Nat
  BY FileFields
<1>2. CSect(s) \in Nat
  BY <1>1, Constants, Divided DEF CSect
<1>3. s.f.clust * CSize \in Nat /\ Sector(s) = s.f.clust * CSize + CSect(s)
  <2>1. s.f.clust \in Nat /\ CSize \in Nat
    BY Constants, Markers
  <2>2. s.f.clust * CSize \in Nat
    BY <2>1
  <2> QED BY <2>2, ClusterSector DEF Sector
<1>4. s.f.clust * CSize + (CSect(s) + k) \in DataSectors
  BY <1>2, SectorIn
<1>5. Sector(s) + k = s.f.clust * CSize + (CSect(s) + k)
  BY <1>2, <1>3
<1> QED BY <1>2, <1>3, <1>4, <1>5

\* The position modulo the cluster: its sector and its offset.
LEMMA CSectRange ==
    ASSUME NEW s, Volume(s)
    PROVE  /\ CSect(s) \in Nat /\ CSect(s) < CSize /\ Offset(s) \in Nat /\ Offset(s) < SS
           /\ s.f.fptr % Bytes = SS * CSect(s) + Offset(s)
  BY FileFields, Constants, Divided, Position DEF CSect, Offset

-----------------------------------------------------------------------------
(* Reading. *)
\* What f_read may do at any point: the chains, the size and the start stay.
Reading(s, t) ==
    /\ Volume(t) /\ SameView(s, t) /\ t.n = s.n /\ t.open = s.open /\ t.ncl = s.ncl
    /\ t.f.fsize = s.f.fsize /\ t.f.sclust = s.f.sclust
    /\ \A flag \in {"R", "W", "WRITTEN"} : flag \in t.f.flags <=> flag \in s.f.flags
    /\ "ERROR" \in s.f.flags => "ERROR" \in t.f.flags

\* Moves within a file compose.
LEMMA ReadingTrans ==
    ASSUME NEW s, NEW t, NEW u, Reading(s, t), Reading(t, u)
    PROVE  Reading(s, u)
  BY DEF Reading, SameView

\* A step the view cannot tell is such a move.
LEMMA TouchedReading ==
    ASSUME NEW s, NEW t, Touched(s, t)
    PROVE  Reading(s, t) /\ t.f.fptr = s.f.fptr /\ t.f.clust = s.f.clust /\ Volume(t)
  BY DEF Touched, Reading, SameHandle

\* A step nobody can tell leaves the position alone.
LEMMA KeptReading ==
    ASSUME NEW s, NEW t, Volume(t), Kept(s, t), t.ncl = s.ncl
    PROVE  Reading(s, t) /\ t.f = s.f
  BY DEF Reading, Kept, SameFile

\* The handle moves to position p in cluster c.
SetAt(s, t, c, p) == t = [s EXCEPT !.f = [s.f EXCEPT !.clust = c, !.fptr = p]]

\* Moving the handle keeps the volume.
LEMMA SetPosition ==
    ASSUME NEW s, Volume(s), NEW c \in Nat, NEW p \in Nat, NEW t, SetAt(s, t, c, p)
    PROVE  /\ Reading(s, t) /\ t.f.clust = c /\ t.f.fptr = p /\ t.f.flags = s.f.flags
           /\ t.res = s.res /\ t.live = s.live /\ t.x = s.x
<1> DEFINE f == [s.f EXCEPT !.clust = c, !.fptr = p]
<1>1. /\ f \in Files /\ f.fsize = s.f.fsize /\ f.sclust = s.f.sclust /\ f.flags = s.f.flags
      /\ f.clust = c /\ f.fptr = p
  BY FileFields DEF Files
<1>2. t = [s EXCEPT !.f = f]
  BY DEF SetAt
<1> HIDE DEF f
<1>3. /\ Volume(t) /\ SameView(s, t) /\ t.n = s.n /\ t.open = s.open /\ t.f = f
      /\ t.x = s.x /\ t.ncl = s.ncl /\ t.res = s.res /\ t.live = s.live
  BY <1>1, <1>2, SetFile
<1> QED BY <1>1, <1>3 DEF Reading

\* The handle stands behind the bytes of the cluster it is on.
Near(s, own, idx) == ~s.cut => Placed(s.n, s.f, own, idx)
\* The cluster of the handle is the one that holds the byte at its position.
Room(s, own, idx) ==
    ~s.cut /\ "W" \in s.f.flags /\ "ERROR" \notin s.f.flags /\ s.f.sclust # Bad =>
        s.f.clust \in Clusters /\ own[s.f.clust] = s.n /\ s.f.fptr \div Bytes < idx[s.f.clust]

\* What the census says of the file at work: sizes, start and places.
LEMMA ViewBounds ==
    ASSUME NEW s, Volume(s), s.n \in Names, NEW own, NEW idx, NEW len, View(s, own, idx, len)
    PROVE  /\ Near(s, own, idx)
           /\ idx \in Places /\ len \in Lengths
           /\ ~s.cut /\ "W" \in s.f.flags /\ s.f.sclust # Bad => s.f.fsize <= len[s.n] * Bytes
           /\ "W" \in s.f.flags /\ s.f.sclust \in Clusters =>
                own[s.f.sclust] = s.n /\ idx[s.f.sclust] = 1
           /\ \A c \in Clusters : own[c] = s.n => idx[c] <= len[s.n]
<1>1. HeldBy(s)[s.n] = IF "W" \in s.f.flags
                       THEN [sclust |-> s.f.sclust, size |-> s.f.fsize] ELSE DirSeen(s)[s.n]
  BY HandledIs
<1>2. Handled(s)[s.n] = s.f
  BY HandledIs
<1>3. s.n # "none"
  BY Constants
<1> QED BY <1>1, <1>2, <1>3 DEF View, Order, Fits, Census, Near

\* A move within a file that ends well placed keeps the census.
LEMMA ReadingView ==
    ASSUME NEW s, Volume(s), s.n \in Names, NEW own, NEW idx, NEW len, View(s, own, idx, len),
           NEW t, Reading(s, t), Near(t, own, idx)
    PROVE  View(t, own, idx, len)
<1>1. ~s.cut /\ "W" \in s.f.flags /\ s.f.sclust # Bad =>
         t.f.fsize <= len[s.n] * Bytes /\ Placed(s.n, t.f, own, idx)
  BY ViewBounds DEF Reading, Near, SameView
<1> QED BY <1>1, HandleKeeps DEF Reading

\* A handle marked with FA__ERROR may stand anywhere.
LEMMA ErrorNear ==
    ASSUME NEW s, NEW own, NEW idx, "ERROR" \in s.f.flags
    PROVE  Near(s, own, idx)
  BY DEF Near, Placed

\* A handle that does not move stays well placed.
LEMMA SameNear ==
    ASSUME NEW s, NEW t, NEW own, NEW idx, Near(s, own, idx), Reading(s, t),
           t.f.fptr = s.f.fptr, t.f.clust = s.f.clust
    PROVE  Near(t, own, idx)
  BY DEF Near, Placed, Reading, SameView

\* At a cluster boundary f_read moves to the cluster that holds the next byte.
LEMMA FollowReadKeeps ==
    ASSUME NEW s, Volume(s), s.live, s.n \in Names, NEW own, NEW idx, NEW len, View(s, own, idx, len),
           NEW t \in FollowRead(s)
    PROVE  /\ Reading(s, t) /\ t.f.fptr = s.f.fptr
           /\ ~(t.live /\ t.res = "OK") => Near(t, own, idx)
           /\ t.live /\ t.res = "OK" /\ t.f.clust \in Clusters => Room(t, own, idx)
<1>1. Near(s, own, idx) /\ s.f.fptr \in Nat
  BY ViewBounds, FileFields
<1>2. CASE ~AtCluster(s)
  <2>1. t = Set(s, "OK")
    BY <1>2 DEF FollowRead
  <2>2. Volume(t) /\ Kept(s, t) /\ t.ncl = s.ncl /\ t.res = "OK" /\ t.live
    BY <2>1, SetVolume DEF Results
  <2>3. Reading(s, t) /\ t.f = s.f
    BY <2>2, KeptReading
  <2>4. s.f.fptr % Bytes # 0 /\ s.f.fptr > 0
    <3>1. 0 % Bytes = 0
      BY Constants
    <3> QED BY <1>1, <1>2, <3>1 DEF AtCluster
  <2>5. (s.f.fptr - 1) \div Bytes = s.f.fptr \div Bytes
    BY <1>1, <2>4, ByteBefore
  <2>6. Room(t, own, idx)
    BY <1>1, <2>3, <2>4, <2>5 DEF Room, Near, Placed, Reading, SameView
  <2> QED BY <2>2, <2>3, <2>6
<1>3. CASE AtCluster(s)
  <2>1. PICK g \in (IF s.f.fptr = 0 THEN {[s EXCEPT !.x = s.f.sclust]} ELSE get_fat(s, s.f.clust)) :
          t \in IF g.live
                THEN IF g.x < 2 THEN Abort(g, "INT_ERR")
                     ELSE IF g.x = Bad THEN Abort(g, "DISK_ERR")
                     ELSE {[Set(g, "OK") EXCEPT !.f.clust = g.x]}
                ELSE {g}
    BY <1>3 DEF FollowRead, Then
  <2>2. Volume(g) /\ Kept(s, g) /\ g.ncl = s.ncl
    <3>1. CASE s.f.fptr = 0
      <4>1. g = [s EXCEPT !.x = s.f.sclust] /\ s.f.sclust \in Nat
        BY <2>1, <3>1, FileFields
      <4> QED BY <4>1, SetX
    <3>2. CASE s.f.fptr # 0
      BY <2>1, <3>2, GetFat DEF Fetched
    <3> QED BY <3>1, <3>2
  <2>3. Reading(s, g) /\ g.f = s.f /\ Near(g, own, idx)
    <3>1. Reading(s, g) /\ g.f = s.f
      BY <2>2, KeptReading
    <3> QED BY <1>1, <3>1, SameNear
  <2>4. CASE ~g.live
    BY <2>1, <2>3, <2>4
  <2>5. ASSUME NEW r \in Results, t \in Abort(g, r), r # "OK"
        PROVE  Reading(s, t) /\ t.f.fptr = s.f.fptr /\ Near(t, own, idx) /\ t.res # "OK"
    <3>1. Touched(g, t) /\ t.res = r
      BY <2>2, <2>5, AbortKeeps
    <3>2. Reading(g, t) /\ t.f.fptr = g.f.fptr /\ t.f.clust = g.f.clust
      BY <3>1, TouchedReading
    <3>3. Near(t, own, idx)
      BY <2>3, <3>2, SameNear
    <3> QED BY <2>3, <2>5, <3>1, <3>2, <3>3, ReadingTrans
  <2>6. CASE g.live /\ g.x < 2
    BY <2>1, <2>5, <2>6 DEF Results
  <2>7. CASE g.live /\ ~(g.x < 2) /\ g.x = Bad
    BY <2>1, <2>5, <2>7 DEF Results
  <2>8. CASE g.live /\ ~(g.x < 2) /\ g.x # Bad
    <3> DEFINE m == Set(g, "OK")
    <3>1. Volume(m) /\ Kept(g, m) /\ m.ncl = g.ncl /\ m.res = "OK" /\ m.live
      BY <2>2, <2>8, SetVolume DEF Results
    <3>2. Reading(g, m) /\ m.f = g.f
      BY <3>1, KeptReading
    <3>3. t = [m EXCEPT !.f.clust = g.x] /\ g.x \in Nat /\ m \in States /\ m.f \in Files
          /\ m.f.fptr \in Nat
      BY <2>1, <2>2, <2>8, <3>1, FileFields DEF Volume, States
    <3> HIDE DEF m
    <3>4. SetAt(m, t, g.x, m.f.fptr)
      BY <3>3 DEF SetAt, States, Files
    <3>5. /\ Reading(m, t) /\ t.f.clust = g.x /\ t.f.fptr = m.f.fptr /\ t.f.flags = m.f.flags
          /\ t.res = m.res /\ t.live = m.live
      <4>1. Volume(m) /\ g.x \in Nat /\ m.f.fptr \in Nat
        BY <3>1, <3>3
      <4> QED BY <3>4, <4>1, SetPosition
    <3>6. Reading(s, t) /\ t.f.fptr = s.f.fptr /\ t.f.flags = s.f.flags /\ t.f.clust = g.x
          /\ t.res = "OK" /\ t.live
      BY <2>3, <3>1, <3>2, <3>5, ReadingTrans
    <3>7. ASSUME g.x \in Clusters, ~s.cut, "W" \in s.f.flags, "ERROR" \notin s.f.flags,
                 s.f.sclust # Bad
          PROVE  own[g.x] = s.n /\ s.f.fptr \div Bytes < idx[g.x]
      <4>1. CASE s.f.fptr = 0
        <5>1. g = [s EXCEPT !.x = s.f.sclust]
          BY <2>1, <4>1
        <5>2. g.x = s.f.sclust
          BY <5>1 DEF Volume, States
        <5>3. own[g.x] = s.n /\ idx[g.x] = 1
          BY <3>7, <5>2, ViewBounds
        <5>4. 0 \div Bytes = 0
          BY Constants
        <5> QED BY <4>1, <5>3, <5>4
      <4>2. CASE s.f.fptr # 0
        <5>1. g \in get_fat(s, s.f.clust)
          BY <2>1, <4>2
        <5>2. Fetched(s, g, s.f.clust)
          BY <5>1, GetFat
        <5>3. s.f.fptr > 0
          BY <1>1, <4>2
        <5>4. /\ s.f.clust \in Clusters /\ own[s.f.clust] = s.n
              /\ (s.f.fptr - 1) \div Bytes < idx[s.f.clust]
          BY <1>1, <3>7, <5>3 DEF Near, Placed
        <5>5. g.x = FatSeen(s)[s.f.clust]
          BY <2>8, <3>7, <5>2, Markers DEF Fetched
        <5>6. s.n # "none"
          BY Constants
        <5>7. own[g.x] = s.n /\ idx[g.x] = idx[s.f.clust] + 1
          BY <3>7, <5>4, <5>5, <5>6, NextPlace, Markers DEF View
        <5>8. (s.f.fptr - 1) \div Bytes = s.f.fptr \div Bytes - 1 /\ s.f.fptr \div Bytes \in Nat
          BY <1>1, <1>3, <5>3, ByteBefore DEF AtCluster
        <5>9. idx[s.f.clust] \in Nat
          BY <5>4, ViewBounds DEF Places
        <5> QED BY <5>4, <5>7, <5>8, <5>9
      <4> QED BY <4>1, <4>2
    <3>8. t.f.clust \in Clusters => Room(t, own, idx)
      BY <3>6, <3>7 DEF Room, Reading, SameView
    <3> QED BY <3>6, <3>8
  <2> QED BY <2>4, <2>6, <2>7, <2>8
<1> QED BY <1>2, <1>3

-----------------------------------------------------------------------------
(* The bytes read. *)
\* The bytes read so far are in no view.
LEMMA SetGot ==
    ASSUME NEW s, Volume(s), NEW q \in Seq(DataBytes)
    PROVE  LET u == [s EXCEPT !.got = q]
           IN  /\ Volume(u) /\ Kept(s, u) /\ u.ncl = s.ncl /\ u.res = s.res /\ u.live = s.live
               /\ u.f = s.f
<1> DEFINE u == [s EXCEPT !.got = q]
<1>1. /\ u \in States /\ SameWindow(s, u) /\ SameFile(s, u) /\ u.ncl = s.ncl
      /\ u.res = s.res /\ u.live = s.live
  BY DEF Volume, States, SameWindow, SameFile
<1> HIDE DEF u
<1>2. Volume(u) /\ SameView(s, u)
  BY <1>1, VolumeSame
<1> QED BY <1>1, <1>2 DEF u, Kept, SameFile

\* The bytes read so far, and some more.
LEMMA GotMore ==
    ASSUME NEW q \in Seq(DataBytes), NEW k \in Nat, NEW b \in [1 .. k -> DataBytes]
    PROVE  q \o b \in Seq(DataBytes)
<1>1. b \in Seq(DataBytes)
  OBVIOUS
<1> QED BY <1>1

\* Advancing within the cluster stays well placed.
LEMMA RoomAdvance ==
    ASSUME NEW s, Volume(s), NEW own, NEW idx, Room(s, own, idx), NEW t, Reading(s, t),
           t.f.clust = s.f.clust, NEW k \in Nat, k > 0, t.f.fptr = s.f.fptr + k,
           (s.f.fptr % Bytes) + k <= Bytes
    PROVE  Near(t, own, idx)
<1>1. s.f.fptr \in Nat
  BY FileFields
<1>2. (s.f.fptr + k - 1) \div Bytes = s.f.fptr \div Bytes
  BY <1>1, InCluster
<1>3. t.f.fptr - 1 = s.f.fptr + k - 1
  BY <1>1
<1>4. (t.f.fptr - 1) \div Bytes = s.f.fptr \div Bytes
  BY <1>2, <1>3
<1> QED BY <1>4 DEF Room, Near, Placed, Reading, SameView

\* Inside a sector, behind a byte of a cluster means in that cluster.
LEMMA NearRoom ==
    ASSUME NEW s, Volume(s), NEW own, NEW idx, Near(s, own, idx), Offset(s) # 0
    PROVE  Room(s, own, idx)
<1>1. s.f.fptr \in Nat /\ SS * CSect(s) \in Nat
  BY FileFields, CSectRange, Constants
<1>2. s.f.fptr % Bytes # 0
  BY <1>1, CSectRange
<1>3. s.f.fptr > 0
  <2>1. 0 % Bytes = 0
    BY Constants
  <2> QED BY <1>1, <1>2, <2>1
<1>4. (s.f.fptr - 1) \div Bytes = s.f.fptr \div Bytes
  BY <1>1, <1>2, <1>3, ByteBefore
<1> QED BY <1>3, <1>4 DEF Room, Near, Placed

\* What is left of the sector, and of whole sectors in the cluster.
LEMMA PartLeft ==
    ASSUME NEW s, Volume(s), NEW n \in Nat, n > 0
    PROVE  LET k == Least(SS - Offset(s), n)
           IN  k \in Nat /\ k > 0 /\ k <= n /\ Offset(s) + k <= SS
               /\ (s.f.fptr % Bytes) + k <= Bytes
<1> DEFINE k == Least(SS - Offset(s), n)
<1>1. Offset(s) \in Nat /\ Offset(s) < SS /\ SS \in Nat
  BY CSectRange, Constants
<1>2. k \in Nat /\ k > 0 /\ k <= n /\ Offset(s) + k <= SS
  BY <1>1 DEF Least
<1> HIDE DEF k
<1>3. SS * CSect(s) \in Nat /\ SS * CSect(s) + SS <= Bytes
  <2>1. \A a, b \in Nat : a <= b => SS * a \in Nat /\ SS * b \in Nat /\ SS * a <= SS * b
    BY <1>1
  <2>2. CSect(s) \in Nat /\ CSect(s) + 1 <= CSize /\ CSize \in Nat
    BY CSectRange, Constants
  <2>3. SS * (CSect(s) + 1) = SS * CSect(s) + SS
    BY <1>1, <2>2
  <2>4. SS * (CSect(s) + 1) <= SS * CSize /\ SS * CSect(s) \in Nat
    BY <2>1, <2>2
  <2> QED BY <2>3, <2>4 DEF Bytes
<1>4. (s.f.fptr % Bytes) + k <= Bytes
  BY <1>1, <1>2, <1>3, CSectRange, Constants
<1> QED BY <1>2, <1>4 DEF k

\* The sectors of a direct transfer lie in the cluster and in the request.
LEMMA SectorsLeft ==
    ASSUME NEW s, Volume(s), Offset(s) = 0, NEW n \in Nat, n >= SS
    PROVE  LET cc == Contiguous(s, n)
           IN  cc \in Nat /\ cc > 0 /\ CSect(s) + cc <= CSize /\ SS * cc \in Nat
               /\ SS * cc > 0 /\ SS * cc <= n /\ (s.f.fptr % Bytes) + SS * cc <= Bytes
<1> DEFINE cc == Contiguous(s, n)
           d == n \div SS
<1>1. SS \in Nat /\ SS > 0 /\ CSize \in Nat /\ CSect(s) \in Nat /\ CSect(s) < CSize
  BY CSectRange, Constants
<1>2. d \in Nat /\ n = SS * d + (n % SS) /\ n % SS \in Nat /\ n % SS < SS
  BY <1>1, Divided
<1>3. \A a, b \in Nat : a <= b => SS * a \in Nat /\ SS * b \in Nat /\ SS * a <= SS * b
  BY <1>1
<1>4. d > 0
  <2>1. SS * 0 = 0
    BY <1>1
  <2> HIDE DEF d
  <2> QED BY <1>1, <1>2, <2>1
<1>5. cc = IF CSect(s) + d > CSize THEN CSize - CSect(s) ELSE d
  BY DEF Contiguous
<1> HIDE DEF cc, d
<1>6. cc \in Nat /\ cc > 0 /\ cc <= d /\ CSect(s) + cc <= CSize
  BY <1>1, <1>2, <1>4, <1>5
<1>7. SS * cc \in Nat /\ SS * cc <= SS * d /\ SS * d \in Nat /\ SS * 1 <= SS * cc
  BY <1>2, <1>3, <1>6
<1>8. SS * (CSect(s) + cc) <= SS * CSize
  BY <1>1, <1>3, <1>6
<1>9. SS * (CSect(s) + cc) = SS * CSect(s) + SS * cc /\ SS * CSect(s) \in Nat
  BY <1>1, <1>6
<1>10. s.f.fptr % Bytes = SS * CSect(s)
  BY <1>9, CSectRange
<1> QED BY <1>1, <1>2, <1>6, <1>7, <1>8, <1>9, <1>10 DEF cc, Bytes

\* Reading from the buffer stays well placed and within the request.
LEMMA ReadBufKeeps ==
    ASSUME NEW s, Volume(s), NEW own, NEW idx, Room(s, own, idx), NEW n \in Nat, n > 0,
           NEW t \in ReadBuf(s, n)
    PROVE  /\ Reading(s, t) /\ Near(t, own, idx) /\ t.f.fptr \in Nat
           /\ t.f.fptr <= s.f.fptr + n
<1> DEFINE k == Least(SS - Offset(s), n)
           b == [i \in 1 .. k |-> s.f.buf[Offset(s) + i - 1]]
           q == s.got \o b
           u == [s EXCEPT !.got = q]
<1>1. k \in Nat /\ k > 0 /\ k <= n /\ Offset(s) + k <= SS /\ (s.f.fptr % Bytes) + k <= Bytes
  BY PartLeft
<1>2. Offset(s) \in Nat /\ SS \in Nat
  BY CSectRange, Constants
<1>3. s \in States /\ s.f \in Files /\ s.f.fptr \in Nat /\ s.f.clust \in Nat
      /\ s.f.buf \in SectorBytes /\ s.got \in Seq(DataBytes)
  BY FileFields DEF Volume, States
<1> HIDE DEF k
<1>4. b \in [1 .. k -> DataBytes]
  <2>1. \A i \in 1 .. k : Offset(s) + i - 1 \in 0 .. SS - 1
    BY <1>1, <1>2
  <2> QED BY <1>3, <2>1 DEF SectorBytes
<1> HIDE DEF b
<1>5. q \in Seq(DataBytes)
  BY <1>1, <1>3, <1>4, GotMore
<1> HIDE DEF q
<1>6. Volume(u) /\ Kept(s, u) /\ u.ncl = s.ncl /\ u.f = s.f
  BY <1>5, SetGot
<1>7. Reading(s, u) /\ u.f = s.f
  BY <1>6, KeptReading
<1>8. t = [s EXCEPT !.got = s.got \o b, !.f.fptr = s.f.fptr + k]
  BY DEF ReadBuf, k, b
<1>9. SetAt(u, t, s.f.clust, s.f.fptr + k)
  BY <1>3, <1>8 DEF SetAt, States, Files, q
<1> HIDE DEF u
<1>10. s.f.fptr + k \in Nat
  BY <1>1, <1>3
<1>11. Reading(u, t) /\ t.f.clust = s.f.clust /\ t.f.fptr = s.f.fptr + k
  BY <1>3, <1>6, <1>9, <1>10, SetPosition
<1>12. Reading(s, t)
  BY <1>7, <1>11, ReadingTrans
<1>13. Near(t, own, idx)
  BY <1>1, <1>11, <1>12, RoomAdvance
<1> QED BY <1>1, <1>3, <1>10, <1>11, <1>12, <1>13

\* Reading whole sectors past the buffer does too.
LEMMA ReadDirectKeeps ==
    ASSUME NEW s, Volume(s), s.f.clust \in Clusters, NEW own, NEW idx, Room(s, own, idx),
           s.live, Offset(s) = 0, NEW n \in Nat, n >= SS, NEW t \in ReadDirect(s, n)
    PROVE  /\ Reading(s, t) /\ Near(t, own, idx) /\ t.f.fptr \in Nat
           /\ t.f.fptr <= s.f.fptr + n
<1> DEFINE cc == Contiguous(s, n)
           m == SS * cc
           at(i) == Sector(s) + i \div SS
           byte(i) == IF "DIRTY" \in s.f.flags /\ at(i) = s.f.dsect
                      THEN s.f.buf[i % SS] ELSE s.data[at(i)][i % SS]
           b == [i \in 1 .. m |-> byte(i - 1)]
           q == s.got \o b
           u == [s EXCEPT !.got = q]
           z == [s EXCEPT !.got = q, !.f.fptr = s.f.fptr + m]
<1>1. cc \in Nat /\ cc > 0 /\ CSect(s) + cc <= CSize /\ m \in Nat
      /\ m > 0 /\ m <= n /\ (s.f.fptr % Bytes) + m <= Bytes
  BY SectorsLeft
<1>2. PICK e \in DiskRead(s, z) :
        t \in IF e.live THEN (IF e.res = "OK" THEN {e} ELSE Abort(e, "DISK_ERR")) ELSE {e}
  BY DEF ReadDirect, Then
<1> HIDE DEF cc
<1>3. s \in States /\ s.f \in Files /\ s.f.fptr \in Nat /\ s.f.clust \in Nat
      /\ s.f.buf \in SectorBytes /\ s.got \in Seq(DataBytes) /\ s.data \in [DataSectors -> SectorBytes]
  BY FileFields DEF Volume, States
<1>4. SS \in Nat /\ SS > 0 /\ CSect(s) \in Nat /\ CSize \in Nat
  BY CSectRange, Constants
<1>5. b \in [1 .. m -> DataBytes]
  <2> SUFFICES ASSUME NEW i \in 1 .. m PROVE byte(i - 1) \in DataBytes
    OBVIOUS
  <2> DEFINE j == i - 1
             w == j \div SS
             r == j % SS
  <2>1. j \in Nat /\ j < SS * cc
    BY <1>1
  <2> HIDE DEF j
  <2>2. w \in Nat /\ r \in Nat /\ r < SS /\ j = SS * w + r
    BY <1>4, <2>1, Divided
  <2> HIDE DEF w, r, m
  <2>3. w < cc
    <3>1. \A x, y \in Nat : x <= y => SS * x <= SS * y /\ SS * x \in Nat
      BY <1>4
    <3> QED BY <1>1, <2>1, <2>2, <3>1
  <2>4. CSect(s) + w < CSize
    BY <1>1, <1>4, <2>2, <2>3
  <2>5. at(j) \in DataSectors
    BY <2>2, <2>4, SectorOfFile DEF w
  <2>6. r \in 0 .. SS - 1
    BY <1>4, <2>2
  <2>7. s.data[at(j)] \in SectorBytes
    BY <1>3, <2>5
  <2> HIDE DEF at
  <2>8. s.data[at(j)][r] \in DataBytes /\ s.f.buf[r] \in DataBytes
    BY <1>3, <2>6, <2>7 DEF SectorBytes
  <2>9. byte(j) \in DataBytes
    BY <2>8 DEF r
  <2> QED BY <2>9 DEF j
<1> HIDE DEF b, m
<1>6. q \in Seq(DataBytes)
  BY <1>1, <1>3, <1>5, GotMore
<1> HIDE DEF q
<1>7. Volume(u) /\ Kept(s, u) /\ u.ncl = s.ncl /\ u.f = s.f
  BY <1>6, SetGot
<1>8. Reading(s, u) /\ u.f = s.f
  BY <1>7, KeptReading
<1>9. SetAt(u, z, s.f.clust, s.f.fptr + m)
  BY <1>3 DEF SetAt, States, Files
<1> HIDE DEF u, z
<1>10. s.f.fptr + m \in Nat
  BY <1>1, <1>3
<1>11. Reading(u, z) /\ z.f.clust = s.f.clust /\ z.f.fptr = s.f.fptr + m
  BY <1>3, <1>7, <1>9, <1>10, SetPosition
<1>12. Reading(s, z) /\ Volume(z)
  BY <1>8, <1>11, ReadingTrans DEF Reading
<1>13. Near(z, own, idx)
  BY <1>1, <1>11, <1>12, RoomAdvance
<1>14. CASE e = Set(z, "OK")
  <2>1. Volume(e) /\ Kept(z, e) /\ e.ncl = z.ncl /\ e.res = "OK"
    BY <1>12, <1>14, SetVolume DEF Results
  <2>2. Reading(z, e) /\ e.f = z.f /\ t = e
    BY <1>2, <2>1, KeptReading
  <2>3. Near(t, own, idx) /\ Reading(s, t)
    BY <1>12, <1>13, <2>2, SameNear, ReadingTrans
  <2> QED BY <1>1, <1>3, <1>10, <1>11, <2>2, <2>3
<1>15. CASE e \in Failed(s)
  <2>1. Volume(e) /\ Kept(s, e) /\ e.ncl = s.ncl /\ e.res = "DISK_ERR" /\ e.live = s.live
    BY <1>15, FailedVolume
  <2>2. Reading(s, e) /\ e.f = s.f
    BY <2>1, KeptReading
  <2>3. CASE e.live
    <3>1. t \in Abort(e, "DISK_ERR")
      BY <1>2, <2>1, <2>3
    <3>2. Touched(e, t) /\ "ERROR" \in t.f.flags
      BY <2>1, <3>1, AbortKeeps DEF Results
    <3>3. Reading(e, t) /\ t.f.fptr = e.f.fptr
      BY <3>2, TouchedReading
    <3>4. Near(t, own, idx) /\ Reading(s, t)
      BY <2>2, <3>2, <3>3, ErrorNear, ReadingTrans
    <3> QED BY <1>3, <2>2, <3>3, <3>4
  <2> QED BY <2>1, <2>3
<1> QED BY <1>2, <1>14, <1>15, DiskReadKeeps

-----------------------------------------------------------------------------
\* A handle in the cluster of its position is well placed.
LEMMA RoomNear ==
    ASSUME NEW s, Volume(s), NEW own, NEW idx \in Places, Room(s, own, idx)
    PROVE  Near(s, own, idx)
<1>1. s.f.fptr \in Nat
  BY FileFields
<1>2. s.f.fptr > 0 => \/ (s.f.fptr - 1) \div Bytes = s.f.fptr \div Bytes
                      \/ (s.f.fptr - 1) \div Bytes = s.f.fptr \div Bytes - 1
  BY <1>1, ByteBefore
<1>3. s.f.fptr > 0 => s.f.fptr \div Bytes \in Nat
  BY <1>1, ByteBefore
<1>4. s.f.clust \in Clusters => idx[s.f.clust] \in Nat
  BY DEF Places
<1>5. \A a, b, c \in Int : a < b /\ (c = a \/ c = a - 1) => c < b
  OBVIOUS
<1>6. ASSUME s.f.fptr > 0, s.f.clust \in Clusters, s.f.fptr \div Bytes < idx[s.f.clust]
      PROVE  (s.f.fptr - 1) \div Bytes < idx[s.f.clust]
  BY <1>2, <1>3, <1>4, <1>6
<1> QED BY <1>6 DEF Room, Near, Placed

\* A handle that does not move keeps its room.
LEMMA SameRoom ==
    ASSUME NEW s, NEW t, NEW own, NEW idx, Room(s, own, idx), Reading(s, t),
           t.f.fptr = s.f.fptr, t.f.clust = s.f.clust
    PROVE  Room(t, own, idx)
  BY DEF Room, Reading, SameView

\* What a turn of f_read's loop may do.
Took(s, t, n, own, idx) ==
    Reading(s, t) /\ Near(t, own, idx) /\ t.f.fptr \in Nat /\ t.f.fptr <= s.f.fptr + n

\* A turn may take nothing.
LEMMA TookNone ==
    ASSUME NEW s, NEW t, NEW n \in Nat, NEW own, NEW idx, Volume(s), Reading(s, t),
           Near(t, own, idx), t.f.fptr = s.f.fptr
    PROVE  Took(s, t, n, own, idx)
<1>1. s.f.fptr \in Nat
  BY FileFields
<1> QED BY <1>1 DEF Took

\* A turn after a step that does not move is a turn.
LEMMA TookAfter ==
    ASSUME NEW s, NEW u, NEW t, NEW n \in Nat, NEW own, NEW idx, Reading(s, u),
           u.f.fptr = s.f.fptr, Took(u, t, n, own, idx)
    PROVE  Took(s, t, n, own, idx)
  BY ReadingTrans DEF Took

\* A turn of f_read's loop keeps the census and stays within the request.
LEMMA ReadTurnKeeps ==
    ASSUME NEW s, Volume(s), s.live, s.n \in Names, NEW own, NEW idx, NEW len,
           View(s, own, idx, len), NEW n \in Nat, n > 0, NEW t \in ReadTurn(s, n)
    PROVE  Took(s, t, n, own, idx)
<1>1. Near(s, own, idx) /\ idx \in Places
  BY ViewBounds
<1>2. CASE Offset(s) # 0
  <2>1. t \in ReadBuf(s, n)
    BY <1>2 DEF ReadTurn
  <2>2. Room(s, own, idx)
    BY <1>1, <1>2, NearRoom
  <2> QED BY <2>1, <2>2, ReadBufKeeps DEF Took
<1>3. CASE Offset(s) = 0
  <2>1. PICK f \in FollowRead(s) :
          t \in IF f.live
                THEN IF f.res = "OK"
                     THEN IF clust2sect(f.f.clust) = 0 THEN Abort(f, "INT_ERR")
                          ELSE IF n >= SS THEN ReadDirect(f, n)
                          ELSE IfOk(IF f.f.dsect = Sector(f) THEN {f} ELSE FillBuf(f, Sector(f)),
                                    LAMBDA u : ReadBuf(u, n))
                     ELSE {f}
                ELSE {f}
    BY <1>3 DEF ReadTurn, IfOk, Then
  <2>2. /\ Reading(s, f) /\ f.f.fptr = s.f.fptr
        /\ ~(f.live /\ f.res = "OK") => Near(f, own, idx)
        /\ f.live /\ f.res = "OK" /\ f.f.clust \in Clusters => Room(f, own, idx)
    BY FollowReadKeeps
  <2>3. Volume(f) /\ f.n \in Names
    BY <2>2 DEF Reading
  <2>4. CASE ~(f.live /\ f.res = "OK")
    BY <2>1, <2>2, <2>4, TookNone
  <2>5. CASE f.live /\ f.res = "OK" /\ clust2sect(f.f.clust) = 0
    <3>1. t \in Abort(f, "INT_ERR")
      BY <2>1, <2>5
    <3>2. Touched(f, t) /\ "ERROR" \in t.f.flags
      BY <2>3, <3>1, AbortKeeps DEF Results
    <3>3. Reading(f, t) /\ t.f.fptr = f.f.fptr
      BY <3>2, TouchedReading
    <3>4. Took(f, t, n, own, idx)
      BY <2>3, <3>2, <3>3, ErrorNear, TookNone
    <3> QED BY <2>2, <3>4, TookAfter
  <2>6. CASE f.live /\ f.res = "OK" /\ clust2sect(f.f.clust) # 0
    <3>1. f.f.clust \in Clusters /\ Room(f, own, idx)
      BY <2>2, <2>6, ClusterSector
    <3>2. Offset(f) = 0
      BY <1>3, <2>2 DEF Offset
    <3>3. CASE n >= SS
      <4>1. t \in ReadDirect(f, n)
        BY <2>1, <2>6, <3>3
      <4>2. Took(f, t, n, own, idx)
        BY <2>3, <2>6, <3>1, <3>2, <3>3, <4>1, ReadDirectKeeps DEF Took
      <4> QED BY <2>2, <4>2, TookAfter
    <3>4. CASE ~(n >= SS)
      <4>1. PICK u \in (IF f.f.dsect = Sector(f) THEN {f} ELSE FillBuf(f, Sector(f))) :
              t \in IF u.live THEN (IF u.res = "OK" THEN ReadBuf(u, n) ELSE {u}) ELSE {u}
        BY <2>1, <2>6, <3>4 DEF IfOk, Then
      <4>2. Touched(f, u)
        <5>1. CASE u = f
          BY <2>3, <5>1 DEF Touched, SameView, SameHandle
        <5>2. CASE u \in FillBuf(f, Sector(f))
          <6>1. Sector(f) \in DataSectors
            <7>1. 0 \in Nat /\ CSect(f) + 0 < CSize /\ CSize \in Nat
              BY <2>3, CSectRange, Constants
            <7>2. Sector(f) + 0 \in DataSectors /\ Sector(f) \in Nat
              BY <2>3, <3>1, <7>1, SectorOfFile
            <7>3. \A a \in Nat : a + 0 = a
              OBVIOUS
            <7> QED BY <7>2, <7>3
          <6> QED BY <2>3, <5>2, <6>1, FillBufKeeps
        <5> QED BY <4>1, <5>1, <5>2
      <4>3. Reading(f, u) /\ u.f.fptr = f.f.fptr /\ u.f.clust = f.f.clust /\ Volume(u)
        BY <4>2, TouchedReading
      <4>4. Room(u, own, idx)
        BY <3>1, <4>3, SameRoom
      <4>5. Took(u, t, n, own, idx)
        <5>1. CASE t \in ReadBuf(u, n)
          BY <4>3, <4>4, <5>1, ReadBufKeeps DEF Took
        <5>2. CASE t = u
          <6>1. Reading(u, u)
            BY <4>3 DEF Reading, SameView
          <6> QED BY <1>1, <4>3, <4>4, <5>2, <6>1, RoomNear, TookNone
        <5> QED BY <4>1, <5>1, <5>2
      <4>6. Took(f, t, n, own, idx)
        BY <4>3, <4>5, TookAfter
      <4> QED BY <2>2, <4>6, TookAfter
    <3> QED BY <3>3, <3>4
  <2> QED BY <2>4, <2>5, <2>6
<1> QED BY <1>2, <1>3

\* The loop of f_read keeps the census and stops at or before the end asked for.
LEMMA ReadLoopKeeps ==
    ASSUME NEW s, Volume(s), s.n \in Names, NEW own, NEW idx, NEW len,
           View(s, own, idx, len), NEW end \in Nat, s.f.fptr <= end, NEW t \in ReadLoop(s, end)
    PROVE  Reading(s, t) /\ Near(t, own, idx) /\ t.f.fptr <= end
<1> DEFINE most == end - s.f.fptr
           Goes(u) == u.live /\ (u.res = "OK" /\ u.f.fptr # end)
           A == {u \in States : Reading(s, u) /\ Near(u, own, idx) /\ u.f.fptr <= end}
           Turn(u) == IF u.live /\ (u.res = "OK" /\ u.f.fptr # end)
                      THEN ReadTurn(u, end - u.f.fptr) ELSE {u}
           G == [u \in A |-> Turn(u)]
           Body(g) == [k \in 0 .. most |->
                         IF k = 0 THEN {s}
                         ELSE UNION {IF u.live /\ (u.res = "OK" /\ u.f.fptr # end)
                                     THEN ReadTurn(u, end - u.f.fptr) ELSE {u} : u \in g[k - 1]}]
           after == CHOOSE g : g = Body(g)
<1>1. ReadLoop(s, end) = after[most]
  BY DEF ReadLoop, Loop
<1>2. most \in Nat
  BY FileFields
<1>3. s \in A
  <2>1. Reading(s, s)
    BY DEF Reading, SameView
  <2> QED BY <2>1, ViewBounds DEF Volume
<1>4. \A u \in A : Turn(u) \in SUBSET A
  <2> SUFFICES ASSUME NEW u \in A, NEW w \in Turn(u) PROVE w \in A
    OBVIOUS
  <2>1. CASE ~Goes(u)
    BY <2>1
  <2>2. CASE Goes(u)
    <3> DEFINE n == end - u.f.fptr
    <3>1. w \in ReadTurn(u, n) /\ u.live
      BY <2>2
    <3>2. Volume(u) /\ u.n \in Names /\ u.f.fptr \in Nat /\ u.f.fptr <= end /\ Reading(s, u)
      BY FileFields DEF Reading
    <3>3. View(u, own, idx, len)
      BY <3>2, ReadingView
    <3>4. n \in Nat /\ n > 0 /\ u.f.fptr + n = end
      BY <2>2, <3>2
    <3> HIDE DEF n
    <3>5. Took(u, w, n, own, idx)
      <4> HIDE DEF A, Turn, Goes
      <4> QED BY <3>1, <3>2, <3>3, <3>4, ReadTurnKeeps
    <3>6. Reading(s, w) /\ Near(w, own, idx) /\ w.f.fptr <= end /\ w \in States
      BY <3>2, <3>4, <3>5, ReadingTrans DEF Took, Reading, Volume
    <3> QED BY <3>6
  <2> QED BY <2>1, <2>2
<1>5. G \in [A -> SUBSET A]
  BY <1>4
<1> HIDE DEF most
<1>6. PICK g \in [0 .. most -> SUBSET A] : Unrolls(g, G, s, most)
  <2> HIDE DEF A, G
  <2> QED BY <1>2, <1>3, <1>5, LoopUnrolls
<1> HIDE DEF Turn
<1>7. \A k \in 0 .. most : g[k] = IF k = 0 THEN {s} ELSE UNION {Turn(u) : u \in g[k - 1]}
  <2> TAKE k \in 0 .. most
  <2>1. g[k] = IF k = 0 THEN {s} ELSE UNION {G[u] : u \in g[k - 1]}
    BY <1>6 DEF Unrolls
  <2>2. k # 0 => g[k - 1] \in SUBSET A
    BY <1>2
  <2>3. k # 0 => UNION {G[u] : u \in g[k - 1]} = UNION {Turn(u) : u \in g[k - 1]}
    BY <2>2
  <2> QED BY <2>1, <2>3
<1>8. g = Body(g)
  BY <1>7 DEF Turn
<1>9. after = Body(after)
  BY <1>8
<1> HIDE DEF after
<1>10. \A k \in 0 .. most : after[k] = IF k = 0 THEN {s} ELSE UNION {Turn(u) : u \in after[k - 1]}
  BY <1>9 DEF Turn
<1>11. after[most] \in SUBSET A
  <2> DEFINE Q == SUBSET A
  <2>1. 0 \in 0 .. most /\ most \in 0 .. most
    BY <1>2
  <2>2. after[0] \in Q
    <3>1. after[0] = {s}
      BY <1>10, <2>1, Zenon
    <3> QED BY <1>3, <3>1
  <2>3. \A k \in 1 .. most : after[k - 1] \in Q => after[k] \in Q
    <3> SUFFICES ASSUME NEW k \in 1 .. most, after[k - 1] \in SUBSET A, NEW w \in after[k]
                 PROVE  w \in A
      OBVIOUS
    <3>1. k \in 0 .. most /\ k # 0
      BY <1>2
    <3>2. after[k] = UNION {Turn(u) : u \in after[k - 1]}
      BY <1>10, <3>1
    <3>3. PICK u \in after[k - 1] : w \in Turn(u)
      BY <3>2
    <3> QED BY <1>4, <3>3
  <2> HIDE DEF Q, A
  <2>4. \A k \in 0 .. most : after[k] \in Q
    BY <1>2, <2>2, <2>3, IterationStays
  <2> QED BY <2>1, <2>4 DEF Q
<1> QED BY <1>1, <1>11

-----------------------------------------------------------------------------
(* A file without clusters gets its first one. *)
\* A file without clusters may change its handle, as long as it stays empty.
LEMMA VacantKeeps ==
    ASSUME NEW tab, NEW dir, NEW held, NEW files, NEW cut, NEW own, NEW idx, NEW len,
           Order(tab, dir, held, files, cut, own, idx, len),
           NEW n \in Names, held[n].sclust \notin Clusters, NEW held2, NEW files2,
           \A m \in Names \ {n} : held2[m] = held[m] /\ files2[m] = files[m],
           held2[n].sclust \notin Clusters, held2[n].size = 0, files2[n].fptr = 0
    PROVE  Order(tab, dir, held2, files2, cut, own, idx, len)
<1>1. len[n] = 0
  BY OwnsNone
<1>2. Census(tab, held2, own, idx, len)
  BY <1>1 DEF Order, Census
<1>3. dir[n].sclust \notin Clusters
  BY DEF Order
<1>4. \A m \in Names : dir[m].sclust \in Clusters => dir[m].sclust = held2[m].sclust
  BY <1>3 DEF Order
<1>5. 0 <= 0 * Bytes
  BY Constants
<1>6. ~cut => Fits(held2, len)
  BY <1>1, <1>5 DEF Order, Fits
<1>7. ~(0 > 0)
  OBVIOUS
<1>8. ~cut => \A m \in Names : Placed(m, files2[m], own, idx)
  BY <1>7 DEF Order, Placed
<1> QED BY <1>2, <1>4, <1>6, <1>8 DEF Order

\* An empty file open for writing has got its first cluster, or none.
Began(t, o, i, l) ==
    /\ View(t, o, i, l)
    /\ t.f.sclust \in Clusters => o[t.f.sclust] = t.n /\ i[t.f.sclust] = 1

\* Giving the handle the cluster create_chain made keeps a census.
LEMMA StartKeeps ==
    ASSUME NEW s, Volume(s), s.n \in Names, NEW own, NEW idx, NEW len,
           View(s, own, idx, len), "W" \in s.f.flags, s.f.sclust = 0,
           NEW t, Volume(t), SameView(s, t), t.n = s.n, t.open = s.open,
           "W" \in t.f.flags, t.f.fptr = 0, t.f.fsize = 0,
           t.f.sclust \in Clusters =>
               own[t.f.sclust] = "none" /\ FatSeen(s)[t.f.sclust] = LastLink
    PROVE  \E o, i, l : Began(t, o, i, l)
<1> DEFINE n == s.n
           x == t.f.sclust
<1>1. FatSeen(t) = FatSeen(s) /\ DirSeen(t) = DirSeen(s) /\ t.cut = s.cut
  BY DEF SameView
<1>2. /\ Handled(t)[n] = t.f
      /\ \A m \in Names \ {n} : Handled(t)[m] = Handled(s)[m]
      /\ HeldBy(t)[n] = [sclust |-> x, size |-> 0]
      /\ HeldBy(s)[n] = [sclust |-> 0, size |-> s.f.fsize]
  BY <1>1, HandledIs
<1>3. \A m \in Names \ {n} : HeldBy(t)[m] = HeldBy(s)[m]
  BY <1>1, <1>2 DEF HeldBy, FilesHeld
<1>4. Order(FatSeen(s), DirSeen(s), HeldBy(s), Handled(s), s.cut, own, idx, len)
  BY DEF View
<1>5. FatSeen(s) \in Fats /\ DirSeen(s) \in Dirs /\ HeldBy(s) \in Maps
  BY ViewTypes
<1>6. HeldBy(s)[n].sclust \notin Clusters /\ HeldBy(t)[n].sclust = x /\ HeldBy(t)[n].size = 0
      /\ Handled(t)[n].fptr = 0
  BY <1>2, Markers
<1>7. CASE x \notin Clusters
  <2>1. Order(FatSeen(s), DirSeen(s), HeldBy(t), Handled(t), s.cut, own, idx, len)
    <3> HIDE DEF x, n
    <3>1. n \in Names
      BY DEF n
    <3> QED BY <1>2, <1>3, <1>4, <1>6, <1>7, <3>1, VacantKeeps
  <2> QED BY <1>1, <1>7, <2>1 DEF Began, View
<1>8. CASE x \in Clusters
  <2>1. own[x] = "none" /\ FatSeen(s)[x] = LastLink
    BY <1>8
  <2>2. \E o, i, l : /\ Order(FatSeen(s), DirSeen(s), HeldBy(t), Handled(t), s.cut, o, i, l)
                     /\ o[x] = n /\ i[x] = 1
    <3> HIDE DEF x, n
    <3>1. n \in Names
      BY DEF n
    <3> QED BY <1>2, <1>3, <1>4, <1>5, <1>6, <1>8, <2>1, <3>1, AdoptKeeps
  <2> QED BY <1>1, <2>2 DEF Began, View
<1> QED BY <1>7, <1>8

-----------------------------------------------------------------------------
(* Writing. *)
\* A file without clusters is empty.
Zeroed(f) == f.sclust = 0 => f.fptr = 0 /\ f.fsize = 0

\* The cluster that the next byte goes to, or why there is none.
Gripped(g, o, i, l) ==
    /\ View(g, o, i, l)
    /\ ~g.cut /\ "ERROR" \notin g.f.flags /\ g.f.sclust # Bad /\ g.x \in Clusters =>
         o[g.x] = g.n /\ g.f.fptr \div Bytes < i[g.x]

\* The file at work is written by the same handle.
SamePen(s, g) ==
    /\ Volume(g) /\ g.n = s.n /\ g.open = s.open
    /\ g.live => /\ g.f.flags = s.f.flags /\ g.f.fptr = s.f.fptr /\ g.f.fsize = s.f.fsize
                 /\ g.ncl = 0 /\ Zeroed(g.f) /\ g.x \in {0, 1, Bad} \cup Clusters
                 /\ g.f.sclust = 0 => g.x = 0

\* f_write's first cluster of an empty file.
Started(s) == Then(create_chain(s, 0), LAMBDA t : {[t EXCEPT !.f.sclust = t.x]})

\* Behind the last cluster a new one is gripped.
LEMMA StretchGrips ==
    ASSUME NEW s, Volume(s), s.n \in Names, s.live, s.ncl = 0, NEW own, NEW idx, NEW len,
           View(s, own, idx, len), "W" \in s.f.flags, Zeroed(s.f), AtCluster(s), s.f.fptr # 0,
           NEW g \in create_chain(s, s.f.clust)
    PROVE  SamePen(s, g) /\ (g.live => \E o, i, l : Gripped(g, o, i, l))
<1>1. s.f.fptr \in Nat /\ s.f.clust \in Nat /\ s.f.fptr > 0
  BY FileFields
<1>2. Stretched(s, g, s.f.clust, own, idx)
  BY <1>1, CreateChainKeeps
<1>3. SamePen(s, g)
  BY <1>2 DEF Stretched, Grows, SameFile, SamePen, Zeroed
<1>4. ASSUME g.live PROVE \E o, i, l : Gripped(g, o, i, l)
  <2>1. PICK o, i, l : Reaches(g, s.f.clust, own, idx, o, i, l)
    BY <1>2, <1>4 DEF Stretched
  <2>2. View(g, o, i, l) /\ g.f = s.f /\ g.n = s.n /\ (s.cut => g.cut)
    BY <1>2, <2>1 DEF Reaches, Stretched, Grows, SameFile
  <2>3. ASSUME ~g.cut, "ERROR" \notin g.f.flags, g.f.sclust # Bad, g.x \in Clusters
        PROVE  o[g.x] = g.n /\ g.f.fptr \div Bytes < i[g.x]
    <3> DEFINE c == s.f.clust
    <3>1. /\ c \in Clusters /\ own[c] = s.n /\ (s.f.fptr - 1) \div Bytes < idx[c]
      BY <1>1, <2>2, <2>3, ViewBounds DEF Near, Placed
    <3>2. c # 0 /\ own[c] # "none"
      BY <3>1, Constants, Markers
    <3>3. o[g.x] = own[c] /\ i[g.x] = idx[c] + 1
      BY <2>1, <2>3, <3>2 DEF Reaches, Follows
    <3>4. (s.f.fptr - 1) \div Bytes = s.f.fptr \div Bytes - 1 /\ s.f.fptr \div Bytes \in Nat
      BY <1>1, ByteBefore DEF AtCluster
    <3>5. idx[c] \in Nat
      BY <3>1, ViewBounds DEF Places
    <3> HIDE DEF c
    <3> QED BY <2>2, <3>1, <3>3, <3>4, <3>5
  <2> QED BY <2>2, <2>3 DEF Gripped
<1> QED BY <1>3, <1>4

\* At the start of the file its first cluster is.
LEMMA FirstGrips ==
    ASSUME NEW s, Volume(s), s.n \in Names, s.live, s.ncl = 0, NEW own, NEW idx, NEW len,
           View(s, own, idx, len), "W" \in s.f.flags, Zeroed(s.f), s.f.fptr = 0,
           s.f.sclust # 0, NEW g, g = [s EXCEPT !.x = s.f.sclust]
    PROVE  SamePen(s, g) /\ \E o, i, l : Gripped(g, o, i, l)
<1>1. s.f.sclust \in {0, Bad} \cup Clusters /\ s.f.sclust \in Nat
  BY FileFields
<1>2. /\ Volume(g) /\ Kept(s, g) /\ g.x = s.f.sclust /\ g.ncl = s.ncl /\ g.live = s.live
  BY <1>1, SetX
<1>3. g.f = s.f /\ g.n = s.n /\ g.open = s.open
  BY <1>2 DEF Kept, SameFile
<1>4. View(g, own, idx, len)
  BY <1>2, KeptView
<1>5. 0 \div Bytes = 0 /\ \A k : k = 1 => 0 < k
  BY Constants
<1>6. g.x \in Clusters => own[g.x] = g.n /\ g.f.fptr \div Bytes < idx[g.x]
  BY <1>2, <1>3, <1>5, ViewBounds
<1>7. Gripped(g, own, idx, len)
  BY <1>4, <1>6 DEF Gripped
<1>8. SamePen(s, g)
  BY <1>1, <1>2, <1>3 DEF SamePen
<1> QED BY <1>7, <1>8

\* In an empty file a new first one is.
LEMMA NewGrips ==
    ASSUME NEW s, Volume(s), s.n \in Names, s.live, s.ncl = 0, NEW own, NEW idx, NEW len,
           View(s, own, idx, len), "W" \in s.f.flags, Zeroed(s.f), s.f.sclust = 0,
           NEW g \in Started(s)
    PROVE  SamePen(s, g) /\ (g.live => \E o, i, l : Gripped(g, o, i, l))
<1>1. PICK h \in create_chain(s, 0) :
        g = IF h.live THEN [h EXCEPT !.f.sclust = h.x] ELSE h
  BY DEF Started, Then
<1>2. Stretched(s, h, 0, own, idx)
  BY CreateChainKeeps
<1>3. Volume(h) /\ h.f = s.f /\ h.n = s.n /\ h.open = s.open
  BY <1>2 DEF Stretched, Grows, SameFile
<1>4. CASE ~h.live
  BY <1>1, <1>3, <1>4 DEF SamePen
<1>5. CASE h.live
  <2>1. h.x \in {0, Bad} \cup Clusters /\ h.ncl = 0
    BY <1>2, <1>5 DEF Stretched, Grows
  <2>2. PICK o, i, l : Reaches(h, 0, own, idx, o, i, l)
    BY <1>2, <1>5 DEF Stretched
  <2>3. View(h, o, i, l)
        /\ (h.x \in Clusters => o[h.x] = "none" /\ FatSeen(h)[h.x] = LastLink)
    BY <2>2 DEF Reaches
  <2> DEFINE f == [h.f EXCEPT !.sclust = h.x]
  <2>4. /\ f \in Files /\ f.flags = s.f.flags /\ f.fptr = s.f.fptr /\ f.fsize = s.f.fsize
        /\ f.sclust = h.x
    BY <1>3, <2>1, FileFields DEF Files
  <2>5. g = [h EXCEPT !.f = f]
    BY <1>1, <1>5
  <2> HIDE DEF f
  <2>6. /\ Volume(g) /\ SameView(h, g) /\ g.n = h.n /\ g.open = h.open /\ g.f = f
        /\ g.x = h.x /\ g.ncl = h.ncl /\ g.live = h.live
    BY <1>3, <2>4, <2>5, SetFile
  <2>7. s.f.fptr = 0 /\ s.f.fsize = 0
    BY DEF Zeroed
  <2>8. PICK o2, i2, l2 : Began(g, o2, i2, l2)
    <3>1. /\ h.n \in Names /\ "W" \in h.f.flags /\ h.f.sclust = 0 /\ "W" \in g.f.flags
          /\ g.f.fptr = 0 /\ g.f.fsize = 0
          /\ g.f.sclust \in Clusters =>
               o[g.f.sclust] = "none" /\ FatSeen(h)[g.f.sclust] = LastLink
      BY <1>3, <2>3, <2>4, <2>6, <2>7
    <3> QED BY <1>3, <2>3, <2>6, <3>1, StartKeeps
  <2>9. 0 \div Bytes = 0 /\ \A k : k = 1 => 0 < k
    BY Constants
  <2>10. Gripped(g, o2, i2, l2)
    BY <2>4, <2>6, <2>7, <2>8, <2>9 DEF Gripped, Began
  <2>11. SamePen(s, g)
    BY <1>3, <2>1, <2>4, <2>6, <2>7 DEF SamePen, Zeroed
  <2> QED BY <2>10, <2>11
<1> QED BY <1>4, <1>5

\* The volume, and the handles other than the one at work.
Pen(s, t) == Volume(t) /\ t.n = s.n /\ t.open = s.open

\* FA__ERROR is set exactly when an access has failed.
Clean(t) == "ERROR" \in t.f.flags <=> t.res \notin {"OK", "FULL"}

\* The file at work may be written.
Writable(t) == "W" \in t.f.flags /\ t.ncl = 0 /\ Zeroed(t.f) /\ Clean(t)

\* What f_write's step to the next cluster may do.
Followed(s, t) ==
    /\ Pen(s, t)
    /\ t.live => /\ Writable(t) /\ t.f.fptr = s.f.fptr /\ t.f.fsize = s.f.fsize
                 /\ t.res = "OK" => t.f.sclust # 0
                 /\ \E o, i, l : View(t, o, i, l) /\ (t.res = "OK" => Room(t, o, i))

\* f_write grips the cluster its next byte goes to.
LEMMA GripKeeps ==
    ASSUME NEW s, Volume(s), s.n \in Names, s.live, Writable(s), s.res = "OK", AtCluster(s),
           NEW own, NEW idx, NEW len, View(s, own, idx, len),
           NEW g \in (IF s.f.fptr # 0 THEN create_chain(s, s.f.clust)
                      ELSE IF s.f.sclust # 0 THEN {[s EXCEPT !.x = s.f.sclust]}
                      ELSE Started(s))
    PROVE  SamePen(s, g) /\ (g.live => \E o, i, l : Gripped(g, o, i, l))
<1>1. CASE s.f.fptr # 0
  BY <1>1, StretchGrips DEF Writable
<1>2. CASE s.f.fptr = 0 /\ s.f.sclust # 0
  <2>1. g = [s EXCEPT !.x = s.f.sclust]
    BY <1>2
  <2> QED BY <1>2, <2>1, FirstGrips DEF Writable
<1>3. CASE s.f.fptr = 0 /\ s.f.sclust = 0
  BY <1>3, NewGrips DEF Writable
<1> QED BY <1>1, <1>2, <1>3

\* With the cluster gripped the handle moves to it.
LEMMA GripFollowed ==
    ASSUME NEW s, Writable(s), s.res = "OK", NEW g, g.live, SamePen(s, g), g.n \in Names,
           NEW o, NEW i, NEW l, Gripped(g, o, i, l),
           NEW t \in (IF g.x = 0 THEN {Set(g, "FULL")}
                      ELSE IF g.x = 1 THEN Abort(g, "INT_ERR")
                      ELSE IF g.x = Bad THEN Abort(g, "DISK_ERR")
                      ELSE {[Set(g, "OK") EXCEPT !.f.clust = g.x]})
    PROVE  Followed(s, t)
<1>1. /\ Volume(g) /\ g.n = s.n /\ g.open = s.open /\ g.f.flags = s.f.flags
      /\ g.f.fptr = s.f.fptr /\ g.f.fsize = s.f.fsize /\ g.ncl = 0 /\ Zeroed(g.f)
      /\ g.x \in {0, 1, Bad} \cup Clusters /\ (g.f.sclust = 0 => g.x = 0)
  BY DEF SamePen
<1>2. "ERROR" \notin g.f.flags /\ "W" \in g.f.flags
  BY <1>1 DEF Writable, Clean
<1>3. View(g, o, i, l)
  BY DEF Gripped
<1>4. CASE g.x = 0
  <2>1. t = Set(g, "FULL") /\ "FULL" \in Results
    BY <1>4 DEF Results
  <2>2. Volume(t) /\ Kept(g, t) /\ t.ncl = g.ncl /\ t.res = "FULL"
    BY <1>1, <2>1, SetVolume
  <2>3. View(t, o, i, l) /\ t.f = g.f /\ t.n = g.n /\ t.open = g.open
    BY <1>3, <2>2, KeptView DEF Kept, SameFile
  <2> QED BY <1>1, <1>2, <2>2, <2>3 DEF Followed, Pen, Writable, Clean
<1>5. ASSUME NEW r \in Results, r \notin {"OK", "FULL"}, t \in Abort(g, r)
      PROVE  Followed(s, t)
  <2>1. Touched(g, t) /\ t.res = r /\ "ERROR" \in t.f.flags
    BY <1>1, <1>5, AbortKeeps
  <2>2. View(t, o, i, l)
    BY <1>1, <1>3, <2>1, TouchedView
  <2>3. /\ Volume(t) /\ t.n = g.n /\ t.open = g.open /\ t.ncl = 0 /\ t.f.fptr = g.f.fptr
        /\ t.f.fsize = g.f.fsize /\ t.f.sclust = g.f.sclust /\ "W" \in t.f.flags
    BY <1>1, <1>2, <2>1 DEF Touched, SameHandle
  <2> QED BY <1>1, <1>5, <2>1, <2>2, <2>3 DEF Followed, Pen, Writable, Clean, Zeroed
<1>6. CASE g.x = 1 /\ g.x # 0
  BY <1>5, <1>6 DEF Results
<1>7. CASE g.x = Bad /\ g.x # 0 /\ g.x # 1
  BY <1>5, <1>7 DEF Results
<1>8. CASE g.x # 0 /\ g.x # 1 /\ g.x # Bad
  <2> DEFINE m == Set(g, "OK")
  <2>1. Volume(m) /\ Kept(g, m) /\ m.ncl = g.ncl /\ m.res = "OK"
    BY <1>1, SetVolume DEF Results
  <2>2. m.f = g.f /\ m.n = g.n /\ m.open = g.open /\ View(m, o, i, l) /\ m.cut = g.cut
    BY <1>3, <2>1, KeptView DEF Kept, SameFile, SameView
  <2>3. t = [m EXCEPT !.f.clust = g.x] /\ g.x \in Nat /\ g.x \in Clusters /\ m \in States
        /\ m.f \in Files /\ m.f.fptr \in Nat
    BY <1>1, <1>8, <2>1, FileFields, Markers DEF Volume, States
  <2> HIDE DEF m
  <2>4. SetAt(m, t, g.x, m.f.fptr)
    BY <2>3 DEF SetAt, States, Files
  <2>5. /\ Reading(m, t) /\ t.f.clust = g.x /\ t.f.fptr = m.f.fptr /\ t.f.flags = m.f.flags
        /\ t.res = m.res
    <3>1. Volume(m) /\ g.x \in Nat /\ m.f.fptr \in Nat
      BY <2>1, <2>3
    <3> QED BY <2>4, <3>1, SetPosition
  <2>6. /\ Volume(t) /\ t.n = g.n /\ t.open = g.open /\ t.ncl = 0 /\ t.f.fptr = g.f.fptr
        /\ t.f.fsize = g.f.fsize /\ t.f.sclust = g.f.sclust /\ t.f.flags = g.f.flags
        /\ t.cut = g.cut /\ t.res = "OK" /\ t.f.clust = g.x
    BY <1>1, <2>1, <2>2, <2>5 DEF Reading, SameView
  <2>7. Room(t, o, i)
    BY <2>3, <2>6 DEF Room, Gripped
  <2>8. Near(t, o, i)
    <3>1. i \in Places
      BY <1>3 DEF View, Order
    <3> QED BY <2>6, <2>7, <3>1, RoomNear
  <2>9. View(t, o, i, l)
    BY <2>1, <2>2, <2>5, <2>8, ReadingView
  <2>10. t.f.sclust # 0
    BY <1>1, <1>8, <2>6
  <2> QED BY <1>1, <1>2, <2>6, <2>7, <2>9, <2>10 DEF Followed, Pen, Writable, Clean, Zeroed
<1> QED BY <1>4, <1>6, <1>7, <1>8

\* At a cluster boundary f_write moves to the cluster that takes the next byte.
LEMMA FollowWriteKeeps ==
    ASSUME NEW s, Volume(s), s.n \in Names, s.live, Writable(s), s.res = "OK", Chained(s),
           NEW t \in FollowWrite(s)
    PROVE  Followed(s, t)
<1>1. PICK own, idx, len : View(s, own, idx, len)
  BY DEF Chained
<1>2. CASE ~AtCluster(s)
  <2>1. t = Set(s, "OK")
    BY <1>2 DEF FollowWrite
  <2>2. Volume(t) /\ Kept(s, t) /\ t.ncl = s.ncl /\ t.res = "OK"
    BY <2>1, SetVolume DEF Results
  <2>3. Reading(s, t) /\ t.f = s.f /\ View(t, own, idx, len) /\ t.n = s.n /\ t.open = s.open
    BY <1>1, <2>2, KeptReading, KeptView DEF Kept, SameFile
  <2>4. s.f.fptr \in Nat /\ s.f.fptr > 0
    <3>1. 0 % Bytes = 0
      BY Constants
    <3> QED BY <1>2, <3>1, FileFields DEF AtCluster
  <2>5. (s.f.fptr - 1) \div Bytes = s.f.fptr \div Bytes
    BY <1>2, <2>4, ByteBefore DEF AtCluster
  <2>6. Room(t, own, idx)
    BY <1>1, <2>3, <2>4, <2>5, ViewBounds DEF Room, Near, Placed, Reading, SameView
  <2>7. t.f.sclust # 0
    BY <2>3, <2>4 DEF Writable, Zeroed
  <2> QED BY <2>2, <2>3, <2>6, <2>7 DEF Followed, Pen, Writable, Clean
<1>3. CASE AtCluster(s)
  <2>1. PICK g \in (IF s.f.fptr # 0 THEN create_chain(s, s.f.clust)
                    ELSE IF s.f.sclust # 0 THEN {[s EXCEPT !.x = s.f.sclust]}
                    ELSE Started(s)) :
          t \in IF g.live
                THEN IF g.x = 0 THEN {Set(g, "FULL")}
                     ELSE IF g.x = 1 THEN Abort(g, "INT_ERR")
                     ELSE IF g.x = Bad THEN Abort(g, "DISK_ERR")
                     ELSE {[Set(g, "OK") EXCEPT !.f.clust = g.x]}
                ELSE {g}
    BY <1>3 DEF FollowWrite, Started, Then
  <2>2. SamePen(s, g) /\ (g.live => \E o, i, l : Gripped(g, o, i, l))
    BY <1>1, <1>3, <2>1, GripKeeps
  <2>3. CASE ~g.live
    BY <2>1, <2>2, <2>3 DEF SamePen, Followed, Pen
  <2>4. CASE g.live
    <3>1. PICK o, i, l : Gripped(g, o, i, l)
      BY <2>2, <2>4
    <3>2. t \in IF g.x = 0 THEN {Set(g, "FULL")}
                ELSE IF g.x = 1 THEN Abort(g, "INT_ERR")
                ELSE IF g.x = Bad THEN Abort(g, "DISK_ERR")
                ELSE {[Set(g, "OK") EXCEPT !.f.clust = g.x]}
      BY <2>1, <2>4
    <3>3. g.n \in Names
      BY <2>2 DEF SamePen
    <3> QED BY <2>2, <2>4, <3>1, <3>2, <3>3, GripFollowed
  <2> QED BY <2>3, <2>4
<1> QED BY <1>2, <1>3

\* A handle may change its position and buffer.
LEMMA SetHandle ==
    ASSUME NEW s, Volume(s), NEW f \in Files, f.fsize = s.f.fsize, f.sclust = s.f.sclust,
           f.clust = s.f.clust,
           \A flag \in {"R", "W", "WRITTEN", "ERROR"} : flag \in f.flags <=> flag \in s.f.flags,
           NEW t, t = [s EXCEPT !.f = f]
    PROVE  Reading(s, t) /\ t.f = f /\ t.res = s.res /\ t.live = s.live /\ t.cut = s.cut
<1>1. /\ Volume(t) /\ SameView(s, t) /\ t.n = s.n /\ t.open = s.open /\ t.f = f
      /\ t.x = s.x /\ t.ncl = s.ncl /\ t.res = s.res /\ t.live = s.live /\ t.cut = s.cut
  BY SetFile
<1> QED BY <1>1 DEF Reading

\* The bytes of a write.
LEMMA GivenByte ==
    ASSUME NEW s, Volume(s), s.n \in Names, NEW p \in Nat
    PROVE  Given(s, p) \in DataBytes
<1>1. s.call \in Nat
  BY DEF Volume, States
<1>2. s.call % 2 \in {0, 1}
  BY <1>1
<1>3. <<s.n, p, s.call % 2>> \in Names \X Nat \X {0, 1}
  BY <1>2
<1> QED BY <1>3 DEF Given, Byte, DataBytes

\* What copying into the buffer or past it may do.
Wrote(s, t, n, own, idx) ==
    /\ Took(s, t, n, own, idx)
    /\ t.live => IF t.res = "OK" THEN "ERROR" \in t.f.flags <=> "ERROR" \in s.f.flags
                 ELSE "ERROR" \in t.f.flags /\ t.res # "FULL"

\* Copying into the buffer stays well placed and within the request.
LEMMA WriteBufKeeps ==
    ASSUME NEW s, Volume(s), s.n \in Names, s.live, s.res = "OK", NEW own, NEW idx,
           Room(s, own, idx), NEW n \in Nat, n > 0, NEW t \in WriteBuf(s, n)
    PROVE  Wrote(s, t, n, own, idx)
<1> DEFINE k == Least(SS - Offset(s), n)
           in(j) == j >= Offset(s) /\ j < Offset(s) + k
           b == [j \in 0 .. SS - 1 |->
                   IF in(j) THEN Given(s, s.f.fptr - Offset(s) + j) ELSE s.f.buf[j]]
           f == [s.f EXCEPT !.buf = b, !.flags = s.f.flags \cup {"DIRTY"}, !.fptr = s.f.fptr + k]
<1>1. k \in Nat /\ k > 0 /\ k <= n /\ (s.f.fptr % Bytes) + k <= Bytes
  BY PartLeft
<1>2. s \in States /\ s.f \in Files /\ s.f.fptr \in Nat /\ s.f.clust \in Nat
      /\ s.f.buf \in SectorBytes /\ s.f.flags \in SUBSET FlagNames
  BY FileFields DEF Volume, States
<1>3. s.f.fptr - Offset(s) \in Nat
  <2>1. SS \in Nat /\ SS > 0
    BY Constants
  <2>2. /\ s.f.fptr \div SS \in Nat /\ Offset(s) \in Nat
        /\ s.f.fptr = SS * (s.f.fptr \div SS) + Offset(s)
    BY <1>2, <2>1, Divided DEF Offset
  <2> DEFINE q == s.f.fptr \div SS
  <2>3. SS * q \in Nat
    BY <2>1, <2>2
  <2>4. s.f.fptr - Offset(s) = SS * q
    BY <2>2, <2>3
  <2> QED BY <2>3, <2>4
<1>4. b \in SectorBytes
  <2> SUFFICES ASSUME NEW j \in 0 .. SS - 1
               PROVE  /\ Given(s, s.f.fptr - Offset(s) + j) \in DataBytes
                      /\ s.f.buf[j] \in DataBytes
    BY DEF SectorBytes
  <2>1. s.f.fptr - Offset(s) + j \in Nat
    BY <1>3, Constants
  <2> QED BY <1>2, <2>1, GivenByte DEF SectorBytes
<1>5. t = [s EXCEPT !.f.buf = b, !.f.flags = s.f.flags \cup {"DIRTY"}, !.f.fptr = s.f.fptr + k]
  BY DEF WriteBuf
<1> HIDE DEF k, b
<1>6. s.f.fptr + k \in Nat
  BY <1>1, <1>2
<1>7. /\ f \in Files /\ f.fsize = s.f.fsize /\ f.sclust = s.f.sclust /\ f.clust = s.f.clust
      /\ f.fptr = s.f.fptr + k
      /\ \A flag \in {"R", "W", "WRITTEN", "ERROR"} : flag \in f.flags <=> flag \in s.f.flags
  BY <1>2, <1>4, <1>6 DEF Files
<1>8. t = [s EXCEPT !.f = f]
  BY <1>2, <1>5 DEF States, Files
<1> HIDE DEF f
<1>9. Reading(s, t) /\ t.f = f /\ t.res = s.res /\ t.live = s.live
  BY ZenonT(60), <1>7, <1>8, SetHandle
<1>10. Near(t, own, idx)
  BY <1>1, <1>7, <1>9, RoomAdvance
<1> QED BY <1>1, <1>2, <1>6, <1>7, <1>9, <1>10 DEF Wrote, Took

\* The outcomes of a write of several sectors.
LEMMA WriteManyCases ==
    ASSUME NEW w, NEW t \in DiskWriteMany(w), Len(w) \in DOMAIN w
    PROVE  \E i \in DOMAIN w : t = Set(w[i], "OK") \/ t \in Failed(w[i]) \cup Lost(w[i])
  BY DEF DiskWriteMany

\* Writing whole sectors past the buffer stays well placed and within the request.
LEMMA WriteDirectKeeps ==
    ASSUME NEW s, Volume(s), s.n \in Names, s.live, s.f.clust \in Clusters, NEW own,
           NEW idx \in Places, Room(s, own, idx), Offset(s) = 0, NEW n \in Nat, n >= SS, NEW t \in WriteDirect(s, n)
    PROVE  Wrote(s, t, n, own, idx)
<1> DEFINE cc == Contiguous(s, n)
           m == SS * cc
           first == Sector(s)
           at(sect) == [k \in 0 .. SS - 1 |-> Given(s, s.f.fptr + SS * (sect - first) + k)]
           covers == s.f.dsect >= first /\ s.f.dsect < first + cc
           data(i) == [sect \in DataSectors |->
                         IF sect >= first /\ sect < first + i - 1 THEN at(sect) ELSE s.data[sect]]
           w == [i \in 1 .. cc + 1 |-> [s EXCEPT !.data = data(i)]]
           Done(e) == [e EXCEPT !.f.buf = IF covers THEN at(s.f.dsect) ELSE @,
                                !.f.flags = IF covers THEN @ \ {"DIRTY"} ELSE @,
                                !.f.fptr = @ + m]
<1>1. cc \in Nat /\ cc > 0 /\ CSect(s) + cc <= CSize /\ m \in Nat
      /\ m > 0 /\ m <= n /\ (s.f.fptr % Bytes) + m <= Bytes
  BY SectorsLeft
<1>2. PICK e \in DiskWriteMany(w) :
        t \in IF e.live THEN (IF e.res # "OK" THEN Abort(e, "DISK_ERR") ELSE {Done(e)}) ELSE {e}
  BY DEF WriteDirect, Then
<1>3. s \in States /\ s.f \in Files /\ s.f.fptr \in Nat /\ s.f.clust \in Nat
      /\ s.f.buf \in SectorBytes /\ s.data \in [DataSectors -> SectorBytes]
      /\ s.f.flags \in SUBSET FlagNames /\ s.f.dsect \in Nat /\ DataSectors \subseteq Nat
  <2>1. 2 * CSize \in Nat /\ DataSectors \subseteq Nat
    <3>1. CSize \in Nat
      BY Constants
    <3> QED BY <3>1 DEF DataSectors
  <2> QED BY SMTT(60), <2>1, FileFields DEF Volume, States
<1>4. first \in Nat
  <2>1. CSect(s) + 0 < CSize /\ CSect(s) \in Nat
    BY CSectRange, Constants
  <2> QED BY <2>1, SectorOfFile
<1> HIDE DEF cc
<1> HIDE DEF first
<1>5. ASSUME NEW sect \in Nat, sect >= first PROVE at(sect) \in SectorBytes
  <2> SUFFICES ASSUME NEW k \in 0 .. SS - 1
               PROVE  Given(s, s.f.fptr + SS * (sect - first) + k) \in DataBytes
    BY DEF SectorBytes
  <2>1. SS \in Nat /\ sect - first \in Nat /\ k \in Nat
    BY <1>4, <1>5, Constants
  <2>2. SS * (sect - first) \in Nat
    BY <2>1
  <2>3. s.f.fptr + SS * (sect - first) + k \in Nat
    <3>1. \A a, b, c \in Nat : a + b + c \in Nat
      OBVIOUS
    <3>2. s.f.fptr \in Nat
      BY <1>3
    <3> QED BY <2>1, <2>2, <3>1, <3>2
  <2> QED BY <2>3, GivenByte
<1> HIDE DEF at
<1>6. ASSUME NEW i \in 1 .. cc + 1 PROVE data(i) \in [DataSectors -> SectorBytes]
  BY <1>3, <1>5
<1> HIDE DEF data, m
<1>7. PICK i \in 1 .. cc + 1 : e = Set(w[i], "OK") \/ e \in Failed(w[i]) \cup Lost(w[i])
  <2>1. DOMAIN w = 1 .. cc + 1 /\ Len(w) = cc + 1 /\ cc + 1 \in DOMAIN w
    BY <1>1
  <2> HIDE DEF w
  <2> QED BY <1>2, <2>1, WriteManyCases
<1> DEFINE z == [s EXCEPT !.data = data(i)]
<1>8. w[i] = z
  OBVIOUS
<1> HIDE DEF w
<1>9. /\ Volume(z) /\ Kept(s, z) /\ z.ncl = s.ncl /\ z.live = s.live
  BY ZenonT(60), <1>6, SetData
<1> HIDE DEF z
<1>10. Reading(s, z) /\ z.f = s.f
  BY <1>9, KeptReading
<1>11. Volume(e) /\ Kept(z, e) /\ e.ncl = z.ncl /\ (e.live => e.res \in {"OK", "DISK_ERR"})
  <2>1. CASE e = Set(z, "OK")
    BY <1>9, <2>1, SetVolume DEF Results
  <2>2. CASE e \in Failed(z)
    BY <1>9, <2>2, FailedVolume
  <2>3. CASE e \in Lost(z)
    BY <1>9, <2>3, LostVolume
  <2> QED BY <1>7, <1>8, <2>1, <2>2, <2>3
<1>12. Reading(z, e) /\ e.f = z.f
  BY <1>11, KeptReading
<1>13. Reading(s, e) /\ e.f = s.f /\ e.n \in Names
  BY <1>10, <1>12, ReadingTrans DEF Reading
<1>14. Room(e, own, idx)
  BY <1>13, SameRoom
<1>15. Near(e, own, idx)
  BY <1>11, <1>14, RoomNear
<1>16. CASE ~e.live
  <2>1. t = e
    BY <1>2, <1>16
  <2> QED BY <1>3, <1>13, <1>15, <1>16, <2>1, TookNone DEF Wrote
<1>17. CASE e.live /\ e.res # "OK"
  <2>1. t \in Abort(e, "DISK_ERR")
    BY <1>2, <1>17
  <2>2. Touched(e, t) /\ "ERROR" \in t.f.flags /\ t.res = "DISK_ERR"
    BY <1>11, <2>1, AbortKeeps DEF Results
  <2>3. Reading(e, t) /\ t.f.fptr = e.f.fptr
    BY <2>2, TouchedReading
  <2>4. Took(s, t, n, own, idx)
    BY <1>13, <2>2, <2>3, ErrorNear, ReadingTrans, TookNone
  <2> QED BY <2>2, <2>4 DEF Wrote
<1>18. CASE e.live /\ e.res = "OK"
  <2> DEFINE b == IF covers THEN at(s.f.dsect) ELSE e.f.buf
             A == IF covers THEN e.f.flags \ {"DIRTY"} ELSE e.f.flags
             f == [e.f EXCEPT !.buf = b, !.flags = A, !.fptr = e.f.fptr + m]
  <2>1. t = Done(e)
    BY <1>2, <1>18
  <2>2. b \in SectorBytes
    BY <1>3, <1>4, <1>5, <1>13
  <2>3. /\ A \in SUBSET FlagNames
        /\ \A flag \in {"R", "W", "WRITTEN", "ERROR"} : flag \in A <=> flag \in e.f.flags
    BY <1>3, <1>13
  <2>4. e \in States /\ e.f \in Files
    BY <1>11 DEF Volume, States
  <2>5. t = [e EXCEPT !.f.buf = b, !.f.flags = A, !.f.fptr = e.f.fptr + m]
    <3>1. t = [e EXCEPT !.f.buf = IF covers THEN at(s.f.dsect) ELSE e.f.buf,
                        !.f.flags = IF covers THEN e.f.flags \ {"DIRTY"} ELSE e.f.flags,
                        !.f.fptr = e.f.fptr + m]
      BY <2>1
    <3> QED BY <3>1
  <2> HIDE DEF b, A
  <2>6. e.f.fptr = s.f.fptr /\ s.f.fptr + m \in Nat
    BY <1>1, <1>3, <1>13
  <2>7. /\ f \in Files /\ f.fsize = e.f.fsize /\ f.sclust = e.f.sclust /\ f.clust = e.f.clust
        /\ f.fptr = s.f.fptr + m /\ f.flags = A
    BY <2>2, <2>3, <2>4, <2>6 DEF Files, FlagNames
  <2>8. t = [e EXCEPT !.f = f]
    BY <2>4, <2>5 DEF States, Files
  <2> HIDE DEF f
  <2>9. Reading(e, t) /\ t.f = f /\ t.res = e.res /\ t.live = e.live
    BY <1>11, <2>3, <2>7, <2>8, SetHandle
  <2>10. Reading(s, t) /\ t.f.clust = e.f.clust /\ t.f.fptr = e.f.fptr + m
    BY <1>13, <2>6, <2>7, <2>9, ReadingTrans
  <2>11. Near(t, own, idx)
    <3>1. (e.f.fptr % Bytes) + m <= Bytes /\ m \in Nat /\ m > 0
      BY <1>1, <2>6
    <3> QED BY <1>11, <1>14, <2>9, <2>10, <3>1, RoomAdvance
  <2> QED BY <1>1, <1>3, <1>13, <1>18, <2>3, <2>6, <2>7, <2>9, <2>10, <2>11 DEF Wrote, Took
<1> QED BY <1>16, <1>17, <1>18

\* A step of f_write that moves nothing.
Quiet(s, t) ==
    /\ Touched(s, t)
    /\ t.live => IF t.res = "OK" THEN "ERROR" \in t.f.flags <=> "ERROR" \in s.f.flags
                 ELSE "ERROR" \in t.f.flags /\ t.res # "FULL"

\* f_write's write-back of the buffer.
Flushed(s) == Then(Flush(s), LAMBDA u : IF u.res = "OK" THEN {u} ELSE Abort(u, "DISK_ERR"))

\* Flushing the FAT window moves no file pointer and no chain.
LEMMA FlushedQuiet ==
    ASSUME NEW s, Volume(s), NEW t \in Flushed(s)
    PROVE  Quiet(s, t)
<1>1. PICK u \in Flush(s) :
        t \in IF u.live THEN (IF u.res = "OK" THEN {u} ELSE Abort(u, "DISK_ERR")) ELSE {u}
  BY DEF Flushed, Then
<1>2. Touched(s, u) /\ Volume(u) /\ ("ERROR" \in u.f.flags <=> "ERROR" \in s.f.flags)
  BY FlushKeeps DEF Touched
<1>3. CASE t = u /\ (u.live => u.res = "OK")
  BY <1>2, <1>3 DEF Quiet
<1>4. CASE t \in Abort(u, "DISK_ERR")
  <2>1. Touched(u, t) /\ t.res = "DISK_ERR" /\ "ERROR" \in t.f.flags
    BY <1>2, <1>4, AbortKeeps DEF Results
  <2> QED BY <1>2, <2>1, TouchedTrans DEF Quiet
<1> QED BY <1>1, <1>3, <1>4

\* f_write's load of the buffer, skipped where the file ends.
FilledFor(s) == IF s.f.dsect # Sector(s) /\ s.f.fptr < s.f.fsize THEN FillBuf(s, Sector(s))
                ELSE {[s EXCEPT !.f.dsect = Sector(s)]}

\* Filling the sector buffer for a partial write moves no file pointer and no chain.
LEMMA FilledQuiet ==
    ASSUME NEW s, Volume(s), s.live, s.res = "OK", s.f.clust \in Clusters, NEW t \in FilledFor(s)
    PROVE  Quiet(s, t)
<1>1. Sector(s) \in DataSectors
  <2>1. 0 \in Nat /\ CSect(s) + 0 < CSize /\ CSize \in Nat
    BY CSectRange, Constants
  <2>2. Sector(s) + 0 \in DataSectors /\ Sector(s) \in Nat
    BY <2>1, SectorOfFile
  <2>3. \A a \in Nat : a + 0 = a
    OBVIOUS
  <2> QED BY <2>2, <2>3
<1>2. CASE t \in FillBuf(s, Sector(s))
  BY <1>1, <1>2, FillBufKeeps DEF Quiet
<1>3. CASE t = [s EXCEPT !.f.dsect = Sector(s)]
  <2> DEFINE u == [s EXCEPT !.f = [s.f EXCEPT !.buf = s.f.buf, !.dsect = Sector(s)]]
  <2>1. s \in States /\ s.f \in Files /\ s.f.buf \in SectorBytes
    BY FileFields DEF Volume
  <2>2. t = u
    BY <1>3, <2>1 DEF States, Files
  <2>3. Touched(s, u) /\ u.res = s.res /\ u.f.flags = s.f.flags
    <3>1. Sector(s) \in {0} \cup DataSectors
      BY <1>1
    <3> QED BY <2>1, <3>1, SetBuffer
  <2> HIDE DEF u
  <2> QED BY <2>2, <2>3 DEF Quiet
<1> QED BY <1>2, <1>3 DEF FilledFor

\* What a turn of f_write's loop may do.
Turned(s, t, n) ==
    /\ Pen(s, t)
    /\ t.live => /\ Writable(t) /\ Chained(t) /\ t.f.fsize = s.f.fsize
                 /\ t.f.fptr \in Nat /\ t.f.fptr <= s.f.fptr + n

\* Copying is such a turn.
LEMMA WroteTurned ==
    ASSUME NEW s, Volume(s), s.n \in Names, s.live, Writable(s), s.res = "OK", s.f.sclust # 0,
           NEW own, NEW idx, NEW len, View(s, own, idx, len), NEW n \in Nat, NEW t,
           Wrote(s, t, n, own, idx)
    PROVE  Turned(s, t, n)
<1>1. Took(s, t, n, own, idx) /\ Reading(s, t) /\ Near(t, own, idx)
  BY DEF Wrote, Took
<1>2. View(t, own, idx, len)
  BY <1>1, ReadingView
<1>3. t.live => Clean(t)
  BY DEF Wrote, Clean, Writable
<1> QED BY <1>1, <1>2, <1>3 DEF Turned, Pen, Took, Reading, Writable, Zeroed, Chained

\* So is a step that moves nothing, and it keeps the census.
LEMMA QuietTurned ==
    ASSUME NEW s, Volume(s), s.n \in Names, s.live, Writable(s), s.res = "OK",
           NEW own, NEW idx, NEW len, View(s, own, idx, len), NEW n \in Nat, NEW t, Quiet(s, t)
    PROVE  /\ Turned(s, t, n) /\ View(t, own, idx, len) /\ Reading(s, t)
           /\ t.f.fptr = s.f.fptr /\ t.f.clust = s.f.clust /\ t.f.sclust = s.f.sclust
<1>1. Touched(s, t)
  BY DEF Quiet
<1>2. View(t, own, idx, len)
  BY <1>1, TouchedView
<1>3. Reading(s, t) /\ t.f.fptr = s.f.fptr /\ t.f.clust = s.f.clust /\ t.f.sclust = s.f.sclust
  BY <1>1, TouchedReading DEF Reading
<1>4. t.live => Clean(t)
  BY DEF Quiet, Clean, Writable
<1>5. s.f.fptr \in Nat /\ s.f.fptr <= s.f.fptr + n
  BY FileFields
<1> QED BY <1>2, <1>3, <1>4, <1>5 DEF Turned, Pen, Reading, Writable, Zeroed, Chained

\* A turn after a step that moves nothing is a turn.
LEMMA TurnedAfter ==
    ASSUME NEW s, NEW u, NEW t, NEW n, Pen(s, u), u.f.fptr = s.f.fptr, u.f.fsize = s.f.fsize,
           Turned(u, t, n)
    PROVE  Turned(s, t, n)
  BY DEF Turned, Pen

\* A step to the next cluster that failed is one.
LEMMA FollowedTurned ==
    ASSUME NEW s, Volume(s), s.live, NEW t, Followed(s, t), NEW n \in Nat
    PROVE  Turned(s, t, n)
<1>1. s.f.fptr \in Nat /\ s.f.fptr <= s.f.fptr + n
  BY FileFields
<1> QED BY <1>1 DEF Turned, Followed, Chained

\* The end of a turn, once the cluster is known and what was dirty is written back.
Placing(s, n) == IF clust2sect(s.f.clust) = 0 THEN Abort(s, "INT_ERR")
                 ELSE IF n >= SS THEN WriteDirect(s, n)
                 ELSE IfOk(FilledFor(s), LAMBDA u : WriteBuf(u, n))

\* Placing bytes in the cluster is one.
LEMMA PlacingKeeps ==
    ASSUME NEW s, Volume(s), s.n \in Names, s.live, Writable(s), s.res = "OK", s.f.sclust # 0,
           Offset(s) = 0, NEW own, NEW idx, NEW len, View(s, own, idx, len), Room(s, own, idx),
           NEW n \in Nat, n > 0, NEW t \in Placing(s, n)
    PROVE  Turned(s, t, n)
<1>1. CASE clust2sect(s.f.clust) = 0
  <2>1. t \in Abort(s, "INT_ERR")
    BY <1>1 DEF Placing
  <2>2. Quiet(s, t)
    BY <2>1, AbortKeeps DEF Quiet, Results
  <2> QED BY <2>2, QuietTurned
<1>2. CASE clust2sect(s.f.clust) # 0 /\ n >= SS
  <2>1. t \in WriteDirect(s, n) /\ s.f.clust \in Clusters
    BY <1>2, ClusterSector DEF Placing
  <2>2. idx \in Places
    BY ViewBounds
  <2>3. Wrote(s, t, n, own, idx)
    BY <1>2, <2>1, <2>2, WriteDirectKeeps
  <2> QED BY <2>3, WroteTurned
<1>3. CASE clust2sect(s.f.clust) # 0 /\ ~(n >= SS)
  <2>1. PICK u \in FilledFor(s) :
          t \in IF u.live THEN (IF u.res = "OK" THEN WriteBuf(u, n) ELSE {u}) ELSE {u}
    BY <1>3 DEF Placing, IfOk, Then
  <2>2. Quiet(s, u)
    BY <1>3, <2>1, ClusterSector, FilledQuiet
  <2>3. /\ Turned(s, u, n) /\ View(u, own, idx, len) /\ Reading(s, u)
        /\ u.f.fptr = s.f.fptr /\ u.f.clust = s.f.clust /\ u.f.sclust = s.f.sclust
    BY <2>2, QuietTurned
  <2>4. CASE ~(u.live /\ u.res = "OK")
    BY <2>1, <2>3, <2>4
  <2>5. CASE u.live /\ u.res = "OK"
    <3>1. /\ t \in WriteBuf(u, n) /\ Volume(u) /\ u.n \in Names /\ Writable(u)
          /\ Room(u, own, idx) /\ u.f.sclust # 0 /\ Pen(s, u) /\ u.f.fsize = s.f.fsize
      BY <2>1, <2>3, <2>5, SameRoom DEF Turned, Pen
    <3>2. Wrote(u, t, n, own, idx)
      BY <2>5, <3>1, WriteBufKeeps
    <3>3. Turned(u, t, n)
      BY <2>3, <2>5, <3>1, <3>2, WroteTurned
    <3> QED BY <2>3, <3>1, <3>3, TurnedAfter
  <2> QED BY <2>4, <2>5
<1> QED BY <1>1, <1>2, <1>3

\* A turn of f_write's loop keeps a census and stays within the request.
LEMMA WriteTurnKeeps ==
    ASSUME NEW s, Volume(s), s.n \in Names, s.live, Writable(s), s.res = "OK", Chained(s),
           NEW n \in Nat, n > 0, NEW t \in WriteTurn(s, n)
    PROVE  Turned(s, t, n)
<1>1. CASE Offset(s) # 0
  <2>1. PICK own, idx, len : View(s, own, idx, len)
    BY DEF Chained
  <2>2. Room(s, own, idx)
    BY <1>1, <2>1, ViewBounds, NearRoom
  <2>3. s.f.fptr # 0
    <3>1. 0 % SS = 0
      BY Constants
    <3> QED BY <1>1, <3>1 DEF Offset
  <2>4. s.f.sclust # 0 /\ t \in WriteBuf(s, n)
    BY <1>1, <2>3 DEF Writable, Zeroed, WriteTurn
  <2>5. Wrote(s, t, n, own, idx)
    BY <2>2, <2>4, WriteBufKeeps
  <2> QED BY <2>1, <2>4, <2>5, WroteTurned
<1>2. CASE Offset(s) = 0
  <2>1. PICK a \in IfOk(FollowWrite(s), Flushed) :
          t \in IF a.live THEN (IF a.res = "OK" THEN Placing(a, n) ELSE {a}) ELSE {a}
    BY <1>2 DEF WriteTurn, IfOk, Then, Flushed, Placing, FilledFor
  <2>2. PICK f \in FollowWrite(s) :
          a \in IF f.live THEN (IF f.res = "OK" THEN Flushed(f) ELSE {f}) ELSE {f}
    BY <2>1 DEF IfOk, Then
  <2>3. Followed(s, f) /\ Turned(s, f, n) /\ Pen(s, f)
    BY <2>2, FollowWriteKeeps, FollowedTurned DEF Followed
  <2>4. CASE ~(f.live /\ f.res = "OK")
    BY <2>1, <2>2, <2>3, <2>4
  <2>5. CASE f.live /\ f.res = "OK"
    <3>1. PICK own, idx, len : View(f, own, idx, len) /\ Room(f, own, idx)
      BY <2>3, <2>5 DEF Followed
    <3>2. /\ Volume(f) /\ f.n \in Names /\ Writable(f) /\ f.f.sclust # 0
          /\ f.f.fptr = s.f.fptr /\ f.f.fsize = s.f.fsize
      BY <2>3, <2>5 DEF Followed, Pen
    <3>3. Quiet(f, a)
      BY <2>2, <2>5, <3>2, FlushedQuiet
    <3>4. /\ Turned(f, a, n) /\ View(a, own, idx, len) /\ Reading(f, a)
          /\ a.f.fptr = f.f.fptr /\ a.f.clust = f.f.clust /\ a.f.sclust = f.f.sclust
      BY <2>5, <3>1, <3>2, <3>3, QuietTurned
    <3>5. CASE ~(a.live /\ a.res = "OK")
      BY <2>1, <2>3, <3>2, <3>4, <3>5, TurnedAfter
    <3>6. CASE a.live /\ a.res = "OK"
      <4>1. /\ t \in Placing(a, n) /\ Volume(a) /\ a.n \in Names /\ Writable(a)
            /\ Room(a, own, idx) /\ a.f.sclust # 0 /\ Pen(s, a) /\ a.f.fsize = s.f.fsize
            /\ a.f.fptr = s.f.fptr
        BY <2>1, <2>3, <3>1, <3>2, <3>4, <3>6, SameRoom DEF Turned, Pen
      <4>2. Offset(a) = 0
        BY <1>2, <4>1 DEF Offset
      <4>3. Turned(a, t, n)
        BY <3>4, <3>6, <4>1, <4>2, PlacingKeeps
      <4> QED BY <4>1, <4>3, TurnedAfter
    <3> QED BY <3>5, <3>6
  <2> QED BY <2>4, <2>5
<1> QED BY <1>1, <1>2

\* What holds of a handle between calls.
FileOK(f) ==
    /\ Zeroed(f)
    /\ "ERROR" \in f.flags \/ f.fptr <= f.fsize
    /\ "WRITTEN" \in f.flags => "W" \in f.flags

\* What a call may do: at its end some census accounts for the volume.
Settled(s, t) == Pen(s, t) /\ (t.live => FileOK(t.f) /\ Chained(t) /\ t.ncl = 0)

\* What f_write's loop may do.
Going(s, u, end) ==
    /\ Pen(s, u)
    /\ u.live => /\ Writable(u) /\ Chained(u) /\ u.f.fsize = s.f.fsize
                 /\ u.f.fptr <= end

\* f_write's loop keeps a census.
LEMMA WriteLoopKeeps ==
    ASSUME NEW s, Volume(s), s.n \in Names, s.live, Writable(s), Chained(s),
           NEW end \in Nat, s.f.fptr <= end, NEW t \in WriteLoop(s, end)
    PROVE  Going(s, t, end)
<1> DEFINE most == end - s.f.fptr
           Goes(u) == u.live /\ (u.res = "OK" /\ u.f.fptr # end)
           A == {u \in States : Going(s, u, end)}
           Turn(u) == IF u.live /\ (u.res = "OK" /\ u.f.fptr # end)
                      THEN WriteTurn(u, end - u.f.fptr) ELSE {u}
           G == [u \in A |-> Turn(u)]
           Body(g) == [k \in 0 .. most |->
                         IF k = 0 THEN {s}
                         ELSE UNION {IF u.live /\ (u.res = "OK" /\ u.f.fptr # end)
                                     THEN WriteTurn(u, end - u.f.fptr) ELSE {u} : u \in g[k - 1]}]
           after == CHOOSE g : g = Body(g)
<1>1. WriteLoop(s, end) = after[most]
  BY DEF WriteLoop, Loop
<1>2. most \in Nat
  BY FileFields
<1>3. s \in A
  BY DEF Going, Pen, Volume
<1>4. \A u \in A : Turn(u) \in SUBSET A
  <2> SUFFICES ASSUME NEW u \in A, NEW w \in Turn(u) PROVE w \in A
    OBVIOUS
  <2>1. CASE ~Goes(u)
    BY <2>1
  <2>2. CASE Goes(u)
    <3> DEFINE n == end - u.f.fptr
    <3>1. w \in WriteTurn(u, n) /\ u.live /\ u.res = "OK" /\ Going(s, u, end)
      BY <2>2
    <3>2. /\ Volume(u) /\ u.n \in Names /\ u.f.fptr \in Nat /\ u.f.fptr <= end /\ Pen(s, u)
          /\ Writable(u) /\ Chained(u) /\ u.f.fsize = s.f.fsize
      BY <3>1, FileFields DEF Going, Pen
    <3>3. n \in Nat /\ n > 0 /\ u.f.fptr + n = end
      BY <2>2, <3>2
    <3> HIDE DEF n
    <3>4. Turned(u, w, n)
      <4> HIDE DEF A, Turn, Goes
      <4> QED BY <3>1, <3>2, <3>3, WriteTurnKeeps
    <3>5. Going(s, w, end) /\ w \in States
      BY <3>2, <3>3, <3>4 DEF Turned, Going, Pen, Volume
    <3> QED BY <3>5
  <2> QED BY <2>1, <2>2
<1>5. G \in [A -> SUBSET A]
  BY <1>4
<1> HIDE DEF most
<1>6. PICK g \in [0 .. most -> SUBSET A] : Unrolls(g, G, s, most)
  <2> HIDE DEF A, G
  <2> QED BY <1>2, <1>3, <1>5, LoopUnrolls
<1> HIDE DEF Turn
<1>7. \A k \in 0 .. most : g[k] = IF k = 0 THEN {s} ELSE UNION {Turn(u) : u \in g[k - 1]}
  <2> TAKE k \in 0 .. most
  <2>1. g[k] = IF k = 0 THEN {s} ELSE UNION {G[u] : u \in g[k - 1]}
    BY <1>6 DEF Unrolls
  <2>2. k # 0 => g[k - 1] \in SUBSET A
    BY <1>2
  <2>3. k # 0 => UNION {G[u] : u \in g[k - 1]} = UNION {Turn(u) : u \in g[k - 1]}
    BY <2>2
  <2> QED BY <2>1, <2>3
<1>8. g = Body(g)
  BY <1>7 DEF Turn
<1>9. after = Body(after)
  BY <1>8
<1> HIDE DEF after
<1>10. \A k \in 0 .. most : after[k] = IF k = 0 THEN {s} ELSE UNION {Turn(u) : u \in after[k - 1]}
  BY <1>9 DEF Turn
<1>11. after[most] \in SUBSET A
  <2> DEFINE Q == SUBSET A
  <2>1. 0 \in 0 .. most /\ most \in 0 .. most
    BY <1>2
  <2>2. after[0] \in Q
    <3>1. after[0] = {s}
      BY <1>10, <2>1, Zenon
    <3> QED BY <1>3, <3>1
  <2>3. \A k \in 1 .. most : after[k - 1] \in Q => after[k] \in Q
    <3> SUFFICES ASSUME NEW k \in 1 .. most, after[k - 1] \in SUBSET A, NEW w \in after[k]
                 PROVE  w \in A
      OBVIOUS
    <3>1. k \in 0 .. most /\ k # 0
      BY <1>2
    <3>2. after[k] = UNION {Turn(u) : u \in after[k - 1]}
      BY <1>10, <3>1
    <3>3. PICK u \in after[k - 1] : w \in Turn(u)
      BY <3>2
    <3> QED BY <1>4, <3>3
  <2> HIDE DEF Q, A
  <2>4. \A k \in 0 .. most : after[k] \in Q
    BY <1>2, <2>2, <2>3, IterationStays
  <2> QED BY <2>1, <2>4 DEF Q
<1> QED BY <1>1, <1>11

\* The handle with the size brought up to its position.
GrownTo(s) == [s.f EXCEPT !.fsize = IF s.f.fptr > s.f.fsize THEN s.f.fptr ELSE s.f.fsize,
                          !.flags = s.f.flags \cup {"WRITTEN"}]

\* A file that grew to its position still fits into its clusters.
LEMMA GrownKeeps ==
    ASSUME NEW s, Volume(s), s.n \in Names, s.ncl = 0, "W" \in s.f.flags, "ERROR" \notin s.f.flags,
           Zeroed(s.f), Chained(s), NEW t, t = [s EXCEPT !.f = GrownTo(s)]
    PROVE  Settled(s, t)
<1> DEFINE f == GrownTo(s)
<1>1. PICK own, idx, len : View(s, own, idx, len)
  BY DEF Chained
<1>2. s.f \in Files /\ s.f.fptr \in Nat /\ s.f.fsize \in Nat /\ s.f.flags \in SUBSET FlagNames
  BY FileFields
<1>3. /\ f \in Files /\ f.fptr = s.f.fptr /\ f.sclust = s.f.sclust /\ f.clust = s.f.clust
      /\ f.flags = s.f.flags \cup {"WRITTEN"}
      /\ f.fsize = IF s.f.fptr > s.f.fsize THEN s.f.fptr ELSE s.f.fsize
  BY <1>2 DEF GrownTo, Files
<1> HIDE DEF f
<1>4. /\ Volume(t) /\ SameView(s, t) /\ t.n = s.n /\ t.open = s.open /\ t.f = f
      /\ t.ncl = s.ncl
  BY <1>3, SetFile DEF f
<1>5. FileOK(t.f)
  BY <1>2, <1>3, <1>4 DEF FileOK, Zeroed
<1>6. ASSUME ~s.cut, s.f.sclust # Bad
      PROVE  t.f.fsize <= len[s.n] * Bytes /\ Placed(s.n, t.f, own, idx)
  <2>1. Placed(s.n, s.f, own, idx) /\ s.f.fsize <= len[s.n] * Bytes /\ len[s.n] \in Nat
    BY <1>1, <1>6, ViewBounds DEF Near, Lengths
  <2>2. Placed(s.n, t.f, own, idx)
    BY <1>3, <1>4, <2>1 DEF Placed
  <2>3. s.f.fptr <= len[s.n] * Bytes
    <3>1. ASSUME s.f.fptr > 0 PROVE (s.f.fptr - 1) \div Bytes < len[s.n]
      <4>1. /\ s.f.clust \in Clusters /\ own[s.f.clust] = s.n
            /\ (s.f.fptr - 1) \div Bytes < idx[s.f.clust]
        BY <1>6, <2>1, <3>1 DEF Placed
      <4>2. idx[s.f.clust] <= len[s.n] /\ idx[s.f.clust] \in Nat
        BY <1>1, <4>1, ViewBounds DEF Places
      <4>3. (s.f.fptr - 1) \div Bytes \in Nat
        BY <1>2, <3>1, ByteBefore
      <4> QED BY <2>1, <4>1, <4>2, <4>3
    <3> QED BY <1>2, <2>1, <3>1, LengthCovers
  <2> QED BY <1>3, <1>4, <2>1, <2>2, <2>3
<1>7. View(t, own, idx, len)
  <2>1. ("W" \in t.f.flags <=> "W" \in s.f.flags) /\ t.f.sclust = s.f.sclust
    BY <1>3, <1>4
  <2> QED BY <1>1, <1>4, <1>6, <2>1, HandleKeeps
<1> QED BY <1>4, <1>5, <1>7 DEF Settled, Pen, Chained

\* A call that nobody can tell settles.
LEMMA SettledSame ==
    ASSUME NEW s, Volume(s), s.n \in Names, FileOK(s.f), Chained(s), s.ncl = 0, NEW t,
           Volume(t), Kept(s, t), t.ncl = s.ncl
    PROVE  Settled(s, t)
  BY KeptView DEF Settled, Pen, Chained, Kept, SameFile

\* f_write settles, whatever fails in it.
LEMMA WriteKeeps ==
    ASSUME NEW s, Volume(s), s.n \in Names, s.live, s.res = "OK", s.ncl = 0, FileOK(s.f),
           Chained(s), NEW k \in Nat, NEW t \in f_write(s, k)
    PROVE  Settled(s, t)
<1>1. CASE "ERROR" \in s.f.flags
  <2>1. t = Set(s, "INT_ERR") /\ "INT_ERR" \in Results
    BY <1>1 DEF f_write, Results
  <2> QED BY <2>1, SetVolume, SettledSame
<1>2. CASE "ERROR" \notin s.f.flags /\ ~CanWrite(s)
  <2>1. t = Set(s, "DENIED") /\ "DENIED" \in Results
    BY <1>2 DEF f_write, Results
  <2> QED BY <2>1, SetVolume, SettledSame
<1>3. CASE "ERROR" \notin s.f.flags /\ CanWrite(s)
  <2> DEFINE end == s.f.fptr + k
  <2>1. PICK u \in WriteLoop(s, end) :
          t = IF u.live /\ u.res \in {"OK", "FULL"}
              THEN [Set(Grown(u), "OK") EXCEPT !.f.flags = @ \cup {"WRITTEN"}] ELSE u
    BY <1>3 DEF f_write, Then
  <2>2. end \in Nat /\ s.f.fptr <= end /\ Writable(s)
    BY <1>3, FileFields DEF Writable, CanWrite, Clean, FileOK
  <2> HIDE DEF end
  <2>3. Going(s, u, end) /\ Pen(s, u)
    BY <2>1, <2>2, WriteLoopKeeps DEF Going
  <2>4. CASE ~u.live
    BY <2>1, <2>3, <2>4 DEF Settled
  <2>5. CASE u.live /\ u.res \notin {"OK", "FULL"}
    BY <2>1, <2>3, <2>5 DEF Settled, Going, Writable, Clean, FileOK, Pen
  <2>6. CASE u.live /\ u.res \in {"OK", "FULL"}
    <3> DEFINE m == Set(u, "OK")
    <3>1. /\ Volume(u) /\ Writable(u) /\ Chained(u) /\ "ERROR" \notin u.f.flags
          /\ u.n \in Names
      BY <2>3, <2>6 DEF Going, Pen, Writable, Clean
    <3>2. Volume(m) /\ Kept(u, m) /\ m.ncl = u.ncl
      BY <3>1, SetVolume DEF Results
    <3>3. /\ m.f = u.f /\ m.n = u.n /\ m.open = u.open /\ Chained(m)
      BY <3>1, <3>2, KeptView DEF Kept, SameFile, Chained
    <3>4. u \in States /\ u.f \in Files
      BY <3>1, FileFields DEF Volume
    <3>5. t = [m EXCEPT !.f = GrownTo(m)]
      BY ZenonT(60), <2>1, <2>6, <3>4 DEF GrownTo, Grown, States, Files, Set
    <3> HIDE DEF m
    <3>6. Settled(m, t)
      BY <3>1, <3>2, <3>3, <3>5, GrownKeeps DEF Writable
    <3> QED BY <2>3, <3>3, <3>6 DEF Settled, Pen
  <2> QED BY <2>4, <2>5, <2>6
<1> QED BY <1>1, <1>2, <1>3

\* f_read settles, whatever fails in it.
LEMMA ReadKeeps ==
    ASSUME NEW s, Volume(s), s.n \in Names, s.live, s.res = "OK", s.ncl = 0, FileOK(s.f),
           Chained(s), NEW k \in Nat, NEW t \in f_read(s, k)
    PROVE  Settled(s, t)
<1>1. CASE "ERROR" \in s.f.flags
  <2>1. t = Set(s, "INT_ERR") /\ "INT_ERR" \in Results
    BY <1>1 DEF f_read, Results
  <2> QED BY <2>1, SetVolume, SettledSame
<1>2. CASE "ERROR" \notin s.f.flags /\ ~CanRead(s)
  <2>1. t = Set(s, "DENIED") /\ "DENIED" \in Results
    BY <1>2 DEF f_read, Results
  <2> QED BY <2>1, SetVolume, SettledSame
<1>3. CASE "ERROR" \notin s.f.flags /\ CanRead(s)
  <2> DEFINE end == Least(s.f.fptr + k, s.f.fsize)
  <2>1. t \in ReadLoop(s, end)
    BY <1>3 DEF f_read
  <2>2. s.f.fptr \in Nat /\ s.f.fsize \in Nat /\ s.f.fptr <= s.f.fsize
    BY <1>3, FileFields DEF FileOK
  <2>3. end \in Nat /\ s.f.fptr <= end /\ end <= s.f.fsize
    BY <2>2 DEF Least
  <2> HIDE DEF end
  <2>4. PICK own, idx, len : View(s, own, idx, len)
    BY DEF Chained
  <2>5. Reading(s, t) /\ Near(t, own, idx) /\ t.f.fptr <= end
    BY <2>1, <2>3, <2>4, ReadLoopKeeps
  <2>6. View(t, own, idx, len)
    BY <2>4, <2>5, ReadingView
  <2>7. t.f.fptr \in Nat
    BY <2>5, FileFields DEF Reading
  <2>8. FileOK(t.f)
    BY <2>2, <2>3, <2>5, <2>7 DEF FileOK, Zeroed, Reading
  <2> QED BY <2>5, <2>6, <2>8 DEF Settled, Pen, Reading, Chained
<1> QED BY <1>1, <1>2, <1>3

-----------------------------------------------------------------------------
(* Seeking. *)
\* The handle is in the cluster of its position.
Stood(s) == \E o, i, l : View(s, o, i, l) /\ Room(s, o, i)

\* What the walk of f_lseek may do.
Sought(s, t) ==
    /\ Pen(s, t)
    /\ t.live => /\ t.ncl = 0 /\ t.f.fsize = s.f.fsize /\ t.f.sclust = s.f.sclust
                 /\ \A flag \in {"R", "W", "WRITTEN"} : flag \in t.f.flags <=> flag \in s.f.flags
                 /\ Clean(t) /\ Stood(t)
                 /\ t.res = "FULL" => s.res = "FULL" \/ "W" \in s.f.flags

\* What f_lseek finds behind the cluster it stands on.
SeekGrip(s, g, o, i, l) ==
    /\ View(g, o, i, l)
    /\ g.x = 0 /\ "W" \in s.f.flags => Room(g, o, i)
    /\ ~g.cut /\ "W" \in s.f.flags /\ "ERROR" \notin s.f.flags /\ s.f.sclust # Bad
         /\ g.x \in Clusters => o[g.x] = s.n /\ s.f.fptr \div Bytes + 1 < i[g.x]

\* A cluster further is one more cluster.
LEMMA NextCluster ==
    ASSUME NEW p \in Nat
    PROVE  (p + Bytes) \div Bytes = p \div Bytes + 1 /\ p + Bytes \in Nat /\ p \div Bytes \in Nat
<1> DEFINE b == Bytes
           u == p \div b
           y == p % b
<1>1. b \in Nat /\ b > 0
  BY Constants
<1>2. u \in Nat /\ y \in Nat /\ y < b /\ p = b * u + y
  BY <1>1, Divided
<1> HIDE DEF b, u, y
<1>3. u + 1 \in Nat /\ (b * (u + 1) + y) \div b = u + 1
  BY <1>1, <1>2, Division
<1>4. b * (u + 1) = b * u + b /\ b * u \in Nat
  BY <1>1, <1>2
<1>5. p + b = b * (u + 1) + y
  BY <1>1, <1>2, <1>4
<1> QED BY <1>1, <1>2, <1>3, <1>5 DEF b, u

\* It follows the chain, or extends it when it may write.
LEMMA SeekGrips ==
    ASSUME NEW s, Volume(s), s.n \in Names, s.live, s.ncl = 0, NEW own, NEW idx, NEW len,
           View(s, own, idx, len), Room(s, own, idx),
           NEW g \in (IF CanWrite(s) THEN create_chain(s, s.f.clust) ELSE get_fat(s, s.f.clust))
    PROVE  /\ Volume(g) /\ g.f = s.f /\ g.n = s.n /\ g.open = s.open
           /\ g.live => /\ g.ncl = 0 /\ g.x \in Nat
                        /\ \E o, i, l : SeekGrip(s, g, o, i, l)
<1>1. s.f.clust \in Nat /\ s.f.fptr \in Nat
  BY FileFields
<1>2. CASE CanWrite(s)
  <2>1. Stretched(s, g, s.f.clust, own, idx)
    BY <1>1, <1>2, CreateChainKeeps
  <2>2. Volume(g) /\ g.f = s.f /\ g.n = s.n /\ g.open = s.open /\ (s.cut => g.cut)
    BY <2>1 DEF Stretched, Grows, SameFile
  <2>3. ASSUME g.live
        PROVE  g.ncl = 0 /\ g.x \in Nat /\ \E o, i, l : SeekGrip(s, g, o, i, l)
    <3>1. g.ncl = 0 /\ g.x \in Nat
      BY <2>1, <2>2, <2>3 DEF Stretched, Grows, Volume, States
    <3>2. PICK o, i, l : Reaches(g, s.f.clust, own, idx, o, i, l)
      BY <2>1, <2>3 DEF Stretched
    <3>3. View(g, o, i, l)
      BY <3>2 DEF Reaches
    <3>4. ASSUME g.x = 0 PROVE Room(g, o, i)
      BY <2>2, <3>2, <3>4 DEF Reaches, Room
    <3>5. ASSUME ~g.cut, "W" \in s.f.flags, "ERROR" \notin s.f.flags, s.f.sclust # Bad,
                 g.x \in Clusters
          PROVE  o[g.x] = s.n /\ s.f.fptr \div Bytes + 1 < i[g.x]
      <4> DEFINE c == s.f.clust
      <4>1. c \in Clusters /\ own[c] = s.n /\ s.f.fptr \div Bytes < idx[c]
        BY <2>2, <3>5 DEF Room
      <4>2. c # 0 /\ own[c] # "none"
        BY <4>1, Constants, Markers
      <4>3. o[g.x] = own[c] /\ i[g.x] = idx[c] + 1
        BY <3>2, <3>5, <4>2 DEF Reaches, Follows
      <4>4. idx[c] \in Nat /\ s.f.fptr \div Bytes \in Nat
        BY <1>1, <4>1, ViewBounds, Constants, Divided DEF Places
      <4> HIDE DEF c
      <4> QED BY <4>1, <4>3, <4>4
    <3> QED BY <3>1, <3>3, <3>4, <3>5 DEF SeekGrip
  <2> QED BY <2>2, <2>3
<1>3. CASE ~CanWrite(s)
  <2>1. Fetched(s, g, s.f.clust)
    BY <1>3, GetFat
  <2>2. Volume(g) /\ Kept(s, g) /\ g.ncl = s.ncl /\ (g.live => g.x \in Links \cup {1, Bad})
    BY <2>1 DEF Fetched
  <2>3. g.f = s.f /\ g.n = s.n /\ g.open = s.open /\ View(g, own, idx, len)
    BY <2>2, KeptView DEF Kept, SameFile
  <2>4. g.live => g.x \in Nat
    BY <2>2 DEF Volume, States
  <2>5. SeekGrip(s, g, own, idx, len)
    BY <1>3, <2>3 DEF SeekGrip, CanWrite
  <2> QED BY <2>2, <2>3, <2>4, <2>5
<1> QED BY <1>2, <1>3

\* A turn of the walk moves one cluster on, or fails where it stood.
LEMMA SeekTurnKeeps ==
    ASSUME NEW s, Volume(s), s.n \in Names, s.live, s.ncl = 0, s.res = "OK", Clean(s), Stood(s),
           NEW t \in SeekTurn(s)
    PROVE  /\ Sought(s, t)
           /\ t.live => t.f.fptr = IF t.res = "OK" THEN s.f.fptr + Bytes ELSE s.f.fptr
<1>1. PICK own, idx, len : View(s, own, idx, len) /\ Room(s, own, idx)
  BY DEF Stood
<1>2. PICK g \in (IF CanWrite(s) THEN create_chain(s, s.f.clust) ELSE get_fat(s, s.f.clust)) :
        t \in IF g.live
              THEN IF g.x = 0 /\ CanWrite(g) THEN {Set(g, "FULL")}
                   ELSE IF g.x = Bad THEN Abort(g, "DISK_ERR")
                   ELSE IF g.x \notin Clusters THEN Abort(g, "INT_ERR")
                   ELSE {[Set(g, "OK") EXCEPT !.f.clust = g.x, !.f.fptr = @ + Bytes]}
              ELSE {g}
  BY DEF SeekTurn, Then
<1>3. /\ Volume(g) /\ g.f = s.f /\ g.n = s.n /\ g.open = s.open
      /\ g.live => g.ncl = 0 /\ g.x \in Nat /\ \E o, i, l : SeekGrip(s, g, o, i, l)
  BY <1>1, <1>2, SeekGrips
<1>4. "ERROR" \notin s.f.flags
  BY DEF Clean
<1>5. CASE ~g.live
  BY <1>2, <1>3, <1>5 DEF Sought, Pen
<1>6. CASE g.live
  <2>1. PICK o, i, l : SeekGrip(s, g, o, i, l)
    BY <1>3, <1>6
  <2>2. View(g, o, i, l)
    BY <2>1 DEF SeekGrip
  <2>3. CASE g.x = 0 /\ CanWrite(g)
    <3>1. t = Set(g, "FULL") /\ "FULL" \in Results
      BY <1>2, <1>6, <2>3 DEF Results
    <3>2. Volume(t) /\ Kept(g, t) /\ t.ncl = g.ncl /\ t.res = "FULL"
      BY <1>3, <3>1, SetVolume
    <3>3. View(t, o, i, l) /\ t.f = g.f /\ t.n = g.n /\ t.open = g.open /\ t.cut = g.cut
      BY <2>2, <3>2, KeptView DEF Kept, SameFile, SameView
    <3>4. Room(g, o, i)
      BY <1>3, <2>1, <2>3 DEF SeekGrip, CanWrite
    <3>5. Room(t, o, i)
      BY <3>3, <3>4 DEF Room
    <3> QED BY <1>3, <1>4, <1>6, <2>3, <3>2, <3>3, <3>5 DEF Sought, Pen, Clean, Stood, CanWrite
  <2>4. ASSUME NEW r \in Results, r \notin {"OK", "FULL"}, t \in Abort(g, r)
        PROVE  Sought(s, t) /\ t.f.fptr = s.f.fptr /\ t.res # "OK"
    <3>1. Touched(g, t) /\ t.res = r /\ "ERROR" \in t.f.flags
      BY <1>3, <2>4, AbortKeeps
    <3>2. View(t, o, i, l)
      BY <1>3, <2>2, <3>1, TouchedView
    <3>3. Room(t, o, i)
      BY <3>1 DEF Room
    <3>4. Clean(t) /\ Stood(t)
      BY <2>4, <3>1, <3>2, <3>3 DEF Clean, Stood
    <3> QED BY <1>3, <1>6, <2>4, <3>1, <3>4 DEF Sought, Pen, Touched, SameHandle
  <2>5. CASE ~(g.x = 0 /\ CanWrite(g)) /\ g.x = Bad
    BY <1>2, <1>6, <2>4, <2>5 DEF Results
  <2>6. CASE ~(g.x = 0 /\ CanWrite(g)) /\ g.x # Bad /\ g.x \notin Clusters
    BY <1>2, <1>6, <2>4, <2>6 DEF Results
  <2>7. CASE ~(g.x = 0 /\ CanWrite(g)) /\ g.x # Bad /\ g.x \in Clusters
    <3> DEFINE m == Set(g, "OK")
    <3>1. Volume(m) /\ Kept(g, m) /\ m.ncl = g.ncl /\ m.res = "OK"
      BY <1>3, SetVolume DEF Results
    <3>2. m.f = g.f /\ m.n = g.n /\ m.open = g.open /\ View(m, o, i, l) /\ m.cut = g.cut
      BY <2>2, <3>1, KeptView DEF Kept, SameFile, SameView
    <3>3. t = [m EXCEPT !.f.clust = g.x, !.f.fptr = m.f.fptr + Bytes] /\ g.x \in Nat
          /\ m \in States /\ m.f \in Files
      BY <1>2, <1>3, <1>6, <2>7, <3>1, FileFields DEF Volume, States
    <3>4. m.f.fptr \in Nat /\ m.f.fptr + Bytes \in Nat
          /\ (m.f.fptr + Bytes) \div Bytes = m.f.fptr \div Bytes + 1
      BY <3>1, FileFields, NextCluster
    <3> HIDE DEF m
    <3>5. SetAt(m, t, g.x, m.f.fptr + Bytes)
      BY <3>3 DEF SetAt, States, Files
    <3>6. /\ Reading(m, t) /\ t.f.clust = g.x /\ t.f.fptr = m.f.fptr + Bytes
          /\ t.f.flags = m.f.flags /\ t.res = m.res
      <4>1. Volume(m) /\ g.x \in Nat /\ m.f.fptr + Bytes \in Nat
        BY <3>1, <3>3, <3>4
      <4> QED BY <3>5, <4>1, SetPosition
    <3>7. /\ Volume(t) /\ t.n = g.n /\ t.open = g.open /\ t.ncl = 0
          /\ t.f.fptr = s.f.fptr + Bytes /\ t.f.fsize = g.f.fsize /\ t.f.sclust = g.f.sclust
          /\ t.f.flags = g.f.flags /\ t.cut = g.cut /\ t.res = "OK" /\ t.f.clust = g.x
      BY <1>3, <1>6, <3>1, <3>2, <3>6 DEF Reading, SameView
    <3>8. t.f.fptr \div Bytes = s.f.fptr \div Bytes + 1
      BY <1>3, <3>2, <3>4, <3>7
    <3>9. Room(t, o, i)
      BY <1>3, <2>1, <2>7, <3>7, <3>8 DEF Room, SeekGrip
    <3>10. Near(t, o, i)
      <4>1. i \in Places
        BY <2>2 DEF View, Order
      <4> QED BY <3>7, <3>9, <4>1, RoomNear
    <3>11. View(t, o, i, l)
      <4>1. m.n \in Names
        BY <1>3, <3>2
      <4> QED BY <3>1, <3>2, <3>6, <3>10, <4>1, ReadingView
    <3> QED BY <1>3, <1>4, <3>7, <3>9, <3>11 DEF Sought, Pen, Clean, Stood
  <2> QED BY <1>2, <1>6, <2>3, <2>4, <2>5, <2>6, <2>7
<1> QED BY <1>5, <1>6

\* Walks compose.
LEMMA SoughtTrans ==
    ASSUME NEW s, NEW u, NEW t, u.live, Sought(s, u), Sought(u, t)
    PROVE  Sought(s, t)
  BY DEF Sought, Pen

\* After k turns that did not end the loop, the pointer is k clusters on.
Nearing(s, u, k, ofs) ==
    /\ Sought(s, u)
    /\ u.live => u.f.fptr % Bytes = 0
    /\ u.live /\ u.res = "OK" /\ ofs - u.f.fptr > Bytes => u.f.fptr >= k * Bytes

\* Standing still is a walk.
LEMMA SoughtSelf ==
    ASSUME NEW s, Volume(s), s.n \in Names, s.live, s.ncl = 0, Clean(s), Stood(s)
    PROVE  Sought(s, s)
  BY DEF Sought, Pen

\* One more turn after k.
LEMMA SeekOn ==
    ASSUME NEW s, NEW u, Sought(s, u), u.live, u.n \in Names, u.res = "OK", u.f.fptr % Bytes = 0,
           NEW k \in Nat, u.f.fptr >= k * Bytes, NEW ofs, NEW t \in SeekTurn(u)
    PROVE  Nearing(s, t, k + 1, ofs)
<1>1. Volume(u) /\ u.ncl = 0 /\ Clean(u) /\ Stood(u)
  BY DEF Sought, Pen
<1>2. /\ Sought(u, t)
      /\ t.live => t.f.fptr = IF t.res = "OK" THEN u.f.fptr + Bytes ELSE u.f.fptr
  BY <1>1, SeekTurnKeeps
<1>3. Sought(s, t)
  BY <1>2, SoughtTrans
<1>4. u.f.fptr \in Nat /\ Bytes \in Nat /\ Bytes > 0
  BY <1>1, FileFields, Constants
<1>5. (u.f.fptr + Bytes) % Bytes = 0
  <2> DEFINE b == Bytes
             p == u.f.fptr
             q == p \div b
  <2>1. q \in Nat /\ p = b * q + (p % b) /\ p % b = 0 /\ b \in Nat /\ b > 0 /\ p \in Nat
    BY <1>4, Divided
  <2> HIDE DEF q, b, p
  <2>2. b * (q + 1) = b * q + b /\ b * q \in Nat
    BY <2>1
  <2>3. p + b = b * (q + 1) + 0
    BY <2>1, <2>2
  <2>4. (b * (q + 1) + 0) % b = 0
    BY <2>1, Division
  <2> QED BY <2>3, <2>4 DEF b, p
<1>6. (k + 1) * Bytes = k * Bytes + Bytes /\ k * Bytes \in Nat
  BY <1>4
<1> DEFINE b == Bytes
           kb == k * Bytes
<1>7. t.live /\ t.res = "OK" => t.f.fptr >= (k + 1) * Bytes
  <2>1. b \in Nat /\ kb \in Nat /\ u.f.fptr >= kb /\ (k + 1) * Bytes = kb + b
        /\ (t.live /\ t.res = "OK" => t.f.fptr = u.f.fptr + b)
    BY <1>2, <1>4, <1>6
  <2> HIDE DEF b, kb
  <2> QED BY <1>4, <2>1
<1> HIDE DEF b, kb
<1> QED BY <1>2, <1>3, <1>5, <1>7 DEF Nearing

\* f_lseek's walk over the clusters.
SeekWalk(s, ofs) ==
    Loop(s, ofs \div Bytes, LAMBDA t : t.res = "OK" /\ ofs - t.f.fptr > Bytes, SeekTurn)

\* The walk ends on the cluster of its target or before a cut.
LEMMA SeekWalkKeeps ==
    ASSUME NEW s, Volume(s), s.n \in Names, s.live, s.ncl = 0, Clean(s), Stood(s),
           s.f.fptr % Bytes = 0, NEW ofs \in Nat, NEW t \in SeekWalk(s, ofs)
    PROVE  /\ Sought(s, t)
           /\ t.live => t.f.fptr % Bytes = 0
           /\ t.live /\ t.res = "OK" => ofs <= t.f.fptr + Bytes
<1> DEFINE most == ofs \div Bytes
           Goes(u) == u.live /\ (u.res = "OK" /\ ofs - u.f.fptr > Bytes)
           A == {u \in States : Sought(s, u) /\ (u.live => u.f.fptr % Bytes = 0)}
           Turn(u) == IF u.live /\ (u.res = "OK" /\ ofs - u.f.fptr > Bytes)
                      THEN SeekTurn(u) ELSE {u}
           G == [u \in A |-> Turn(u)]
           Body(g) == [k \in 0 .. most |->
                         IF k = 0 THEN {s}
                         ELSE UNION {IF u.live /\ (u.res = "OK" /\ ofs - u.f.fptr > Bytes)
                                     THEN SeekTurn(u) ELSE {u} : u \in g[k - 1]}]
           after == CHOOSE g : g = Body(g)
<1>1. SeekWalk(s, ofs) = after[most]
  BY DEF SeekWalk, Loop
<1>2. most \in Nat /\ ofs = Bytes * most + (ofs % Bytes) /\ ofs % Bytes \in Nat
      /\ ofs % Bytes < Bytes /\ Bytes \in Nat /\ Bytes > 0
  BY Constants, Divided
<1>3. s \in A
  BY SoughtSelf DEF Volume
<1>4. \A u \in A : Turn(u) \in SUBSET A
  <2> SUFFICES ASSUME NEW u \in A, NEW w \in Turn(u) PROVE w \in A
    OBVIOUS
  <2>1. CASE ~Goes(u)
    BY <2>1
  <2>2. CASE Goes(u)
    <3>1. /\ w \in SeekTurn(u) /\ u.live /\ u.res = "OK" /\ Sought(s, u)
          /\ u.f.fptr % Bytes = 0 /\ u \in States
      BY <2>2
    <3>2. u.f.fptr \in Nat /\ u.n \in Names
      BY <3>1, FileFields DEF Sought, Pen
    <3>3. u.f.fptr >= 0 * Bytes /\ 0 \in Nat
      BY SMTT(60), <1>2, <3>2
    <3>4. Nearing(s, w, 0 + 1, ofs)
      <4> HIDE DEF A, Turn, Goes, most
      <4> QED BY <3>1, <3>2, <3>3, SeekOn
    <3> QED BY <3>4 DEF Nearing, Sought, Pen, Volume
  <2> QED BY <2>1, <2>2
<1>5. G \in [A -> SUBSET A]
  BY <1>4
<1> HIDE DEF most
<1>6. PICK g \in [0 .. most -> SUBSET A] : Unrolls(g, G, s, most)
  <2> HIDE DEF A, G
  <2> QED BY <1>2, <1>3, <1>5, LoopUnrolls
<1> HIDE DEF Turn
<1>7. \A k \in 0 .. most : g[k] = IF k = 0 THEN {s} ELSE UNION {Turn(u) : u \in g[k - 1]}
  <2> TAKE k \in 0 .. most
  <2>1. g[k] = IF k = 0 THEN {s} ELSE UNION {G[u] : u \in g[k - 1]}
    BY <1>6 DEF Unrolls
  <2>2. k # 0 => g[k - 1] \in SUBSET A
    BY <1>2
  <2>3. k # 0 => UNION {G[u] : u \in g[k - 1]} = UNION {Turn(u) : u \in g[k - 1]}
    BY <2>2
  <2> QED BY <2>1, <2>3
<1>8. g = Body(g)
  BY <1>7 DEF Turn
<1>9. after = Body(after)
  BY <1>8
<1> HIDE DEF after
<1>10. \A k \in 0 .. most : after[k] = IF k = 0 THEN {s} ELSE UNION {Turn(u) : u \in after[k - 1]}
  BY <1>9 DEF Turn
<1> DEFINE Good(k) == \A u \in after[k] : u \in States /\ Nearing(s, u, k, ofs)
           S == {k \in Nat : k <= most => Good(k)}
<1>11. 0 \in S
  <2>1. after[0] = {s}
    <3>1. 0 \in 0 .. most
      BY <1>2
    <3> HIDE DEF Good, S
    <3> QED BY <1>10, <3>1, Zenon
  <2>2. s.f.fptr \in Nat /\ 0 * Bytes = 0
    BY <1>2, FileFields
  <2>3. Nearing(s, s, 0, ofs)
    BY <2>2, SoughtSelf DEF Nearing
  <2> QED BY <2>1, <2>3 DEF Volume
<1>12. ASSUME NEW k \in Nat, k \in S PROVE k + 1 \in S
  <2> SUFFICES ASSUME k + 1 <= most, NEW w \in after[k + 1]
               PROVE  w \in States /\ Nearing(s, w, k + 1, ofs)
    OBVIOUS
  <2>1. Good(k) /\ k + 1 \in 0 .. most /\ k + 1 # 0 /\ (k + 1) - 1 = k
    BY <1>2, <1>12
  <2>2. after[k + 1] = UNION {Turn(u) : u \in after[(k + 1) - 1]}
    BY <1>10, <2>1
  <2>3. PICK u \in after[k] : w \in Turn(u)
    BY <2>1, <2>2
  <2>4. u \in States /\ Nearing(s, u, k, ofs)
    BY <2>1
  <2> HIDE DEF Good, S
  <2>5. CASE ~Goes(u)
    <3>1. w = u
      BY <2>3, <2>5 DEF Turn
    <3> QED BY <2>4, <2>5, <3>1 DEF Nearing
  <2>6. CASE Goes(u)
    <3>1. w \in SeekTurn(u)
      BY <2>3, <2>6 DEF Turn
    <3>2. /\ Sought(s, u) /\ u.live /\ u.res = "OK" /\ u.f.fptr % Bytes = 0
          /\ u.f.fptr >= k * Bytes
      BY <2>4, <2>6 DEF Nearing
    <3>3. u.n \in Names
      BY <3>2 DEF Sought, Pen
    <3>4. Nearing(s, w, k + 1, ofs)
      <4> HIDE DEF Goes, A
      <4> QED BY <3>1, <3>2, <3>3, SeekOn
    <3> QED BY <3>4 DEF Nearing, Sought, Pen, Volume
  <2> QED BY <2>5, <2>6
<1>13. Good(most)
  <2> HIDE DEF Good
  <2>1. \A k \in Nat : k \in S
    <3> HIDE DEF S
    <3> QED BY <1>11, <1>12, SetOfNat
  <2> QED BY <1>2, <2>1
<1>14. Nearing(s, t, most, ofs)
  BY <1>1, <1>13
<1>15. ASSUME t.live, t.res = "OK" PROVE ofs <= t.f.fptr + Bytes
  <2> DEFINE b == Bytes
             mb == most * Bytes
  <2>1. t.f.fptr \in Nat
    BY <1>14, FileFields DEF Nearing, Sought, Pen
  <2>2. ofs - t.f.fptr > b => t.f.fptr >= mb
    BY <1>14, <1>15 DEF Nearing
  <2>3. mb = Bytes * most /\ mb \in Nat
    BY <1>2
  <2>4. ofs < mb + b /\ b \in Nat
    BY <1>2, <2>3
  <2> HIDE DEF b, mb
  <2>5. ofs <= t.f.fptr + b
    BY <2>1, <2>2, <2>3, <2>4
  <2> QED BY <2>5 DEF b
<1> QED BY <1>14, <1>15 DEF Nearing

\* Inside the cluster the handle moves to its target.
LEMMA LandKeeps ==
    ASSUME NEW s, Volume(s), s.n \in Names, NEW o, NEW i, NEW l, View(s, o, i, l), Room(s, o, i),
           s.f.fptr % Bytes = 0, NEW p \in Nat, p <= s.f.fptr + Bytes, NEW t,
           SetAt(s, t, s.f.clust, p)
    PROVE  /\ Reading(s, t) /\ View(t, o, i, l) /\ t.f.flags = s.f.flags /\ t.f.fptr = p
           /\ t.res = s.res
<1>1. s.f.clust \in Nat /\ s.f.fptr \in Nat
  BY FileFields
<1>2. /\ Reading(s, t) /\ t.f.clust = s.f.clust /\ t.f.fptr = p /\ t.f.flags = s.f.flags
      /\ t.res = s.res
  <2> DEFINE c == s.f.clust
  <2>1. c \in Nat /\ SetAt(s, t, c, p)
    BY <1>1
  <2> HIDE DEF c
  <2>2. /\ Reading(s, t) /\ t.f.clust = c /\ t.f.fptr = p /\ t.f.flags = s.f.flags
        /\ t.res = s.res
    BY <2>1, SetPosition
  <2> QED BY <2>2 DEF c
<1>3. (s.f.fptr + Bytes - 1) \div Bytes = s.f.fptr \div Bytes
  <2>1. Bytes \in Nat /\ Bytes > 0 /\ (s.f.fptr % Bytes) + Bytes <= Bytes
    BY Constants
  <2> QED BY <1>1, <2>1, InCluster
<1>4. ASSUME p > 0 PROVE (p - 1) \div Bytes <= s.f.fptr \div Bytes /\ (p - 1) \div Bytes \in Nat
  <2> DEFINE x == p - 1
             y == s.f.fptr + Bytes - 1
  <2>1. x \in Nat /\ y \in Nat /\ x <= y /\ Bytes \in Nat /\ Bytes > 0
    BY <1>1, <1>4, Constants
  <2> HIDE DEF x, y
  <2>2. x \div Bytes <= y \div Bytes /\ x \div Bytes \in Nat
    BY <2>1, DivLeq
  <2> QED BY <1>3, <2>2 DEF x, y
<1>5. Near(t, o, i)
  <2> SUFFICES ASSUME ~t.cut, "W" \in t.f.flags, "ERROR" \notin t.f.flags, t.f.fptr > 0,
                      t.f.sclust # Bad
               PROVE  /\ t.f.clust \in Clusters /\ o[t.f.clust] = t.n
                      /\ (t.f.fptr - 1) \div Bytes < i[t.f.clust]
    BY DEF Near, Placed
  <2>1. /\ s.f.clust \in Clusters /\ o[s.f.clust] = s.n /\ s.f.fptr \div Bytes < i[s.f.clust]
    BY <1>2 DEF Room, Reading, SameView
  <2>2. i[s.f.clust] \in Nat /\ s.f.fptr \div Bytes \in Nat
    BY <1>1, <2>1, NextCluster DEF View, Order, Places
  <2>3. (p - 1) \div Bytes < i[s.f.clust]
    <3> DEFINE x == (p - 1) \div Bytes
               y == s.f.fptr \div Bytes
               z == i[s.f.clust]
    <3>1. x \in Nat /\ y \in Nat /\ z \in Nat /\ x <= y /\ y < z
      BY <1>2, <1>4, <2>1, <2>2
    <3> HIDE DEF x, y, z
    <3>2. x < z
      BY <3>1
    <3> QED BY <3>2 DEF x, z
  <2> QED BY <1>2, <2>1, <2>3 DEF Reading
<1> QED BY <1>2, <1>5, ReadingView

\* What f_lseek's loop may do.
Landed(s, t, ofs) ==
    /\ Pen(s, t)
    /\ t.live => /\ t.ncl = 0 /\ t.f.fsize = s.f.fsize /\ Zeroed(t.f)
                 /\ \A flag \in {"R", "W", "WRITTEN"} : flag \in t.f.flags <=> flag \in s.f.flags
                 /\ Clean(t) /\ t.res # "FULL" /\ Chained(t)
                 /\ t.res = "OK" /\ "W" \notin s.f.flags => t.f.fptr <= ofs

\* f_lseek's loop keeps a census.
LEMMA SeekLoopKeeps ==
    ASSUME NEW s, Volume(s), s.n \in Names, s.live, s.ncl = 0, s.res = "OK", Clean(s), Stood(s),
           s.f.sclust # 0, s.f.fptr % Bytes = 0, NEW ofs \in Nat, NEW t \in SeekLoop(s, ofs)
    PROVE  Landed(s, t, ofs)
<1>1. PICK u \in SeekWalk(s, ofs) :
        t = IF ~u.live THEN u
            ELSE IF u.res = "OK" THEN [u EXCEPT !.f.fptr = ofs]
            ELSE IF u.res = "FULL" THEN [Set(u, "OK") EXCEPT !.f.fptr = @ + Bytes]
            ELSE u
  BY DEF SeekLoop, SeekWalk, Then
<1>2. /\ Sought(s, u) /\ Pen(s, u)
      /\ u.live => u.f.fptr % Bytes = 0
      /\ u.live /\ u.res = "OK" => ofs <= u.f.fptr + Bytes
  BY SeekWalkKeeps DEF Sought
<1>3. Volume(u) /\ u.n \in Names /\ u \in States /\ u.f \in Files /\ u.f.fptr \in Nat
      /\ u.f.fptr + Bytes \in Nat
  BY <1>2, FileFields, NextCluster DEF Pen, Volume
<1>4. CASE ~u.live
  BY <1>1, <1>2, <1>4 DEF Landed
<1>5. CASE u.live /\ u.res \notin {"OK", "FULL"}
  BY <1>1, <1>2, <1>5 DEF Landed, Sought, Stood, Chained, Zeroed
<1>6. ASSUME NEW m, NEW p \in Nat, u.live, Volume(m), Kept(u, m), m.ncl = u.ncl, m.res = "OK",
             u.res \in {"OK", "FULL"}, u.res = "OK" => p <= ofs,
             p <= u.f.fptr + Bytes, SetAt(m, t, m.f.clust, p)
      PROVE  Landed(s, t, ofs)
  <2>1. PICK o, i, l : View(u, o, i, l) /\ Room(u, o, i)
    BY <1>2, <1>6 DEF Sought, Stood
  <2>2. m.f = u.f /\ m.n = u.n /\ m.open = u.open /\ View(m, o, i, l) /\ m.cut = u.cut
    BY <1>6, <2>1, KeptView DEF Kept, SameFile, SameView
  <2>3. Room(m, o, i)
    BY <2>1, <2>2 DEF Room
  <2>4. m.n \in Names /\ m.f.fptr % Bytes = 0 /\ p <= m.f.fptr + Bytes
    BY <1>2, <1>3, <1>6, <2>2
  <2>5. /\ Reading(m, t) /\ View(t, o, i, l) /\ t.f.flags = m.f.flags /\ t.res = "OK"
        /\ t.f.fptr = p
    BY <1>6, <2>2, <2>3, <2>4, LandKeeps
  <2>6. t.res = "OK" /\ "W" \notin s.f.flags => t.f.fptr <= ofs
    BY <1>2, <1>6, <2>5 DEF Sought
  <2> QED BY <1>2, <1>6, <2>2, <2>5, <2>6 DEF Landed, Sought, Pen, Reading, Clean, Chained, Zeroed
<1>7. CASE u.live /\ u.res = "OK"
  <2>1. SetAt(u, t, u.f.clust, ofs)
    BY <1>1, <1>3, <1>7 DEF SetAt, States, Files
  <2>2. Kept(u, u) /\ ofs <= ofs
    BY DEF Kept, SameView, SameFile
  <2> QED BY <1>2, <1>3, <1>6, <1>7, <2>1, <2>2
<1>8. CASE u.live /\ u.res = "FULL"
  <2> DEFINE m == Set(u, "OK")
  <2>1. Volume(m) /\ Kept(u, m) /\ m.ncl = u.ncl /\ m.res = "OK"
    BY <1>3, SetVolume DEF Results
  <2>2. m.f = u.f /\ m \in States /\ m.f \in Files
    BY <1>3, <2>1 DEF Kept, SameFile, Volume
  <2>3. t = [m EXCEPT !.f.fptr = m.f.fptr + Bytes]
    BY <1>1, <1>8
  <2> HIDE DEF m
  <2>4. SetAt(m, t, m.f.clust, u.f.fptr + Bytes)
    BY <2>2, <2>3 DEF SetAt, States, Files
  <2>5. u.f.fptr + Bytes <= u.f.fptr + Bytes
    BY <1>3
  <2> QED BY <1>3, <1>6, <1>8, <2>1, <2>4, <2>5
<1> QED BY <1>1, <1>4, <1>5, <1>7, <1>8

\* A landing after a step that changes no size is a landing.
LEMMA LandedAfter ==
    ASSUME NEW s, NEW u, NEW t, NEW ofs, Pen(s, u), u.f.fsize = s.f.fsize, u.f.flags = s.f.flags,
           Landed(u, t, ofs)
    PROVE  Landed(s, t, ofs)
  BY DEF Landed, Pen

\* A seek forward starts from the cluster the handle is in.
LEMMA SeekHere ==
    ASSUME NEW s, Volume(s), s.n \in Names, s.live, s.ncl = 0, s.res = "OK", Chained(s),
           Zeroed(s.f), "ERROR" \notin s.f.flags, s.f.fptr > 0, NEW ofs \in Nat,
           NEW t \in SeekLoop([s EXCEPT !.f.fptr = ((s.f.fptr - 1) \div Bytes) * Bytes], ofs)
    PROVE  Landed(s, t, ofs)
<1> DEFINE d == (s.f.fptr - 1) \div Bytes
           here == d * Bytes
           u == [s EXCEPT !.f.fptr = here]
<1>1. PICK o, i, l : View(s, o, i, l)
  BY DEF Chained
<1>2. s \in States /\ s.f \in Files /\ s.f.fptr \in Nat /\ s.f.clust \in Nat
  BY FileFields DEF Volume
<1>3. d \in Nat
  BY <1>2, ByteBefore
<1>4. here \in Nat /\ here \div Bytes = d /\ here % Bytes = 0
  <2> DEFINE b == Bytes
  <2>1. b \in Nat /\ b > 0
    BY Constants
  <2> HIDE DEF b, d
  <2>2. b * d \in Nat /\ d * b = b * d
    BY <1>3, <2>1
  <2>3. \A y \in Nat : y < b => (b * d + y) \div b = d /\ (b * d + y) % b = y
    BY <1>3, <2>1, Division
  <2>4. (b * d + 0) \div b = d /\ (b * d + 0) % b = 0
    BY <2>1, <2>3
  <2>5. b * d + 0 = b * d
    BY <2>2
  <2> QED BY <2>2, <2>4, <2>5 DEF b
<1> HIDE DEF d, here
<1>5. SetAt(s, u, s.f.clust, here)
  BY ZenonT(60), <1>2 DEF SetAt, States, Files
<1>6. t \in SeekLoop(u, ofs)
  BY DEF here, d
<1> HIDE DEF u
<1>7. /\ Reading(s, u) /\ u.f.clust = s.f.clust /\ u.f.fptr = here /\ u.f.flags = s.f.flags
      /\ u.res = s.res /\ u.live = s.live
  <2> DEFINE c == s.f.clust
  <2>1. c \in Nat /\ here \in Nat /\ SetAt(s, u, c, here)
    BY <1>2, <1>4, <1>5
  <2> HIDE DEF c
  <2>2. /\ Reading(s, u) /\ u.f.clust = c /\ u.f.fptr = here /\ u.f.flags = s.f.flags
        /\ u.res = s.res /\ u.live
    BY <2>1, SetPosition
  <2> QED BY <2>2 DEF c
<1>8. Room(u, o, i)
  <2>1. Near(s, o, i)
    BY <1>1, ViewBounds
  <2> QED BY <1>4, <1>7, <2>1 DEF Room, Near, Placed, Reading, SameView, d
<1>9. Near(u, o, i)
  <2>1. i \in Places /\ Volume(u)
    BY <1>1, <1>7 DEF View, Order, Reading
  <2> QED BY <1>8, <2>1, RoomNear
<1>10. View(u, o, i, l)
  BY <1>1, <1>7, <1>9, ReadingView
<1>11. /\ Volume(u) /\ u.n \in Names /\ u.live /\ u.ncl = 0 /\ Clean(u) /\ Stood(u)
       /\ u.f.sclust # 0 /\ u.f.fptr % Bytes = 0 /\ Pen(s, u) /\ u.f.fsize = s.f.fsize
       /\ u.res = "OK"
  BY <1>2, <1>4, <1>7, <1>8, <1>10 DEF Reading, Clean, Stood, Zeroed, Pen
<1>12. Landed(u, t, ofs)
  BY <1>6, <1>11, SeekLoopKeeps
<1> QED BY <1>7, <1>11, <1>12, LandedAfter

\* The handle put at the start of its chain.
PutFirst(s, t, x) == t = [s EXCEPT !.f = [s.f EXCEPT !.fptr = 0, !.sclust = x, !.clust = x]]

\* Starting over from cluster x.
LEMMA SetFirst ==
    ASSUME NEW s, Volume(s), NEW x \in {0, Bad} \cup Clusters, NEW t, PutFirst(s, t, x)
    PROVE  /\ Volume(t) /\ SameView(s, t) /\ t.n = s.n /\ t.open = s.open /\ t.ncl = s.ncl
           /\ t.res = s.res /\ t.live = s.live /\ t.f.fptr = 0 /\ t.f.sclust = x
           /\ t.f.clust = x /\ t.f.fsize = s.f.fsize /\ t.f.flags = s.f.flags /\ t.cut = s.cut
<1> DEFINE f == [s.f EXCEPT !.fptr = 0, !.sclust = x, !.clust = x]
<1>1. x \in Nat
  BY Markers
<1>2. /\ f \in Files /\ f.fptr = 0 /\ f.sclust = x /\ f.clust = x /\ f.fsize = s.f.fsize
      /\ f.flags = s.f.flags
  BY <1>1, FileFields DEF Files
<1>3. t = [s EXCEPT !.f = f]
  BY DEF PutFirst
<1> HIDE DEF f
<1>4. /\ Volume(t) /\ SameView(s, t) /\ t.n = s.n /\ t.open = s.open /\ t.f = f
      /\ t.x = s.x /\ t.ncl = s.ncl /\ t.res = s.res /\ t.live = s.live /\ t.cut = s.cut
  BY <1>2, <1>3, SetFile
<1> QED BY <1>2, <1>4

\* A handle at 0 on the first cluster is in the cluster of its position.
LEMMA FirstRoom ==
    ASSUME NEW s, Volume(s), s.f.fptr = 0, s.f.sclust # 0, s.f.clust = s.f.sclust, NEW o, NEW i,
           s.f.sclust \in Clusters /\ "W" \in s.f.flags =>
               o[s.f.sclust] = s.n /\ i[s.f.sclust] = 1
    PROVE  Room(s, o, i)
<1>1. 0 \div Bytes = 0 /\ \A k : k = 1 => 0 < k
  BY Constants
<1>2. s.f.sclust \in {0, Bad} \cup Clusters
  BY FileFields
<1> QED BY <1>1, <1>2 DEF Room

\* A seek back starts from the first cluster.
LEMMA SeekFirst ==
    ASSUME NEW s, Volume(s), s.n \in Names, s.live, s.ncl = 0, Chained(s), s.res = "OK",
           "ERROR" \notin s.f.flags, s.f.sclust # 0, NEW ofs \in Nat, NEW u,
           PutFirst(s, u, s.f.sclust), NEW t \in SeekLoop(u, ofs)
    PROVE  Landed(s, t, ofs)
<1>1. PICK o, i, l : View(s, o, i, l)
  BY DEF Chained
<1>2. s.f.sclust \in {0, Bad} \cup Clusters
  BY FileFields
<1>3. /\ Volume(u) /\ SameView(s, u) /\ u.n = s.n /\ u.open = s.open /\ u.ncl = s.ncl
      /\ u.res = s.res /\ u.live = s.live /\ u.f.fptr = 0 /\ u.f.sclust = s.f.sclust
      /\ u.f.clust = s.f.sclust /\ u.f.fsize = s.f.fsize /\ u.f.flags = s.f.flags
  <2> DEFINE x == s.f.sclust
  <2>1. x \in {0, Bad} \cup Clusters /\ PutFirst(s, u, x)
    BY <1>2
  <2> HIDE DEF x
  <2>2. /\ Volume(u) /\ SameView(s, u) /\ u.n = s.n /\ u.open = s.open /\ u.ncl = s.ncl
        /\ u.res = s.res /\ u.live /\ u.f.fptr = 0 /\ u.f.sclust = x
        /\ u.f.clust = x /\ u.f.fsize = s.f.fsize /\ u.f.flags = s.f.flags
    BY <2>1, SetFirst
  <2> QED BY <2>2 DEF x
<1>4. View(u, o, i, l)
  <2>1. ~s.cut /\ "W" \in s.f.flags /\ s.f.sclust # Bad =>
          u.f.fsize <= l[s.n] * Bytes /\ Placed(s.n, u.f, o, i)
    <3>1. ~(0 > 0)
      OBVIOUS
    <3> QED BY <1>1, <1>3, <3>1, ViewBounds DEF Placed
  <2> QED BY <1>1, <1>3, <2>1, HandleKeeps
<1>5. Room(u, o, i)
  <2>1. s.f.sclust \in Clusters /\ "W" \in s.f.flags => o[s.f.sclust] = s.n /\ i[s.f.sclust] = 1
    BY <1>1, ViewBounds
  <2> QED BY <1>3, <2>1, FirstRoom
<1>6. 0 % Bytes = 0
  BY Constants
<1>7. Landed(u, t, ofs)
  BY <1>3, <1>4, <1>5, <1>6, SeekLoopKeeps DEF Clean, Stood
<1> QED BY <1>3, <1>7, LandedAfter DEF Pen

\* f_lseek starts at the first cluster: the handle, as the code sets it.
LEMMA PutFirstIs ==
    ASSUME NEW s \in States, NEW x
    PROVE  PutFirst(s, [[s EXCEPT !.f.fptr = 0] EXCEPT !.f.sclust = x, !.f.clust = x], x)
<1> DEFINE u == [s EXCEPT !.f.fptr = 0]
<1>1. s.f \in Files
  BY DEF States
<1>2. u = [s EXCEPT !.f = [s.f EXCEPT !.fptr = 0]]
  OBVIOUS
<1>3. u.f = [s.f EXCEPT !.fptr = 0]
  BY <1>2 DEF States
<1>4. [u EXCEPT !.f.sclust = x, !.f.clust = x]
      = [u EXCEPT !.f = [u.f EXCEPT !.sclust = x, !.clust = x]]
  BY <1>2, <1>3 DEF States, Files
<1>5. [u.f EXCEPT !.sclust = x, !.clust = x] = [s.f EXCEPT !.fptr = 0, !.sclust = x, !.clust = x]
  BY <1>1, <1>3 DEF Files
<1> HIDE DEF u
<1>6. [u EXCEPT !.f = [s.f EXCEPT !.fptr = 0, !.sclust = x, !.clust = x]]
      = [s EXCEPT !.f = [s.f EXCEPT !.fptr = 0, !.sclust = x, !.clust = x]]
  BY <1>2 DEF States
<1> QED BY <1>4, <1>5, <1>6 DEF PutFirst, u

\* A file without clusters stays so: the pointer at 0 of nothing.
LEMMA SeekNone ==
    ASSUME NEW s, Volume(s), s.n \in Names, s.live, s.ncl = 0, Chained(s), s.res = "OK",
           "ERROR" \notin s.f.flags, Zeroed(s.f), s.f.sclust = 0, NEW ofs \in Nat, NEW t,
           PutFirst(s, t, 0)
    PROVE  Landed(s, t, ofs)
<1>1. PICK o, i, l : View(s, o, i, l)
  BY DEF Chained
<1>2. 0 \in {0, Bad} \cup Clusters
  OBVIOUS
<1>3. /\ Volume(t) /\ SameView(s, t) /\ t.n = s.n /\ t.open = s.open /\ t.ncl = s.ncl
      /\ t.res = s.res /\ t.f.fptr = 0 /\ t.f.sclust = 0
      /\ t.f.fsize = s.f.fsize /\ t.f.flags = s.f.flags
  BY <1>2, SetFirst
<1>4. ~(0 > 0) /\ 0 <= ofs /\ s.f.fsize = 0
  BY DEF Zeroed
<1>5. View(t, o, i, l)
  <2>1. ~s.cut /\ "W" \in s.f.flags /\ s.f.sclust # Bad =>
          t.f.fsize <= l[s.n] * Bytes /\ Placed(s.n, t.f, o, i)
    BY <1>1, <1>3, <1>4, ViewBounds DEF Placed
  <2> QED BY <1>1, <1>3, <2>1, HandleKeeps
<1> QED BY <1>3, <1>4, <1>5 DEF Landed, Pen, Clean, Chained, Zeroed

\* A file that has just been given its first cluster.
LEMMA SeekNew ==
    ASSUME NEW s, Volume(s), s.n \in Names, s.live, s.ncl = 0, s.res = "OK",
           "ERROR" \notin s.f.flags, Zeroed(s.f), s.f.sclust = 0, "W" \in s.f.flags,
           NEW o, NEW i, NEW l, View(s, o, i, l), NEW x \in Clusters,
           o[x] = "none", FatSeen(s)[x] = LastLink, NEW ofs \in Nat, NEW u, PutFirst(s, u, x),
           NEW t \in SeekLoop(u, ofs)
    PROVE  Landed(s, t, ofs)
<1>1. x \in {0, Bad} \cup Clusters /\ x # 0
  BY Markers
<1>2. /\ Volume(u) /\ SameView(s, u) /\ u.n = s.n /\ u.open = s.open /\ u.ncl = s.ncl
      /\ u.res = s.res /\ u.live /\ u.f.fptr = 0 /\ u.f.sclust = x
      /\ u.f.clust = x /\ u.f.fsize = s.f.fsize /\ u.f.flags = s.f.flags
  BY <1>1, SetFirst
<1>3. u.f.fsize = 0
  BY <1>2 DEF Zeroed
<1>4. PICK o2, i2, l2 : Began(u, o2, i2, l2)
  <2>1. u.f.sclust \in Clusters => o[u.f.sclust] = "none" /\ FatSeen(s)[u.f.sclust] = LastLink
    BY <1>2
  <2>2. "W" \in u.f.flags
    BY <1>2
  <2> QED BY <1>2, <1>3, <2>1, <2>2, StartKeeps
<1>5. Room(u, o2, i2)
  <2>1. u.f.sclust \in Clusters /\ "W" \in u.f.flags =>
          o2[u.f.sclust] = u.n /\ i2[u.f.sclust] = 1
    BY <1>4 DEF Began
  <2>2. u.f.sclust # 0 /\ u.f.clust = u.f.sclust
    BY <1>1, <1>2
  <2> QED BY <1>2, <2>1, <2>2, FirstRoom
<1>6. 0 % Bytes = 0
  BY Constants
<1>7. Stood(u) /\ Clean(u)
  BY <1>2, <1>4, <1>5 DEF Stood, Began, Clean
<1>8. Landed(u, t, ofs)
  <2>1. u.n \in Names /\ u.ncl = 0 /\ u.f.sclust # 0 /\ u.f.fptr % Bytes = 0 /\ u.res = "OK"
    BY <1>1, <1>2, <1>6
  <2> QED BY <1>2, <1>7, <2>1, SeekLoopKeeps
<1> QED BY <1>2, <1>8, LandedAfter DEF Pen

\* What a handle ready for a call is.
Ready(s) ==
    /\ Volume(s) /\ s.n \in Names /\ s.live /\ s.res = "OK" /\ s.ncl = 0
    /\ "ERROR" \notin s.f.flags /\ Zeroed(s.f) /\ Chained(s)

\* A step that kept handle and census leaves the volume ready.
LEMMA SetReady ==
    ASSUME NEW s, Volume(s), s.n \in Names, s.live, s.ncl = 0, NEW g, Volume(g), g.live,
           g.f = s.f, g.n = s.n, g.open = s.open, g.ncl = 0, "ERROR" \notin s.f.flags,
           Zeroed(s.f), NEW o, NEW i, NEW l, View(g, o, i, l), NEW m, m = Set(g, "OK")
    PROVE  /\ Ready(m) /\ Pen(s, m) /\ m.f = s.f /\ View(m, o, i, l) /\ FatSeen(m) = FatSeen(g)
           /\ m \in States
<1>1. Volume(m) /\ Kept(g, m) /\ m.ncl = g.ncl /\ m.res = "OK" /\ m.live
  BY SetVolume DEF Results
<1>2. View(m, o, i, l)
  BY <1>1, KeptView
<1> QED BY <1>1, <1>2 DEF Ready, Pen, Kept, SameFile, SameView, Chained, Volume

\* f_lseek's walk from the first cluster that g has found.
SeekFrom(s, g, ofs) ==
    LET u == [Set(g, "OK") EXCEPT !.f.fptr = 0]
    IN  IF s.f.sclust = 0 /\ g.x = 1 THEN Abort(u, "INT_ERR")
        ELSE IF s.f.sclust = 0 /\ g.x = Bad THEN Abort(u, "DISK_ERR")
        ELSE LET at == [u EXCEPT !.f.sclust = g.x, !.f.clust = g.x]
             IN  IF g.x = 0 THEN {at} ELSE SeekLoop(at, ofs)

\* It starts from the cluster the file has.
LEMMA SeekFromOld ==
    ASSUME NEW s, Ready(s), s.f.sclust # 0, NEW ofs \in Nat,
           NEW g, g = [s EXCEPT !.x = s.f.sclust], NEW t \in SeekFrom(s, g, ofs)
    PROVE  Landed(s, t, ofs)
<1>1. Volume(s) /\ s.n \in Names /\ s.live /\ s.ncl = 0 /\ "ERROR" \notin s.f.flags /\ Zeroed(s.f)
  BY DEF Ready
<1>2. s.f.sclust \in Nat
  BY <1>1, FileFields
<1>3. /\ Volume(g) /\ Kept(s, g) /\ g.x = s.f.sclust /\ g.ncl = s.ncl /\ g.live
  BY <1>1, <1>2, SetX
<1>4. PICK o, i, l : View(s, o, i, l)
  BY DEF Ready, Chained
<1>5. View(g, o, i, l) /\ g.f = s.f /\ g.n = s.n /\ g.open = s.open
  BY <1>3, <1>4, KeptView DEF Kept, SameFile
<1> DEFINE m == Set(g, "OK")
           at == [[m EXCEPT !.f.fptr = 0] EXCEPT !.f.sclust = g.x, !.f.clust = g.x]
<1>6. /\ Ready(m) /\ Pen(s, m) /\ m.f = s.f /\ m \in States
  BY ZenonT(60), <1>1, <1>3, <1>5, SetReady
<1>7. t \in SeekLoop(at, ofs)
  BY <1>3 DEF SeekFrom
<1> HIDE DEF m
<1>8. PutFirst(m, at, m.f.sclust)
  BY <1>3, <1>6, PutFirstIs
<1> HIDE DEF at
<1>9. Landed(m, t, ofs)
  BY <1>6, <1>7, <1>8, SeekFirst DEF Ready
<1> QED BY <1>6, <1>9, LandedAfter

\* Or from one that was made for it.
LEMMA SeekFromNew ==
    ASSUME NEW s, Ready(s), s.f.sclust = 0, "W" \in s.f.flags, NEW ofs \in Nat,
           NEW g \in create_chain(s, 0), g.live, NEW t \in SeekFrom(s, g, ofs)
    PROVE  Landed(s, t, ofs)
<1>1. Volume(s) /\ s.n \in Names /\ s.live /\ s.ncl = 0 /\ "ERROR" \notin s.f.flags /\ Zeroed(s.f)
  BY DEF Ready
<1>2. PICK own, idx, len : View(s, own, idx, len)
  BY DEF Ready, Chained
<1>3. Stretched(s, g, 0, own, idx)
  BY <1>1, <1>2, CreateChainKeeps
<1>4. PICK o, i, l : Reaches(g, 0, own, idx, o, i, l)
  BY <1>3 DEF Stretched
<1>5. /\ Volume(g) /\ g.f = s.f /\ g.n = s.n /\ g.open = s.open /\ g.ncl = 0
      /\ g.x \in {0, Bad} \cup Clusters /\ View(g, o, i, l)
      /\ g.x \in Clusters => o[g.x] = "none" /\ FatSeen(g)[g.x] = LastLink
  BY <1>1, <1>3, <1>4 DEF Stretched, Grows, Reaches, SameFile
<1> DEFINE m == Set(g, "OK")
           u == [m EXCEPT !.f.fptr = 0]
           at == [u EXCEPT !.f.sclust = g.x, !.f.clust = g.x]
<1>6. /\ Ready(m) /\ Pen(s, m) /\ m.f = s.f /\ View(m, o, i, l) /\ FatSeen(m) = FatSeen(g)
      /\ m \in States
  BY <1>1, <1>5, SetReady
<1>7. t \in IF g.x = Bad THEN Abort(u, "DISK_ERR")
            ELSE IF g.x = 0 THEN {at} ELSE SeekLoop(at, ofs)
  BY <1>5, Markers, LinksType DEF SeekFrom
<1> HIDE DEF m
<1>8. PutFirst(m, at, g.x)
  BY <1>6, PutFirstIs
<1>9. m.f.sclust = 0 /\ m.f.fptr = 0 /\ "W" \in m.f.flags
  BY <1>1, <1>6 DEF Zeroed
<1>10. u = m
  BY <1>6, <1>9 DEF States, Files
<1> HIDE DEF u, at
<1>11. CASE g.x = Bad
  <2>1. t \in Abort(m, "DISK_ERR") /\ "DISK_ERR" \in Results
    BY <1>7, <1>10, <1>11 DEF Results
  <2>2. Volume(m) /\ m.n \in Names /\ m.live /\ m.ncl = 0 /\ Zeroed(m.f)
    BY <1>6 DEF Ready
  <2>3. Touched(m, t) /\ t.res = "DISK_ERR" /\ t.live /\ "ERROR" \in t.f.flags
    BY <2>1, <2>2, AbortKeeps
  <2>4. View(t, o, i, l)
    BY <1>6, <2>2, <2>3, TouchedView
  <2>5. Landed(m, t, ofs)
    BY <2>2, <2>3, <2>4 DEF Landed, Pen, Touched, SameHandle, Clean, Chained, Zeroed
  <2> QED BY <1>6, <2>5, LandedAfter
<1>12. CASE g.x = 0
  <2>1. t = at /\ PutFirst(m, t, 0)
    BY <1>7, <1>8, <1>12, LinksType
  <2>2. Landed(m, t, ofs)
    BY <1>6, <1>9, <2>1, SeekNone DEF Ready
  <2> QED BY <1>6, <2>2, LandedAfter
<1>13. CASE g.x \in Clusters
  <2>1. t \in SeekLoop(at, ofs)
    BY <1>7, <1>13, Markers
  <2>2. o[g.x] = "none" /\ FatSeen(m)[g.x] = LastLink
    BY <1>5, <1>6, <1>13
  <2>3. Landed(m, t, ofs)
    BY <1>6, <1>8, <1>9, <1>13, <2>1, <2>2, SeekNew DEF Ready
  <2> QED BY <1>6, <2>3, LandedAfter
<1> QED BY <1>5, <1>11, <1>12, <1>13

\* f_lseek's walk lands, wherever it starts.
LEMMA SeekStartKeeps ==
    ASSUME NEW s, Ready(s), s.f.sclust = 0 => "W" \in s.f.flags, NEW ofs \in Nat,
           NEW t \in SeekStart(s, ofs)
    PROVE  Landed(s, t, ofs)
<1> DEFINE on == s.f.fptr > 0 /\ (ofs - 1) \div Bytes >= (s.f.fptr - 1) \div Bytes
<1>1. CASE on
  <2>1. t \in SeekLoop([s EXCEPT !.f.fptr = ((s.f.fptr - 1) \div Bytes) * Bytes], ofs)
    BY <1>1 DEF SeekStart
  <2> QED BY <1>1, <2>1, SeekHere DEF Ready
<1>2. CASE ~on
  <2>1. PICK g \in (IF s.f.sclust = 0 THEN create_chain(s, 0) ELSE {[s EXCEPT !.x = s.f.sclust]}) :
          t \in IF g.live THEN SeekFrom(s, g, ofs) ELSE {g}
    BY <1>2 DEF SeekStart, Then, SeekFrom
  <2>2. CASE s.f.sclust # 0
    <3>1. g = [s EXCEPT !.x = s.f.sclust] /\ s \in States /\ s.live
      BY <2>1, <2>2 DEF Ready, Volume
    <3>2. g.live
      BY <3>1 DEF States
    <3> QED BY <2>1, <2>2, <3>1, <3>2, SeekFromOld
  <2>3. CASE s.f.sclust = 0 /\ g.live
    BY <2>1, <2>3, SeekFromNew
  <2>4. CASE s.f.sclust = 0 /\ ~g.live
    <3>1. PICK own, idx, len : View(s, own, idx, len)
      BY DEF Ready, Chained
    <3>2. Stretched(s, g, 0, own, idx)
      BY <2>1, <2>4, <3>1, CreateChainKeeps DEF Ready
    <3> QED BY <2>1, <2>4, <3>2 DEF Stretched, Grows, SameFile, Landed, Pen
  <2> QED BY <2>2, <2>3, <2>4
<1> QED BY <1>1, <1>2

\* The sector of the new position is read into the file's buffer.
Loading(s) == IF Offset(s) = 0 THEN {s}
              ELSE IF clust2sect(s.f.clust) = 0 THEN Abort(s, "INT_ERR")
              ELSE IF Sector(s) = s.f.dsect THEN {s}
              ELSE FillBuf(s, Sector(s))

\* Loading the sector of the target keeps the landing.
LEMMA LoadingKeeps ==
    ASSUME NEW s, NEW u, NEW ofs, Landed(s, u, ofs), s.n \in Names, u.live, u.res = "OK",
           NEW t \in Loading(u)
    PROVE  Landed(s, t, ofs)
<1>1. Volume(u) /\ u.n = s.n /\ u.open = s.open /\ "ERROR" \notin u.f.flags
  BY DEF Landed, Pen, Clean
<1>2. PICK o, i, l : View(u, o, i, l)
  BY DEF Landed, Chained
<1>3. ASSUME Touched(u, t),
             t.live => IF t.res = "OK" THEN "ERROR" \notin t.f.flags
                       ELSE "ERROR" \in t.f.flags /\ t.res # "FULL"
      PROVE  Landed(s, t, ofs)
  <2>1. View(t, o, i, l)
    BY <1>1, <1>2, <1>3, TouchedView
  <2>2. t.f.fptr = u.f.fptr
    BY <1>3 DEF Touched, SameHandle
  <2> QED BY <1>1, <1>3, <2>1, <2>2 DEF Landed, Pen, Touched, SameHandle, Clean, Chained, Zeroed
<1>4. CASE t = u
  BY <1>4
<1>5. CASE t \in Abort(u, "INT_ERR")
  <2>1. "INT_ERR" \in Results
    BY DEF Results
  <2>2. Touched(u, t) /\ t.res = "INT_ERR" /\ "ERROR" \in t.f.flags
    BY <1>1, <1>5, <2>1, AbortKeeps
  <2> QED BY <1>3, <2>2
<1>6. CASE clust2sect(u.f.clust) # 0 /\ t \in FillBuf(u, Sector(u))
  <2>1. u.f.clust \in Clusters
    BY <1>6, ClusterSector
  <2>2. 0 \in Nat /\ CSect(u) + 0 < CSize
    BY <1>1, CSectRange, Constants
  <2>3. Sector(u) + 0 \in DataSectors /\ Sector(u) \in Nat
    BY <1>1, <2>1, <2>2, SectorOfFile
  <2>4. Sector(u) \in DataSectors
    BY <2>3
  <2>5. /\ Touched(u, t)
        /\ t.live => (t.res # "OK" => "ERROR" \in t.f.flags /\ t.res = "DISK_ERR")
        /\ t.live /\ t.res = "OK" => ("ERROR" \in t.f.flags <=> "ERROR" \in u.f.flags)
    BY <1>1, <1>6, <2>4, FillBufKeeps
  <2> QED BY <1>1, <1>3, <2>5
<1> QED BY <1>4, <1>5, <1>6 DEF Loading

\* A seek to 0 moves the position only.
LEMMA SeekBack ==
    ASSUME NEW s, Ready(s), NEW t, SetAt(s, t, s.f.clust, 0)
    PROVE  Landed(s, t, 0)
<1>1. PICK o, i, l : View(s, o, i, l)
  BY DEF Ready, Chained
<1>2. Volume(s) /\ s \in States /\ s.f \in Files /\ s.f.clust \in Nat
  BY FileFields DEF Ready, Volume
<1>4. /\ Reading(s, t) /\ t.f.fptr = 0 /\ t.f.flags = s.f.flags /\ t.res = s.res
  BY <1>2, SetPosition
<1>5. Near(t, o, i)
  BY <1>4 DEF Near, Placed
<1>6. View(t, o, i, l)
  BY <1>1, <1>2, <1>4, <1>5, ReadingView DEF Ready
<1> QED BY <1>4, <1>6 DEF Landed, Pen, Ready, Reading, Clean, Chained, Zeroed

\* The two assignments after the walk, as one handle.
LEMMA GrownIs ==
    ASSUME NEW s \in States, s.f.fptr > s.f.fsize
    PROVE  [Grown(s) EXCEPT !.f.flags = @ \cup {"WRITTEN"}] = [s EXCEPT !.f = GrownTo(s)]
  BY DEF Grown, GrownTo, States, Files

\* f_lseek's size after the walk.
Extended(s) == IF s.f.fptr > s.f.fsize THEN [Grown(s) EXCEPT !.f.flags = @ \cup {"WRITTEN"}]
               ELSE s

\* A file extended to a target that was reached fits into its clusters.
LEMMA ExtendedKeeps ==
    ASSUME NEW s, Ready(s), FileOK(s.f), NEW ofs \in Nat, "W" \notin s.f.flags => ofs <= s.f.fsize,
           NEW u, Landed(s, u, ofs), NEW t, t = IF u.live /\ u.res = "OK" THEN Extended(u) ELSE u
    PROVE  Settled(s, t)
<1>1. Volume(u) /\ u.n = s.n /\ u.open = s.open /\ s.n \in Names
  BY DEF Landed, Pen, Ready
<1>2. u \in States /\ u.f.fptr \in Nat /\ u.f.fsize \in Nat
  BY <1>1, FileFields DEF Volume
<1>3. CASE ~u.live
  BY <1>1, <1>3 DEF Settled, Pen
<1>4. CASE u.live /\ u.res # "OK"
  BY <1>1, <1>4 DEF Settled, Pen, Landed, FileOK, Clean
<1>5. CASE u.live /\ u.res = "OK" /\ ~(u.f.fptr > u.f.fsize)
  BY <1>1, <1>2, <1>5 DEF Settled, Pen, Landed, FileOK, Extended
<1>6. CASE u.live /\ u.res = "OK" /\ u.f.fptr > u.f.fsize
  <2>1. "W" \in s.f.flags
    BY <1>2, <1>6 DEF Landed
  <2>2. /\ Volume(u) /\ u.n \in Names /\ u.ncl = 0 /\ "W" \in u.f.flags
        /\ "ERROR" \notin u.f.flags /\ Zeroed(u.f) /\ Chained(u)
    BY <1>1, <1>6, <2>1 DEF Landed, Clean
  <2>3. t = [u EXCEPT !.f = GrownTo(u)]
    BY <1>2, <1>6, GrownIs DEF Extended
  <2>4. Settled(u, t)
    BY <2>2, <2>3, GrownKeeps
  <2> QED BY <1>1, <2>4 DEF Settled, Pen
<1> QED BY <1>3, <1>4, <1>5, <1>6

\* f_lseek settles, whatever fails in it.
LEMMA SeekKeeps ==
    ASSUME NEW s, Volume(s), s.n \in Names, s.live, s.res = "OK", s.ncl = 0, FileOK(s.f),
           Chained(s), NEW target \in Nat, NEW t \in f_lseek(s, target)
    PROVE  Settled(s, t)
<1> DEFINE ofs == IF target > s.f.fsize /\ ~CanWrite(s) THEN s.f.fsize ELSE target
<1>1. s.f.fsize \in Nat /\ ofs \in Nat /\ ("W" \notin s.f.flags => ofs <= s.f.fsize)
  BY FileFields DEF CanWrite
<1>2. CASE "ERROR" \in s.f.flags
  <2>1. t = Set(s, "INT_ERR") /\ "INT_ERR" \in Results
    BY <1>2 DEF f_lseek, Results
  <2>2. Volume(t) /\ Kept(s, t) /\ t.ncl = s.ncl
    BY <2>1, SetVolume
  <2> QED BY <2>2, SettledSame
<1>3. CASE "ERROR" \notin s.f.flags
  <2>1. Ready(s)
    BY <1>3 DEF Ready, FileOK
  <2>2. PICK u \in (IF ofs = 0 THEN {[s EXCEPT !.f.fptr = 0]} ELSE SeekStart(s, ofs)) :
          \E w \in (IF u.live /\ u.res = "OK" THEN Loading(u) ELSE {u}) :
             t = IF w.live /\ w.res = "OK" THEN Extended(w) ELSE w
    BY <1>3 DEF f_lseek, IfOk, Then, Loading, Extended
  <2>3. PICK w \in (IF u.live /\ u.res = "OK" THEN Loading(u) ELSE {u}) :
             t = IF w.live /\ w.res = "OK" THEN Extended(w) ELSE w
    BY <2>2
  <2>4. Landed(s, u, ofs)
    <3>1. CASE ofs = 0
      <4>1. u = [s EXCEPT !.f.fptr = 0]
        BY <2>2, <3>1
      <4>2. s \in States /\ s.f \in Files
        BY FileFields DEF Volume
      <4>3. SetAt(s, u, s.f.clust, 0)
        BY <4>1, <4>2 DEF SetAt, States, Files
      <4> QED BY <2>1, <3>1, <4>3, SeekBack
    <3>2. CASE ofs # 0
      <4>1. s.f.sclust = 0 => "W" \in s.f.flags
        BY <1>1, <3>2 DEF FileOK, Zeroed
      <4> QED BY <1>1, <2>1, <2>2, <3>2, <4>1, SeekStartKeeps
    <3> QED BY <3>1, <3>2
  <2> HIDE DEF ofs
  <2>5. Landed(s, w, ofs)
    BY <2>3, <2>4, LoadingKeeps
  <2> QED BY <1>1, <2>1, <2>3, <2>5, ExtendedKeeps
<1> QED BY <1>2, <1>3

-----------------------------------------------------------------------------
(* The directory, opening and closing. *)

\* An entry changed in the window.
EntrySet(s, t, ent) == t = [s EXCEPT !.win = [s.win EXCEPT ![s.n] = ent], !.wflag = TRUE]

\* Changing the entry of the file at work in the window changes the directory seen.
LEMMA SetEntry ==
    ASSUME NEW s, Volume(s), s.winsect = DirSector, s.n \in Names, NEW ent \in Entries,
           Tidy(FatSeen(s), [DirSeen(s) EXCEPT ![s.n] = ent], ~s.cut),
           NEW t, EntrySet(s, t, ent)
    PROVE  /\ Volume(t) /\ SameFile(s, t) /\ FatSeen(t) = FatSeen(s)
           /\ DirSeen(t) = [DirSeen(s) EXCEPT ![s.n] = ent] /\ t.cut = s.cut
           /\ t.ncl = s.ncl /\ t.x = s.x /\ t.res = s.res /\ t.live = s.live
           /\ t.winsect = DirSector
<1> DEFINE w == [s.win EXCEPT ![s.n] = ent]
<1>1. s \in States /\ WindowOK(s) /\ DirSector \in Sectors /\ DirSector # 0
  BY SectorKinds DEF Volume
<1>2. s.win \in [Names -> Entries] /\ DirSeen(s) = s.win
  BY <1>1 DEF WindowOK, Content, DirSeen
<1>3. w \in [Names -> Entries] /\ w \in Content(DirSector)
  BY <1>1, <1>2 DEF Content
<1>4. w \in Contents
  BY <1>1, <1>3 DEF Contents
<1>5. t = [s EXCEPT !.win = w, !.wflag = TRUE]
  BY DEF EntrySet
<1>6. w = [DirSeen(s) EXCEPT ![s.n] = ent]
  BY <1>2
<1> HIDE DEF w
<1>7. t \in States
  BY <1>1, <1>4, <1>5 DEF States
<1>8. /\ t.win = w /\ t.wflag /\ t.card = s.card /\ t.winsect = DirSector /\ t.cut = s.cut
  BY <1>1, <1>5 DEF States
<1>9. /\ t.f = s.f /\ t.n = s.n /\ t.open = s.open /\ t.ncl = s.ncl /\ t.x = s.x
  BY <1>1, <1>5 DEF States
<1>10. t.res = s.res /\ t.live = s.live
  BY <1>1, <1>5 DEF States
<1>11. WindowOK(t)
  BY <1>1, <1>3, <1>8 DEF WindowOK
<1>12. DirSeen(t) = w /\ FatOf(t) = FatOf(s)
  BY <1>8 DEF DirSeen, FatOf
<1>13. FatSeen(t) = FatSeen(s)
  <2>1. \A c \in Clusters : FatSector(c) # DirSector
    BY SectorKinds
  <2> QED BY <1>8, <2>1 DEF FatSeen
<1>14. CardSound(t)
  BY <1>8, <1>12 DEF CardSound, Volume
<1>15. SeenSound(t)
  BY <1>6, <1>8, <1>12, <1>13 DEF SeenSound
<1> QED BY <1>6, <1>7, <1>8, <1>9, <1>10, <1>11, <1>12, <1>13, <1>14, <1>15 DEF Volume, SameFile

\* The file at work is closed, or not open for writing; its entry's chain x, if it has one,
\* is no longer in the directory.
Orphan(s, x) ==
    \E own, idx, len :
       Order(FatSeen(s), DirSeen(s), [HeldBy(s) EXCEPT ![s.n] = [sclust |-> x, size |-> 0]],
             Handled(s), s.cut, own, idx, len)

\* No handle writes the file at work.
Shut(s) == Volume(s) /\ s.n \in Names /\ "W" \notin s.f.flags

\* A chain that no entry names may be forgotten: its clusters are lost, nothing else.
LEMMA OrphanForgotten ==
    ASSUME NEW s, Shut(s), NEW x \in {-1, 0, Bad} \cup Clusters, Orphan(s, x)
    PROVE  Chained(s)
<1> DEFINE held == [HeldBy(s) EXCEPT ![s.n] = [sclust |-> x, size |-> 0]]
<1>1. PICK own, idx, len :
        Order(FatSeen(s), DirSeen(s), held, Handled(s), s.cut, own, idx, len)
  BY DEF Orphan
<1>2. /\ Volume(s) /\ s.n \in Names /\ FatSeen(s) \in Fats /\ DirSeen(s) \in Dirs
      /\ Handled(s) \in Handles /\ HeldBy(s) \in Maps
  BY ViewTypes DEF Shut
<1>3. /\ Handled(s)[s.n] = s.f /\ HeldBy(s)[s.n] = DirSeen(s)[s.n]
  BY <1>2, HandledIs DEF Shut
<1>4. held \in Maps
  BY <1>2 DEF Maps
<1>5. \A m \in Names \ {s.n} : HeldBy(s)[m] = held[m] /\ Handled(s)[m] = Handled(s)[m]
  BY <1>2 DEF Maps
<1>6. "W" \notin Handled(s)[s.n].flags
  BY <1>3 DEF Shut
<1> HIDE DEF held
<1> QED BY <1>1, <1>2, <1>3, <1>4, <1>5, <1>6, ForgetKeeps DEF Chained, View

\* Truncation's first step, the entry without a start, orphans the old chain.
LEMMA EmptyKeeps ==
    ASSUME NEW s, Shut(s), s.winsect = DirSector, Chained(s), NEW t, EntrySet(s, t, Empty)
    PROVE  /\ Shut(t) /\ SameFile(s, t) /\ t.ncl = s.ncl /\ t.winsect = DirSector
           /\ DirSeen(t)[s.n] = Empty /\ Orphan(t, DirSeen(s)[s.n].sclust) /\ Chained(t)
           /\ t.res = s.res /\ t.live = s.live
<1> DEFINE x == DirSeen(s)[s.n].sclust
           held == [HeldBy(s) EXCEPT ![s.n] = [sclust |-> x, size |-> 0]]
           dir == [DirSeen(s) EXCEPT ![s.n] = Empty]
<1>1. /\ Volume(s) /\ s.n \in Names /\ FatSeen(s) \in Fats /\ DirSeen(s) \in Dirs
      /\ Handled(s) \in Handles /\ HeldBy(s) \in Maps
  BY ViewTypes DEF Shut
<1>2. /\ Handled(s)[s.n] = s.f /\ HeldBy(s)[s.n] = DirSeen(s)[s.n]
  BY <1>1, HandledIs DEF Shut
<1>3. Empty \in Entries /\ Empty.sclust = 0 /\ 0 \notin Clusters
  BY Markers DEF Entries, Empty
<1>4. DirSeen(s)[s.n] \in Entries
  BY <1>1 DEF Dirs
<1>5. x \in {-1, 0, Bad} \cup Clusters
  BY <1>4 DEF Entries, Empty, NoEntry
<1>6. held \in Maps /\ dir \in Dirs
  BY <1>1, <1>3, <1>5 DEF Maps, Dirs
<1>7. PICK own, idx, len : View(s, own, idx, len)
  BY DEF Chained
<1>8. Order(FatSeen(s), dir, held, Handled(s), s.cut, own, idx, len)
  <2>1. Order(FatSeen(s), DirSeen(s), HeldBy(s), Handled(s), s.cut, own, idx, len)
    BY <1>7 DEF View
  <2>2. \A m \in Names \ {s.n} : /\ dir[m] = DirSeen(s)[m] /\ held[m] = HeldBy(s)[m]
                                 /\ Handled(s)[m] = Handled(s)[m]
    BY <1>1 DEF Dirs, Maps
  <2>3. dir[s.n] = Empty /\ held[s.n] = [sclust |-> x, size |-> 0]
    BY <1>1 DEF Dirs, Maps
  <2>4. held[s.n].sclust = HeldBy(s)[s.n].sclust
    BY <1>2, <2>3
  <2>5. 0 <= len[s.n] * Bytes
    <3>1. len[s.n] \in Nat /\ Bytes \in Nat
      BY <1>1, <2>1, Constants DEF Order, Lengths
    <3> QED BY <3>1
  <2>6. ~s.cut => /\ held[s.n].sclust # Bad => held[s.n].size <= len[s.n] * Bytes
                  /\ dir[s.n].sclust \in Clusters => dir[s.n].size <= len[s.n] * Bytes
                  /\ Placed(s.n, Handled(s)[s.n], own, idx)
    BY <1>2, <1>3, <2>3, <2>5 DEF Placed, Shut
  <2>7. dir[s.n].sclust \in Clusters => dir[s.n].sclust = HeldBy(s)[s.n].sclust
    BY <1>3, <2>3
  <2> HIDE DEF dir, held, x
  <2> QED BY <1>1, <2>1, <2>2, <2>4, <2>6, <2>7, UpdateKeeps
<1>9. Tidy(FatSeen(s), dir, ~s.cut)
  <2> HIDE DEF dir, held
  <2> QED BY <1>1, <1>6, <1>8, OrderTidy
<1>10. /\ Volume(t) /\ SameFile(s, t) /\ FatSeen(t) = FatSeen(s)
       /\ DirSeen(t) = dir /\ t.cut = s.cut
       /\ t.ncl = s.ncl /\ t.res = s.res /\ t.live = s.live
       /\ t.winsect = DirSector
  BY <1>1, <1>3, <1>9, SetEntry
<1>11. Shut(t) /\ Handled(t) = Handled(s) /\ t.n = s.n
  BY <1>10 DEF Shut, SameFile, Handled
<1>12. [HeldBy(t) EXCEPT ![t.n] = [sclust |-> x, size |-> 0]] = held
  <2>1. \A m \in Names \ {s.n} : HeldBy(t)[m] = HeldBy(s)[m]
    BY <1>10, <1>11 DEF HeldBy, FilesHeld, Dirs
  <2>2. HeldBy(t) \in Maps
    BY <1>10, ViewTypes
  <2> QED BY <1>1, <1>11, <2>1, <2>2 DEF Maps
<1>13. Orphan(t, x)
  <2> HIDE DEF x, held, dir
  <2> QED BY <1>8, <1>10, <1>11, <1>12 DEF Orphan
<1>14. Chained(t)
  <2> HIDE DEF x, held, dir
  <2> QED BY <1>5, <1>11, <1>13, OrphanForgotten
<1>15. DirSeen(t)[s.n] = Empty
  BY <1>1, <1>10 DEF Dirs
<1> QED BY <1>10, <1>11, <1>13, <1>14, <1>15

-----------------------------------------------------------------------------
(* Freeing a chain that no entry starts any more. *)
\* Freeing changes no entry, no handle.
Undone(s, t) ==
    /\ Shut(t) /\ SameFile(s, t) /\ DirSeen(t) = DirSeen(s) /\ t.ncl = s.ncl /\ t.winsect # 0

\* Some chain is still loose; while the loop goes on it is the one from x.
Freeing(s, t) ==
    /\ Undone(s, t)
    /\ t.live => \E y \in {-1, 0, Bad} \cup Clusters :
                    Orphan(t, y) /\ (t.res = "OK" /\ t.x \in Clusters => y = t.x)

\* A step nobody can tell keeps the orphan.
LEMMA OrphanKept ==
    ASSUME NEW s, NEW t, Kept(s, t), NEW x, Orphan(s, x)
    PROVE  Orphan(t, x)
<1>1. Handled(t) = Handled(s) /\ HeldBy(t) = HeldBy(s)
  BY SameHeld DEF Kept, SameView
<1> QED BY <1>1 DEF Orphan, Kept, SameView, SameFile

\* After the chain is freed, a step the directory cannot tell changes nothing.
LEMMA UndoneSame ==
    ASSUME NEW s, NEW u, NEW t, Undone(s, u), Volume(t), SameFile(u, t),
           DirSeen(t) = DirSeen(u), t.ncl = u.ncl, t.winsect # 0
    PROVE  Undone(s, t)
  BY DEF Undone, Shut, SameFile

\* One cluster of the loose chain is freed.
LEMMA FreeOne ==
    ASSUME NEW s, Shut(s), s.winsect # 0, NEW x \in Clusters, Orphan(s, x),
           DirSeen(s)[s.n].sclust \notin Clusters, NEW t \in put_fat(s, x, 0)
    PROVE  /\ Linked(s, t, x, 0)
           /\ IF t.live /\ t.res = "OK"
              THEN Orphan(t, IF FatSeen(s)[x] \in Clusters THEN FatSeen(s)[x] ELSE 0)
              ELSE Orphan(t, x)
<1> DEFINE tab == FatSeen(s)
           held == [HeldBy(s) EXCEPT ![s.n] = [sclust |-> x, size |-> 0]]
           y == IF tab[x] \in Clusters THEN tab[x] ELSE 0
           held2 == [HeldBy(s) EXCEPT ![s.n] = [sclust |-> y, size |-> 0]]
<1>1. /\ Volume(s) /\ s.n \in Names /\ FatSeen(s) \in Fats /\ DirSeen(s) \in Dirs
      /\ Handled(s) \in Handles /\ HeldBy(s) \in Maps
  BY ViewTypes DEF Shut
<1>2. PICK own, idx, len :
        Order(tab, DirSeen(s), held, Handled(s), s.cut, own, idx, len)
  BY DEF Orphan
<1>3. held \in Maps /\ 0 \in Links
  BY <1>1 DEF Maps, Links
<1>4. "W" \notin Handled(s)[s.n].flags
  BY <1>1, HandledIs DEF Shut
<1>5. /\ held[s.n].sclust = x /\ held2[s.n] = [sclust |-> y, size |-> 0]
      /\ \A m \in Names \ {s.n} : held2[m] = held[m]
  BY <1>1 DEF Maps
<1>6. held2[s.n] = [sclust |-> IF tab[x] \in Clusters THEN tab[x] ELSE 0, size |-> 0]
  BY <1>5
<1>7. PICK o, i, l :
        Order([tab EXCEPT ![x] = 0], DirSeen(s), held2, Handled(s), s.cut, o, i, l)
  <2> HIDE DEF held, held2, y, tab
  <2>1. tab \in Fats
    BY <1>1 DEF tab
  <2> QED BY <1>1, <1>2, <1>3, <1>4, <1>5, <1>6, <2>1, FreeKeeps
<1>8. held2 \in Maps /\ [tab EXCEPT ![x] = 0] \in Fats
  BY <1>1, <1>3 DEF Maps, Fats
<1>9. Tidy([tab EXCEPT ![x] = 0], DirSeen(s), ~s.cut)
  <2> HIDE DEF held2, y
  <2> QED BY <1>1, <1>7, <1>8, OrderTidy
<1>10. Linked(s, t, x, 0)
  BY <1>1, <1>3, <1>9, PutFat
<1>11. /\ DirSeen(t) = DirSeen(s) /\ t.cut = s.cut /\ Handled(t) = Handled(s)
       /\ HeldBy(t) = HeldBy(s) /\ t.n = s.n
       /\ FatSeen(t) = IF t.live /\ t.res = "OK" THEN [tab EXCEPT ![x] = 0] ELSE tab
  BY <1>10, SameHeld DEF Linked, SameFile
<1>12. CASE t.live /\ t.res = "OK"
  <2>1. Order(FatSeen(t), DirSeen(t), [HeldBy(t) EXCEPT ![t.n] = [sclust |-> y, size |-> 0]],
              Handled(t), t.cut, o, i, l)
    BY <1>7, <1>11, <1>12
  <2>2. Orphan(t, y)
    <3> HIDE DEF y
    <3> QED BY <2>1 DEF Orphan
  <2> QED BY <1>10, <1>12, <2>2
<1>13. CASE ~(t.live /\ t.res = "OK")
  <2>1. Orphan(t, x)
    BY <1>2, <1>11, <1>13 DEF Orphan
  <2> QED BY <1>10, <1>13, <2>1
<1> QED BY <1>12, <1>13

\* A turn of remove_chain frees the head of the orphan and keeps the rest one.
LEMMA FreeNextKeeps ==
    ASSUME NEW s, Shut(s), s.winsect # 0, s.live, s.x \in Clusters, Orphan(s, s.x),
           DirSeen(s)[s.n].sclust \notin Clusters, NEW t \in FreeNext(s)
    PROVE  Freeing(s, t)
<1>1. Volume(s) /\ s.n \in Names
  BY DEF Shut
<1>2. PICK g \in get_fat(s, s.x) :
        t \in IF g.live
              THEN IF g.x = 0 THEN {Set(g, "OK")}
                   ELSE IF g.x = 1 THEN {Set(g, "INT_ERR")}
                   ELSE IF g.x = Bad THEN {Set(g, "DISK_ERR")}
                   ELSE IfOk(put_fat(g, s.x, 0), LAMBDA u : {Counted(u, 1)})
              ELSE {g}
  BY DEF FreeNext, Then
<1>3. Fetched(s, g, s.x)
  BY <1>1, <1>2, GetFat
<1>4. /\ Volume(g) /\ Kept(s, g) /\ g.ncl = s.ncl /\ g.winsect # 0 /\ Undone(s, g) /\ Shut(g)
      /\ g.f = s.f /\ g.n = s.n /\ DirSeen(g) = DirSeen(s)
  BY <1>1, <1>3 DEF Fetched, Undone, Shut, Kept, SameView, SameFile
<1>5. Orphan(g, s.x)
  BY <1>4, OrphanKept
<1>6. s.x \in {-1, 0, Bad} \cup Clusters
  OBVIOUS
<1>7. CASE ~g.live
  BY <1>2, <1>4, <1>7 DEF Freeing
<1>8. ASSUME NEW r \in Results, t = Set(g, r), r = "OK" => g.x = 0
      PROVE  Freeing(s, t)
  <2>1. Volume(t) /\ Kept(g, t) /\ SameWindow(g, t) /\ t.ncl = g.ncl /\ t.res = r /\ t.x = g.x
    BY <1>4, <1>8, SetVolume
  <2>2. Undone(s, t)
    BY <1>4, <2>1, UndoneSame DEF Kept, SameView, SameWindow
  <2>3. Orphan(t, s.x)
    BY <1>5, <2>1, OrphanKept
  <2>4. t.res = "OK" => t.x \notin Clusters
    BY <1>8, <2>1, Markers
  <2> QED BY <1>6, <2>2, <2>3, <2>4 DEF Freeing
<1>9. CASE g.live /\ g.x \in {0, 1, Bad}
  <2>1. {"OK", "INT_ERR", "DISK_ERR"} \subseteq Results
    BY DEF Results
  <2> QED BY <1>2, <1>8, <1>9, <2>1
<1>10. CASE g.live /\ g.x \notin {0, 1, Bad}
  <2>1. g.x = FatSeen(s)[s.x] /\ FatSeen(g) = FatSeen(s)
    BY <1>3, <1>4, <1>10 DEF Fetched, Kept, SameView
  <2>2. PICK p \in put_fat(g, s.x, 0) :
          t = IF p.live /\ p.res = "OK" THEN Counted(p, 1) ELSE p
    BY <1>2, <1>10 DEF IfOk, Then
  <2>3. /\ Linked(g, p, s.x, 0)
        /\ IF p.live /\ p.res = "OK"
           THEN Orphan(p, IF FatSeen(g)[s.x] \in Clusters THEN FatSeen(g)[s.x] ELSE 0)
           ELSE Orphan(p, s.x)
    BY <1>4, <1>5, <2>2, FreeOne
  <2>4. Undone(s, p) /\ Volume(p) /\ p.x = g.x /\ p.winsect # 0
    BY <1>4, <2>3, UndoneSame DEF Linked
  <2>5. CASE ~(p.live /\ p.res = "OK")
    BY <1>6, <2>2, <2>3, <2>4, <2>5 DEF Freeing
  <2>6. CASE p.live /\ p.res = "OK"
    <3> DEFINE y == IF g.x \in Clusters THEN g.x ELSE 0
    <3>1. t = Counted(p, 1) /\ Orphan(p, y) /\ 1 \in {1, -1}
      BY <2>1, <2>2, <2>3, <2>6
    <3>2. /\ Volume(t) /\ Kept(p, t) /\ SameWindow(p, t) /\ t.x = p.x /\ t.ncl = p.ncl
      BY <2>4, <3>1, CountedKeeps
    <3>3. Undone(s, t)
      BY <2>4, <3>2, UndoneSame DEF Kept, SameView, SameWindow
    <3>4. Orphan(t, y)
      BY <3>1, <3>2, OrphanKept
    <3>5. y \in {-1, 0, Bad} \cup Clusters /\ (t.x \in Clusters => y = t.x)
      BY <2>4, <3>2
    <3> HIDE DEF y
    <3> QED BY <3>3, <3>4, <3>5 DEF Freeing
  <2> QED BY <2>5, <2>6
<1> QED BY <1>7, <1>9, <1>10

\* remove_chain's loop.
FreeWalk(s) ==
    Loop(s, NFatEnt, LAMBDA t : t.res = "OK" /\ t.x \in Clusters, FreeNext)

\* The loop keeps an orphan to its end.
LEMMA FreeWalkKeeps ==
    ASSUME NEW s, Shut(s), s.winsect # 0, s.live, s.x \in Clusters, Orphan(s, s.x),
           DirSeen(s)[s.n].sclust \notin Clusters, NEW t \in FreeWalk(s)
    PROVE  Freeing(s, t)
<1> DEFINE most == NFatEnt
           Goes(u) == u.live /\ (u.res = "OK" /\ u.x \in Clusters)
           A == {u \in States : Freeing(s, u)}
           Turn(u) == IF u.live /\ (u.res = "OK" /\ u.x \in Clusters) THEN FreeNext(u) ELSE {u}
           G == [u \in A |-> Turn(u)]
           Body(g) == [k \in 0 .. most |->
                         IF k = 0 THEN {s}
                         ELSE UNION {IF u.live /\ (u.res = "OK" /\ u.x \in Clusters)
                                     THEN FreeNext(u) ELSE {u} : u \in g[k - 1]}]
           after == CHOOSE g : g = Body(g)
<1>1. FreeWalk(s) = after[most]
  BY DEF FreeWalk, Loop
<1>2. most \in Nat
  BY Constants
<1>3. s \in A
  BY DEF Freeing, Undone, Shut, SameFile, Volume
<1>4. \A u \in A : Turn(u) \in SUBSET A
  <2> SUFFICES ASSUME NEW u \in A, NEW w \in Turn(u) PROVE w \in A
    OBVIOUS
  <2>1. CASE ~Goes(u)
    BY <2>1
  <2>2. CASE Goes(u)
    <3>1. /\ Undone(s, u) /\ Shut(u) /\ u.winsect # 0 /\ u.live /\ u.x \in Clusters
          /\ w \in FreeNext(u) /\ u.n = s.n
      BY <2>2 DEF Freeing, Undone, SameFile
    <3>2. Orphan(u, u.x)
      BY <2>2 DEF Freeing
    <3>3. DirSeen(u)[u.n].sclust \notin Clusters
      BY <3>1 DEF Undone
    <3> HIDE DEF A, Turn, Goes
    <3>4. Freeing(u, w)
      BY <3>1, <3>2, <3>3, FreeNextKeeps
    <3>5. Undone(s, w) /\ Freeing(s, w) /\ w \in States
      BY <3>1, <3>4 DEF Freeing, Undone, Shut, SameFile, Volume
    <3> QED BY <3>5 DEF A
  <2> QED BY <2>1, <2>2
<1>5. G \in [A -> SUBSET A]
  BY <1>4
<1> HIDE DEF most
<1>6. PICK g \in [0 .. most -> SUBSET A] : Unrolls(g, G, s, most)
  <2> HIDE DEF A, G
  <2> QED BY <1>2, <1>3, <1>5, LoopUnrolls
<1> HIDE DEF Turn
<1>7. \A k \in 0 .. most : g[k] = IF k = 0 THEN {s} ELSE UNION {Turn(u) : u \in g[k - 1]}
  <2> TAKE k \in 0 .. most
  <2>1. g[k] = IF k = 0 THEN {s} ELSE UNION {G[u] : u \in g[k - 1]}
    BY <1>6 DEF Unrolls
  <2>2. k # 0 => g[k - 1] \in SUBSET A
    BY <1>2
  <2>3. k # 0 => UNION {G[u] : u \in g[k - 1]} = UNION {Turn(u) : u \in g[k - 1]}
    BY <2>2
  <2> QED BY <2>1, <2>3
<1>8. g = Body(g)
  BY <1>7 DEF Turn
<1>9. after = Body(after)
  BY <1>8
<1> HIDE DEF after
<1>10. \A k \in 0 .. most : after[k] = IF k = 0 THEN {s} ELSE UNION {Turn(u) : u \in after[k - 1]}
  BY <1>9 DEF Turn
<1>11. after[most] \in SUBSET A
  <2> DEFINE Q == SUBSET A
  <2>1. 0 \in 0 .. most /\ most \in 0 .. most
    BY <1>2
  <2>2. after[0] \in Q
    <3>1. after[0] = {s}
      BY <1>10, <2>1, Zenon
    <3> QED BY <1>3, <3>1
  <2>3. \A k \in 1 .. most : after[k - 1] \in Q => after[k] \in Q
    <3> SUFFICES ASSUME NEW k \in 1 .. most, after[k - 1] \in SUBSET A, NEW w \in after[k]
                 PROVE  w \in A
      OBVIOUS
    <3>1. k \in 0 .. most /\ k # 0
      BY <1>2
    <3>2. after[k] = UNION {Turn(u) : u \in after[k - 1]}
      BY <1>10, <3>1
    <3>3. PICK u \in after[k - 1] : w \in Turn(u)
      BY <3>2
    <3> QED BY <1>4, <3>3
  <2> HIDE DEF Q, A
  <2>4. \A k \in 0 .. most : after[k] \in Q
    BY <1>2, <2>2, <2>3, IterationStays
  <2> QED BY <2>1, <2>4 DEF Q

<1> QED BY <1>1, <1>11

\* remove_chain keeps a census of the rest, wherever it stops.
LEMMA RemoveKeeps ==
    ASSUME NEW s, Shut(s), s.winsect # 0, s.live, NEW c \in {-1, 0, Bad} \cup Clusters,
           Orphan(s, c), DirSeen(s)[s.n].sclust \notin Clusters, NEW t \in remove_chain(s, c)
    PROVE  Undone(s, t) /\ (t.live => Chained(t)) /\ (c \notin Clusters => t.res = "INT_ERR")
<1>1. Volume(s) /\ s.n \in Names /\ {"OK", "INT_ERR"} \subseteq Results
  BY DEF Shut, Results
<1>2. CASE c \notin Clusters
  <2>1. t = Set(s, "INT_ERR")
    BY <1>2 DEF remove_chain
  <2>2. /\ Volume(t) /\ Kept(s, t) /\ SameWindow(s, t) /\ t.ncl = s.ncl /\ t.res = "INT_ERR"
    BY <1>1, <2>1, SetVolume
  <2>3. Undone(s, t) /\ Shut(t)
    BY <1>1, <2>2 DEF Undone, Shut, Kept, SameFile, SameView, SameWindow
  <2>4. Orphan(t, c)
    BY <2>2, OrphanKept
  <2> QED BY <2>2, <2>3, <2>4, OrphanForgotten
<1>3. CASE c \in Clusters
  <2> DEFINE m == Set(s, "OK")
             u == [m EXCEPT !.x = c]
  <2>1. t \in FreeWalk(u)
    BY <1>3 DEF remove_chain, FreeWalk
  <2>2. /\ Volume(m) /\ Kept(s, m) /\ SameWindow(s, m) /\ m.ncl = s.ncl /\ m.res = "OK" /\ m.live
    BY <1>1, SetVolume
  <2>3. c \in Nat
    BY <1>3, Markers
  <2> HIDE DEF m
  <2>4. /\ Volume(u) /\ Kept(m, u) /\ SameWindow(m, u) /\ u.x = c /\ u.ncl = m.ncl /\ u.live
    BY <2>2, <2>3, SetX
  <2> HIDE DEF u
  <2>5. Kept(s, u) /\ Undone(s, u) /\ Shut(u) /\ u.winsect # 0 /\ u.n = s.n
        /\ DirSeen(u) = DirSeen(s)
    BY <1>1, <2>2, <2>4, KeptTrans DEF Undone, Shut, Kept, SameFile, SameView, SameWindow
  <2>6. Orphan(u, u.x) /\ u.x \in Clusters
    BY <1>3, <2>4, <2>5, OrphanKept
  <2>7. Freeing(u, t)
    BY <2>1, <2>4, <2>5, <2>6, FreeWalkKeeps
  <2>8. Undone(s, t) /\ Shut(t)
    BY <2>5, <2>7 DEF Freeing, Undone, SameFile
  <2>9. t.live => Chained(t)
    BY <2>7, <2>8, OrphanForgotten DEF Freeing
  <2> QED BY <1>3, <2>8, <2>9
<1> QED BY <1>2, <1>3

\* The state after the chain is gone and the directory is back in the window.
Emptied(s, t) ==
    /\ Shut(t) /\ SameFile(s, t) /\ t.ncl = s.ncl
    /\ t.live => /\ Chained(t) /\ DirSeen(t)[t.n] = Empty
                 /\ t.res = "OK" => t.winsect = DirSector

\* After remove_chain the window returns to the directory.
LEMMA MovedBack ==
    ASSUME NEW s, Shut(s), Chained(s), DirSeen(s)[s.n] = Empty, NEW c \in Nat,
           NEW t \in move_window([s EXCEPT !.last_clust = c], DirSector)
    PROVE  Emptied(s, t)
<1> DEFINE u == [s EXCEPT !.last_clust = c]
<1>1. u \in States /\ SameWindow(s, u) /\ SameFile(s, u) /\ u.ncl = s.ncl
  BY DEF Shut, Volume, States, SameWindow, SameFile
<1>2. Volume(u) /\ SameView(s, u)
  BY <1>1, VolumeSame DEF Shut
<1> HIDE DEF u
<1>3. Moved(u, t) /\ (t.live /\ t.res = "OK" => t.winsect = DirSector)
  <2>1. t \in move_window(u, DirSector) /\ DirSector \in Sectors /\ DirSector # 0
    BY SectorKinds DEF u
  <2> QED BY <1>2, <2>1, MoveWindow
<1>4. Kept(s, u) /\ Kept(u, t) /\ Volume(t) /\ t.ncl = s.ncl
  BY <1>1, <1>2, <1>3 DEF Moved, Kept
<1>5. Kept(s, t)
  BY <1>4, KeptTrans
<1>6. Chained(t)
  BY <1>5, KeptView DEF Chained
<1> QED BY <1>3, <1>4, <1>5, <1>6 DEF Emptied, Shut, Kept, SameFile, SameView

\* Truncation keeps a census, wherever it stops.
LEMMA TruncateKeeps ==
    ASSUME NEW s, Shut(s), s.winsect = DirSector, s.live, s.res = "OK", Chained(s),
           DirSeen(s)[s.n] # NoEntry, NEW t \in Truncate(s)
    PROVE  Emptied(s, t)
<1> DEFINE cl == s.win[s.n].sclust
           e == [s EXCEPT !.win[s.n] = Empty, !.wflag = TRUE]
<1>1. s.n \in Names /\ s \in States /\ DirSeen(s) = s.win /\ DirSeen(s) \in Dirs
  BY ViewTypes DEF Shut, Volume, DirSeen
<1>2. cl \in {-1, 0, Bad} \cup Clusters
  BY <1>1 DEF Dirs, Entries, Empty, NoEntry
<1>3. EntrySet(s, e, Empty)
  BY <1>1 DEF EntrySet, States
<1> HIDE DEF e
<1>4. /\ Shut(e) /\ SameFile(s, e) /\ e.ncl = s.ncl /\ e.winsect = DirSector
      /\ DirSeen(e)[s.n] = Empty /\ Orphan(e, cl) /\ Chained(e)
      /\ e.res = s.res /\ e.live
  BY <1>1, <1>3, EmptyKeeps
<1>5. CASE cl = 0
  <2>1. t = e
    BY <1>5 DEF Truncate, e
  <2> QED BY <1>4, <2>1 DEF Emptied, SameFile
<1>6. CASE cl # 0
  <2>1. PICK w \in remove_chain(e, cl) :
          t \in IF w.live /\ w.res = "OK"
                THEN move_window([w EXCEPT !.last_clust = cl - 1], DirSector) ELSE {w}
    BY <1>6 DEF Truncate, e, IfOk, Then
  <2>2. DirSector # 0 /\ 0 \notin Clusters
    BY SectorKinds, Markers
  <2>3. DirSeen(e)[e.n].sclust \notin Clusters /\ e.winsect # 0
    BY <1>4, <2>2 DEF SameFile, Empty
  <2> HIDE DEF cl
  <2>4. Undone(e, w) /\ (w.live => Chained(w)) /\ (cl \notin Clusters => w.res = "INT_ERR")
    BY <1>2, <1>4, <2>1, <2>3, RemoveKeeps
  <2>5. Shut(w) /\ DirSeen(w)[w.n] = Empty /\ w.ncl = s.ncl /\ SameFile(s, w)
    BY <1>4, <2>4 DEF Undone, SameFile
  <2>6. CASE w.live /\ w.res = "OK"
    <3>1. cl - 1 \in Nat
      <4>1. cl \in Clusters
        BY <2>4, <2>6
      <4>2. cl \in Nat /\ cl >= 2
        BY <4>1, Markers
      <4> QED BY <4>2
    <3>2. Emptied(w, t)
      BY <2>1, <2>4, <2>5, <2>6, <3>1, MovedBack
    <3> QED BY <2>5, <3>2 DEF Emptied, SameFile
  <2>7. CASE ~(w.live /\ w.res = "OK")
    BY <2>1, <2>4, <2>5, <2>7 DEF Emptied
  <2> QED BY <2>6, <2>7
<1> QED BY <1>5, <1>6

\* The closed handle is one that holds between calls.
LEMMA NoFileOK == NoFile \in Files /\ FileOK(NoFile)
<1>1. 0 \in Nat /\ \A k \in 0 .. SS - 1 : AnyByte \in DataBytes
  BY DEF DataBytes
<1>2. NoFile \in Files
  BY <1>1 DEF NoFile, Files, SectorBytes
<1> QED BY <1>2 DEF NoFile, FileOK, Zeroed

\* The handle f_open makes of an entry.
Opened(s, A) == [NoFile EXCEPT !.flags = A, !.sclust = s.win[s.n].sclust,
                               !.fsize = s.win[s.n].size]

\* The handle f_open makes agrees with the entry.
LEMMA OpenedKeeps ==
    ASSUME NEW s, Shut(s), s.winsect = DirSector, Chained(s), s.ncl = 0,
           DirSeen(s)[s.n] # NoEntry, NEW A \in SUBSET {"R", "W", "WRITTEN"},
           "WRITTEN" \in A => "W" \in A, NEW t, t = [s EXCEPT !.f = Opened(s, A)]
    PROVE  Settled(s, t)
<1> DEFINE f == Opened(s, A)
           ent == DirSeen(s)[s.n]
<1>1. /\ Volume(s) /\ s.n \in Names /\ FatSeen(s) \in Fats /\ DirSeen(s) \in Dirs
      /\ Handled(s) \in Handles /\ HeldBy(s) \in Maps /\ DirSeen(s) = s.win
  BY ViewTypes DEF Shut, DirSeen
<1>2. ent \in Entries /\ ent # NoEntry
  BY <1>1 DEF Dirs
<1>3. /\ ent.sclust \in {0, Bad} \cup Clusters /\ ent.size \in Nat
      /\ ent = [sclust |-> ent.sclust, size |-> ent.size]
      /\ ent.sclust = 0 => ent.size = 0
  <2>1. CASE ent = Empty
    BY <2>1 DEF Empty
  <2>2. CASE ent \in [sclust : {Bad} \cup Clusters, size : Nat]
    BY <2>2, Markers, LinksType
  <2> QED BY <1>2, <2>1, <2>2 DEF Entries
<1>4. /\ f \in Files /\ f.fptr = 0 /\ f.flags = A /\ f.sclust = ent.sclust
      /\ f.fsize = ent.size
  <2> DEFINE c == ent.sclust
             k == ent.size
             g == [NoFile EXCEPT !.flags = A, !.sclust = c, !.fsize = k]
  <2>1. f = g
    BY <1>1 DEF Opened
  <2>2. NoFile \in Files /\ NoFile.fptr = 0
    BY NoFileOK DEF NoFile
  <2>3. A \in SUBSET {"R", "W", "WRITTEN", "DIRTY", "ERROR"}
    OBVIOUS
  <2>4. c \in {0, Bad} \cup Clusters /\ k \in Nat
    BY <1>3
  <2> HIDE DEF c, k
  <2>5. g \in Files /\ g.fptr = 0 /\ g.flags = A /\ g.sclust = c /\ g.fsize = k
    BY <2>2, <2>3, <2>4 DEF Files
  <2> QED BY <2>1, <2>5 DEF c, k
<1> HIDE DEF f
<1>5. /\ Volume(t) /\ SameView(s, t) /\ t.n = s.n /\ t.open = s.open /\ t.f = f
      /\ t.ncl = s.ncl
  BY <1>1, <1>4, SetFile DEF f
<1>6. FileOK(f)
  BY <1>3, <1>4 DEF FileOK, Zeroed
<1>7. PICK own, idx, len : View(s, own, idx, len)
  BY DEF Chained
<1>8. /\ HeldBy(s)[s.n] = ent /\ HeldBy(t)[s.n] = ent
      /\ Handled(t)[s.n] = f
      /\ \A m \in Names \ {s.n} : Handled(t)[m] = Handled(s)[m]
  <2>1. /\ Handled(t)[s.n] = f /\ Handled(s)[s.n] = s.f
        /\ \A m \in Names \ {s.n} : Handled(t)[m] = t.open[m] /\ Handled(s)[m] = s.open[m]
    BY <1>1, <1>5, HandledIs
  <2>2. HeldBy(s)[s.n] = ent
    BY <1>1, HandledIs DEF Shut
  <2>3. HeldBy(t)[s.n] = IF "W" \in f.flags THEN [sclust |-> f.sclust, size |-> f.fsize]
                         ELSE ent
    BY <1>1, <1>5, HandledIs DEF SameView
  <2>4. HeldBy(t)[s.n] = ent
    <3> HIDE DEF ent
    <3> QED BY <1>3, <1>4, <2>3
  <2> QED BY <1>5, <2>1, <2>2, <2>4
<1>9. \A m \in Names \ {s.n} : HeldBy(t)[m] = HeldBy(s)[m]
  BY <1>5, <1>8 DEF HeldBy, FilesHeld, SameView
<1>10. Order(FatSeen(s), DirSeen(s), HeldBy(t), Handled(t), s.cut, own, idx, len)
  <2>1. Order(FatSeen(s), DirSeen(s), HeldBy(s), Handled(s), s.cut, own, idx, len)
    BY <1>7 DEF View
  <2>2. \A m \in Names \ {s.n} : /\ DirSeen(s)[m] = DirSeen(s)[m] /\ HeldBy(t)[m] = HeldBy(s)[m]
                                 /\ Handled(t)[m] = Handled(s)[m]
    BY <1>8, <1>9
  <2>3. HeldBy(t)[s.n].sclust = HeldBy(s)[s.n].sclust
    BY <1>8
  <2>4. Placed(s.n, Handled(t)[s.n], own, idx)
    <3>1. ~(0 > 0)
      OBVIOUS
    <3> QED BY <1>4, <1>8, <3>1 DEF Placed
  <2>5. ~s.cut => /\ HeldBy(t)[s.n].sclust # Bad => HeldBy(t)[s.n].size <= len[s.n] * Bytes
                  /\ DirSeen(s)[s.n].sclust \in Clusters => DirSeen(s)[s.n].size <= len[s.n] * Bytes
                  /\ Placed(s.n, Handled(t)[s.n], own, idx)
    BY <1>1, <1>8, <2>1, <2>4 DEF Order, Fits
  <2>6. DirSeen(s)[s.n].sclust \in Clusters => DirSeen(s)[s.n].sclust = HeldBy(s)[s.n].sclust
    BY <1>1, <2>1 DEF Order
  <2> QED BY <1>1, <2>1, <2>2, <2>3, <2>5, <2>6, UpdateKeeps
<1>11. Chained(t)
  BY <1>5, <1>10 DEF Chained, View, SameView
<1> QED BY <1>5, <1>6, <1>11 DEF Settled, Pen

\* The flags of a mode, and that a mode that creates also writes.
LEMMA ModeFlags ==
    ASSUME NEW mode \in Modes
    PROVE  /\ FatMode[mode] \in SUBSET {"R", "W", "CREATE_ALWAYS", "OPEN_ALWAYS"}
           /\ FatMode[mode] \cap {"CREATE_ALWAYS", "OPEN_ALWAYS"} # {} => "W" \in FatMode[mode]
<1>1. mode \in {"r", "w", "a", "ru", "wu", "au"}
  BY FatAssumption
<1>2. CASE mode = "r"
  BY <1>2 DEF FatMode
<1>3. CASE mode = "w"
  BY <1>3 DEF FatMode
<1>4. CASE mode = "a"
  BY <1>4 DEF FatMode
<1>5. CASE mode = "ru"
  BY <1>5 DEF FatMode
<1>6. CASE mode = "wu"
  BY <1>6 DEF FatMode
<1>7. CASE mode = "au"
  BY <1>7 DEF FatMode
<1> QED BY <1>1, <1>2, <1>3, <1>4, <1>5, <1>6, <1>7

\* The directory in the window has no such file.
Absent(s) == s.win[s.n] = NoEntry
\* f_open creates the file or empties it.
Creates(s, mode) == "CREATE_ALWAYS" \in FatMode[mode] \/ Absent(s)
\* The directory with an entry for the file.
Entered(s) == IF Absent(s) THEN [s EXCEPT !.win[s.n] = Empty, !.wflag = TRUE] ELSE s
\* The flags f_open gives the handle.
FlagsOpened(mode, new) == (FatMode[mode] \cap {"R", "W"}) \cup (IF new THEN {"WRITTEN"} ELSE {})

\* A new entry is an empty file.
LEMMA EnteredKeeps ==
    ASSUME NEW s, Shut(s), s.winsect = DirSector, s.live, s.res = "OK", Chained(s)
    PROVE  LET e == Entered(s)
           IN  /\ Shut(e) /\ SameFile(s, e) /\ e.ncl = s.ncl /\ e.winsect = DirSector
               /\ e.live /\ e.res = "OK" /\ Chained(e) /\ DirSeen(e)[e.n] # NoEntry
<1> DEFINE e == Entered(s)
<1>1. s \in States /\ DirSeen(s) = s.win /\ Empty # NoEntry
  BY DEF Shut, Volume, DirSeen, Empty, NoEntry
<1>2. CASE Absent(s)
  <2>1. EntrySet(s, e, Empty)
    BY <1>1, <1>2 DEF EntrySet, States, Entered
  <2> HIDE DEF e
  <2>2. /\ Shut(e) /\ SameFile(s, e) /\ e.ncl = s.ncl /\ e.winsect = DirSector
        /\ DirSeen(e)[s.n] = Empty /\ Chained(e) /\ e.res = s.res /\ e.live
    BY <2>1, EmptyKeeps
  <2> QED BY <1>1, <2>2 DEF SameFile, e
<1>3. CASE ~Absent(s)
  BY <1>1, <1>3 DEF Entered, Absent, SameFile
<1> QED BY <1>2, <1>3

\* What f_open does once the directory is in the window.
OpenIn(s, mode) ==
    IF Absent(s) /\ FatMode[mode] \cap {"CREATE_ALWAYS", "OPEN_ALWAYS"} = {}
    THEN {Set(s, "NO_FILE")}
    ELSE IfOk(IF Creates(s, mode) THEN Truncate(Entered(s)) ELSE {s},
              LAMBDA u : {[u EXCEPT !.f = Opened(u, FlagsOpened(mode, Creates(s, mode)))]})

\* f_open is a move to the directory and what it does there.
LEMMA OpenParts ==
    ASSUME NEW s, NEW mode
    PROVE  f_open(s, mode) = IfOk(move_window(s, DirSector), LAMBDA a : OpenIn(a, mode))
<1>1. \A a : OpenIn(a, mode) =
        IF ~(~Absent(a) \/ FatMode[mode] \cap {"CREATE_ALWAYS", "OPEN_ALWAYS"} # {})
        THEN {Set(a, "NO_FILE")}
        ELSE IfOk(IF Creates(a, mode) THEN Truncate(Entered(a)) ELSE {a},
                  LAMBDA u : {[u EXCEPT !.f = Opened(u, FlagsOpened(mode, Creates(a, mode)))]})
  BY DEF OpenIn
<1> QED BY ZenonT(60), <1>1 DEF f_open, IfOk, Then, Absent, Creates, Entered, Opened, FlagsOpened

\* f_open settles, whatever fails in it.
LEMMA OpenKeeps ==
    ASSUME NEW s, Volume(s), s.n \in Names, s.live, s.res = "OK", s.ncl = 0, FileOK(s.f),
           Chained(s), s.f.flags = {}, NEW mode \in Modes, NEW t \in f_open(s, mode)
    PROVE  Settled(s, t)
<1>1. PICK a \in move_window(s, DirSector) :
        IF ~(a.live /\ a.res = "OK") THEN t = a
        ELSE \/ t = Set(a, "NO_FILE")
             \/ /\ ~Absent(a) \/ FatMode[mode] \cap {"CREATE_ALWAYS", "OPEN_ALWAYS"} # {}
                /\ \E b \in (IF Creates(a, mode) THEN Truncate(Entered(a)) ELSE {a}) :
                     t = IF b.live /\ b.res = "OK"
                         THEN [b EXCEPT !.f = Opened(b, FlagsOpened(mode, Creates(a, mode)))]
                         ELSE b
  <2>1. PICK a \in move_window(s, DirSector) :
          t \in IF a.live /\ a.res = "OK" THEN OpenIn(a, mode) ELSE {a}
    BY OpenParts DEF IfOk, Then
  <2>2. CASE ~(a.live /\ a.res = "OK")
    BY <2>1, <2>2
  <2>3. CASE a.live /\ a.res = "OK"
    BY <2>1, <2>3 DEF OpenIn, IfOk, Then
  <2> QED BY <2>2, <2>3
<1>2. Moved(s, a) /\ (a.live /\ a.res = "OK" => a.winsect = DirSector)
  BY SectorKinds, MoveWindow
<1>3. /\ Volume(a) /\ Kept(s, a) /\ a.ncl = 0 /\ Chained(a) /\ a.f = s.f /\ a.n = s.n
      /\ a.open = s.open /\ a.n \in Names
  BY <1>2, KeptView DEF Moved, Kept, SameFile, Chained
<1>4. CASE ~(a.live /\ a.res = "OK")
  BY <1>1, <1>3, <1>4 DEF Settled, Pen
<1>5. CASE a.live /\ a.res = "OK" /\ t = Set(a, "NO_FILE")
  <2>1. Volume(t) /\ Kept(a, t) /\ t.ncl = a.ncl
    BY <1>3, <1>5, SetVolume DEF Results
  <2>2. Settled(a, t)
    BY <1>3, <2>1, SettledSame
  <2> QED BY <1>3, <2>2 DEF Settled, Pen
<1>6. ASSUME a.live, a.res = "OK",
             ~Absent(a) \/ FatMode[mode] \cap {"CREATE_ALWAYS", "OPEN_ALWAYS"} # {},
             NEW b \in (IF Creates(a, mode) THEN Truncate(Entered(a)) ELSE {a}),
             t = IF b.live /\ b.res = "OK"
                 THEN [b EXCEPT !.f = Opened(b, FlagsOpened(mode, Creates(a, mode)))]
                 ELSE b
      PROVE  Settled(s, t)
  <2> DEFINE A == FlagsOpened(mode, Creates(a, mode))
             e == Entered(a)
  <2>1. /\ Shut(a) /\ a.winsect = DirSector /\ DirSeen(a) = a.win
    BY <1>2, <1>3, <1>6 DEF Shut, DirSeen
  <2>2. A \in SUBSET {"R", "W", "WRITTEN"} /\ ("WRITTEN" \in A => "W" \in A)
    BY <1>6, ModeFlags DEF FlagsOpened, Creates
  <2> HIDE DEF A
  <2>3. /\ Shut(b) /\ SameFile(a, b) /\ b.ncl = a.ncl
        /\ b.live => Chained(b) /\ DirSeen(b)[b.n] # NoEntry
                     /\ (b.res = "OK" => b.winsect = DirSector)
    <3>1. CASE Creates(a, mode)
      <4>1. /\ Shut(e) /\ SameFile(a, e) /\ e.ncl = a.ncl /\ e.winsect = DirSector
            /\ e.live /\ e.res = "OK" /\ Chained(e) /\ DirSeen(e)[e.n] # NoEntry
        BY <1>3, <1>6, <2>1, EnteredKeeps
      <4>2. b \in Truncate(e)
        BY <1>6, <3>1
      <4> HIDE DEF e
      <4>3. Emptied(e, b)
        BY <4>1, <4>2, TruncateKeeps
      <4>4. Empty # NoEntry
        BY DEF Empty, NoEntry
      <4> QED BY <4>1, <4>3, <4>4 DEF Emptied, SameFile
    <3>2. CASE ~Creates(a, mode)
      BY <1>3, <1>6, <2>1, <3>2 DEF Creates, Absent, SameFile
    <3> QED BY <3>1, <3>2
  <2>4. CASE b.live /\ b.res = "OK"
    <3>1. t = [b EXCEPT !.f = Opened(b, A)]
      BY <1>6, <2>4 DEF A
    <3>2. Settled(b, t)
      BY <1>3, <2>2, <2>3, <2>4, <3>1, OpenedKeeps
    <3> QED BY <1>3, <2>3, <3>2 DEF Settled, Pen, SameFile
  <2>5. CASE ~(b.live /\ b.res = "OK")
    <3>1. t = b
      BY <1>6, <2>5
    <3> QED BY <1>3, <2>3, <3>1 DEF Settled, Pen, SameFile, Shut
  <2> QED BY <2>4, <2>5
<1>7. CASE a.live /\ a.res = "OK" /\ t # Set(a, "NO_FILE")
  BY <1>1, <1>6, <1>7
<1> QED BY <1>4, <1>5, <1>7

\* f_sync's entry takes start and size from the handle, which the census accounts for.
LEMMA EntryUpdatedKeeps ==
    ASSUME NEW s, Volume(s), s.n \in Names, s.winsect = DirSector, "W" \in s.f.flags, Zeroed(s.f),
           Chained(s), NEW t, t = EntryUpdated(s)
    PROVE  /\ Volume(t) /\ t.n = s.n /\ t.open = s.open /\ t.ncl = s.ncl /\ Chained(t)
<1> DEFINE ent == [sclust |-> s.f.sclust, size |-> s.f.fsize]
           w == [s EXCEPT !.win = [s.win EXCEPT ![s.n] = ent], !.wflag = TRUE]
           f == [s.f EXCEPT !.flags = s.f.flags \ {"WRITTEN"}]
           dir == [DirSeen(s) EXCEPT ![s.n] = ent]
<1>1. /\ s \in States /\ FatSeen(s) \in Fats /\ DirSeen(s) \in Dirs
      /\ Handled(s) \in Handles /\ HeldBy(s) \in Maps
  BY ViewTypes DEF Volume
<1>2. ent \in Entries /\ ent.sclust = s.f.sclust /\ ent.size = s.f.fsize
  <2>1. s.f.sclust \in {0, Bad} \cup Clusters /\ s.f.fsize \in Nat
    BY FileFields
  <2>2. s.f.sclust = 0 => ent = Empty
    BY DEF Zeroed, Empty
  <2> QED BY <2>1, <2>2 DEF Entries
<1>3. /\ f \in Files /\ f.flags = s.f.flags \ {"WRITTEN"} /\ f.fptr = s.f.fptr
      /\ f.fsize = s.f.fsize /\ f.sclust = s.f.sclust /\ f.clust = s.f.clust
  BY FileFields DEF Files, FlagNames
<1>4. HeldBy(s)[s.n] = ent /\ Handled(s)[s.n] = s.f
  BY HandledIs
<1>5. PICK own, idx, len : View(s, own, idx, len)
  BY DEF Chained
<1> DEFINE files == [Handled(s) EXCEPT ![s.n] = f]
<1>6. Order(FatSeen(s), dir, HeldBy(s), files, s.cut, own, idx, len)
  <2>1. Order(FatSeen(s), DirSeen(s), HeldBy(s), Handled(s), s.cut, own, idx, len)
    BY <1>5 DEF View
  <2>2. \A m \in Names \ {s.n} : /\ dir[m] = DirSeen(s)[m] /\ HeldBy(s)[m] = HeldBy(s)[m]
                                 /\ files[m] = Handled(s)[m]
    BY <1>1 DEF Dirs, Handles
  <2>3. dir[s.n] = ent /\ files[s.n] = f
    BY <1>1 DEF Dirs, Handles
  <2>4. ~s.cut => Placed(s.n, files[s.n], own, idx)
    BY <1>3, <1>4, <2>1, <2>3 DEF Order, Placed
  <2>5. ~s.cut => /\ HeldBy(s)[s.n].sclust # Bad => HeldBy(s)[s.n].size <= len[s.n] * Bytes
                  /\ dir[s.n].sclust \in Clusters => dir[s.n].size <= len[s.n] * Bytes
                  /\ Placed(s.n, files[s.n], own, idx)
    <3>1. \A c \in Clusters : c # Bad
      BY Markers
    <3> QED BY <1>4, <2>1, <2>3, <2>4, <3>1 DEF Order, Fits
  <2>6. dir[s.n].sclust \in Clusters => dir[s.n].sclust = HeldBy(s)[s.n].sclust
    BY <1>4, <2>3
  <2> HIDE DEF dir, files, ent
  <2> QED BY <2>1, <2>2, <2>5, <2>6, UpdateKeeps
<1>7. dir \in Dirs
  BY <1>1, <1>2 DEF Dirs
<1>8. Tidy(FatSeen(s), dir, ~s.cut)
  <2> HIDE DEF dir, files
  <2> QED BY <1>1, <1>6, <1>7, OrderTidy
<1>9. EntrySet(s, w, ent)
  BY DEF EntrySet
<1>10. /\ t = [w EXCEPT !.f = f]
  BY <1>1 DEF EntryUpdated, States
<1> HIDE DEF w
<1>11. /\ Volume(w) /\ SameFile(s, w) /\ FatSeen(w) = FatSeen(s)
       /\ DirSeen(w) = dir /\ w.cut = s.cut /\ w.ncl = s.ncl
  <2> HIDE DEF ent
  <2> QED BY <1>2, <1>8, <1>9, SetEntry
<1> HIDE DEF f
<1>12. /\ Volume(t) /\ SameView(w, t) /\ t.n = w.n /\ t.open = w.open /\ t.f = f
       /\ t.ncl = w.ncl
  BY <1>3, <1>10, <1>11, SetFile
<1>13. Handled(t) = files /\ t.n = s.n /\ t.open = s.open
  BY <1>1, <1>11, <1>12 DEF Handled, SameFile
<1>14. HeldBy(t) = HeldBy(s)
  <2>1. \A m \in Names \ {s.n} : HeldBy(t)[m] = HeldBy(s)[m]
    BY <1>1, <1>11, <1>12, <1>13 DEF HeldBy, FilesHeld, SameView, Dirs, Handles
  <2>2. HeldBy(t)[s.n] = ent
    BY <1>3, <1>12, <1>13, HandledIs
  <2>3. HeldBy(t) \in Maps
    BY <1>12, ViewTypes
  <2> QED BY <1>1, <1>4, <2>1, <2>2, <2>3 DEF Maps
<1>15. Chained(t)
  <2> HIDE DEF dir, files
  <2> QED BY <1>6, <1>11, <1>12, <1>13, <1>14 DEF Chained, View, SameView
<1> QED BY <1>11, <1>12, <1>13, <1>15

\* f_sync keeps a census, wherever it stops.
LEMMA SyncKeeps ==
    ASSUME NEW s, Volume(s), s.n \in Names, s.live, s.ncl = 0, FileOK(s.f), Chained(s),
           NEW t \in f_sync(s)
    PROVE  Pen(s, t) /\ (t.live => Chained(t) /\ t.ncl = 0)
<1>1. CASE "WRITTEN" \notin s.f.flags
  <2>1. t = Set(s, "OK") /\ "OK" \in Results
    BY <1>1 DEF f_sync, Results
  <2>2. Volume(t) /\ Kept(s, t) /\ t.ncl = s.ncl
    BY <2>1, SetVolume
  <2> QED BY <2>2, KeptView DEF Pen, Kept, SameFile, Chained
<1>2. CASE "WRITTEN" \in s.f.flags
  <2>1. PICK u \in Flush(s) :
          \E w \in (IF u.live /\ u.res = "OK" THEN move_window(u, DirSector) ELSE {u}) :
             t \in IF w.live /\ w.res = "OK" THEN sync(EntryUpdated(w)) ELSE {w}
    BY <1>2 DEF f_sync, IfOk, Then
  <2>2. PICK w \in (IF u.live /\ u.res = "OK" THEN move_window(u, DirSector) ELSE {u}) :
             t \in IF w.live /\ w.res = "OK" THEN sync(EntryUpdated(w)) ELSE {w}
    BY <2>1
  <2>3. Touched(s, u)
    BY FlushKeeps
  <2>4. PICK o, i, l : View(s, o, i, l)
    BY DEF Chained
  <2>5. /\ Volume(u) /\ View(u, o, i, l) /\ Zeroed(u.f) /\ "W" \in u.f.flags /\ u.ncl = 0
        /\ u.n = s.n /\ u.open = s.open
    BY <1>2, <2>3, <2>4, TouchedView DEF Touched, SameHandle, Zeroed, FileOK
  <2>6. /\ Volume(w) /\ Kept(u, w) /\ w.ncl = 0
        /\ w.live /\ w.res = "OK" => w.winsect = DirSector
    <3>1. CASE u.live /\ u.res = "OK"
      <4>1. w \in move_window(u, DirSector) /\ DirSector \in Sectors /\ DirSector # 0
        BY <2>2, <3>1, SectorKinds
      <4>2. Moved(u, w) /\ (w.live /\ w.res = "OK" => w.winsect = DirSector)
        BY <2>5, <4>1, MoveWindow
      <4> QED BY <2>5, <4>2 DEF Moved
    <3>2. CASE ~(u.live /\ u.res = "OK")
      BY <2>2, <2>5, <3>2 DEF Kept, SameView, SameFile
    <3> QED BY <3>1, <3>2
  <2>7. /\ w.f = u.f /\ w.n = s.n /\ w.open = s.open /\ Chained(w)
    BY <2>5, <2>6, KeptView DEF Kept, SameFile, Chained
  <2>8. CASE ~(w.live /\ w.res = "OK")
    BY <2>2, <2>6, <2>7, <2>8 DEF Pen
  <2>9. CASE w.live /\ w.res = "OK"
    <3> DEFINE e == EntryUpdated(w)
    <3>1. /\ Volume(e) /\ e.n = w.n /\ e.open = w.open /\ e.ncl = w.ncl /\ Chained(e)
      BY <2>5, <2>6, <2>7, <2>9, EntryUpdatedKeeps
    <3>2. t \in sync(e)
      BY <2>2, <2>9
    <3> HIDE DEF e
    <3>3. Synced(e, t)
      BY <3>1, <3>2, Sync
    <3>4. Chained(t)
      BY <3>1, <3>3, KeptView DEF Chained, Synced
    <3> QED BY <2>6, <2>7, <3>1, <3>3, <3>4 DEF Pen, Synced, Kept, SameFile
  <2> QED BY <2>8, <2>9
<1> QED BY <1>1, <1>2

\* f_close.
Closed(s) == Then(f_sync(s), LAMBDA t : {[t EXCEPT !.f = NoFile]})

\* f_close settles, whatever fails in it.
LEMMA CloseKeeps ==
    ASSUME NEW s, Volume(s), s.n \in Names, s.live, s.ncl = 0, FileOK(s.f), Chained(s),
           NEW t \in Closed(s)
    PROVE  Settled(s, t)
<1>1. PICK u \in f_sync(s) : t = IF u.live THEN [u EXCEPT !.f = NoFile] ELSE u
  BY DEF Closed, Then
<1>2. Pen(s, u) /\ (u.live => Chained(u) /\ u.ncl = 0)
  BY <1>1, SyncKeeps
<1>3. CASE ~u.live
  BY <1>1, <1>2, <1>3 DEF Settled, Pen
<1>4. CASE u.live
  <2>1. /\ Volume(u) /\ u.n \in Names /\ FatSeen(u) \in Fats /\ DirSeen(u) \in Dirs
        /\ Handled(u) \in Handles /\ HeldBy(u) \in Maps
    BY <1>2, ViewTypes DEF Pen
  <2>2. /\ Volume(t) /\ SameView(u, t) /\ t.n = u.n /\ t.open = u.open /\ t.f = NoFile
        /\ t.ncl = u.ncl
    BY <1>1, <1>4, <2>1, SetFile, NoFileOK
  <2>3. NoFile.flags = {}
    BY DEF NoFile
  <2>4. /\ Handled(t)[t.n] = NoFile /\ HeldBy(t)[t.n] = DirSeen(u)[u.n]
        /\ \A m \in Names \ {u.n} : Handled(t)[m] = Handled(u)[m]
    <3>1. /\ Handled(t)[t.n] = NoFile /\ "W" \notin NoFile.flags
          /\ \A m \in Names \ {u.n} : Handled(t)[m] = t.open[m] /\ Handled(u)[m] = u.open[m]
      BY <2>1, <2>2, <2>3, HandledIs
    <3>2. HeldBy(t)[t.n] = DirSeen(t)[t.n]
      <4>1. Volume(t) /\ t.n \in Names /\ "W" \notin t.f.flags
        BY <2>1, <2>2, <3>1
      <4> QED BY <4>1, HandledIs
    <3> QED BY <2>2, <3>1, <3>2 DEF SameView
  <2>5. \A m \in Names \ {u.n} : HeldBy(t)[m] = HeldBy(u)[m]
    BY <2>2, <2>4 DEF HeldBy, FilesHeld, SameView
  <2>6. PICK own, idx, len :
          Order(FatSeen(u), DirSeen(u), HeldBy(u), Handled(u), u.cut, own, idx, len)
    BY <1>2, <1>4 DEF Chained, View
  <2>7. \E o, i, l : Order(FatSeen(u), DirSeen(u), HeldBy(t), Handled(t), u.cut, o, i, l)
    <3>1. /\ \A m \in Names \ {u.n} : HeldBy(t)[m] = HeldBy(u)[m] /\ Handled(t)[m] = Handled(u)[m]
          /\ HeldBy(t)[u.n] = DirSeen(u)[u.n] /\ "W" \notin Handled(t)[u.n].flags
      BY <2>2, <2>3, <2>4, <2>5
    <3> QED BY <2>1, <2>6, <3>1, ForgetKeeps
  <2>8. Chained(t)
    BY <2>2, <2>7 DEF Chained, View, SameView
  <2> QED BY <1>2, <1>4, <2>2, <2>8, NoFileOK DEF Settled, Pen
<1> QED BY <1>3, <1>4

-----------------------------------------------------------------------------
(* Between two calls. *)

\* What holds between calls: the volume is sound, with every open file at its handle.
Rest(s) ==
    /\ Volume(s) /\ s.live /\ s.ncl = 0 /\ s.n = "none" /\ Chained(s)
    /\ \A m \in Names : FileOK(s.open[m])

\* Between calls no file is at work.
LEMMA HandledAtRest ==
    ASSUME NEW s, Volume(s), s.n = "none"
    PROVE  Handled(s) = s.open
<1>1. s.open \in [Names -> Files] /\ "none" \notin Names
  BY Constants DEF Volume, States
<1> QED BY <1>1 DEF Handled

\* A loss of RAM leaves a volume that is what the card says.
LEMMA RamLostVolume ==
    ASSUME NEW s, Volume(s)
    PROVE  Volume(RamLost(s)) /\ s.info \in [free : Nat, last : Nat]
<1> DEFINE r == RamLost(s)
<1>1. /\ s.card \in [Sectors -> Contents] /\ s.info \in [free : Nat, last : Nat]
      /\ s.data \in [DataSectors -> SectorBytes] /\ s.faults \in Nat /\ s.crashes \in Nat
      /\ s.call \in Nat /\ s.cut \in BOOLEAN
  BY DEF Volume, States
<1>2. 0 \in Sectors /\ \A c \in Clusters : FatSector(c) # 0
  BY SectorKinds
<1>3. Boot \in Contents /\ Boot \in Content(0)
  BY <1>2 DEF Contents, Content
<1>4. Bad \in Nat /\ 0 \in 0 .. NFatEnt - 1
  BY Markers, Constants
<1>5. NoFile \in Files /\ [n \in Names |-> NoFile] \in [Names -> Files]
  BY NoFileOK
<1>6. "OK" \in Results /\ <<>> \in Seq(DataBytes)
  BY DEF Results
<1>7. r \in States
  BY <1>1, <1>2, <1>3, <1>4, <1>5, <1>6 DEF RamLost, States
<1>8. r.card = s.card /\ r.win = Boot /\ r.winsect = 0 /\ ~r.wflag /\ r.cut = s.cut
  BY DEF RamLost
<1> HIDE DEF r
<1>9. WindowOK(r)
  BY <1>3, <1>8 DEF WindowOK, Volume
<1>10. /\ FatOf(r) = FatOf(s) /\ FatSeen(r) = FatOf(s) /\ DirSeen(r) = s.card[DirSector]
  BY <1>2, <1>8, SectorKinds DEF FatOf, FatSeen, DirSeen
<1>11. CardSound(r) /\ SeenSound(r)
  BY <1>8, <1>10 DEF CardSound, SeenSound, Volume
<1> QED BY <1>1, <1>7, <1>9, <1>11 DEF Volume, r

\* Mounting it puts it at rest.
LEMMA RamLostRest ==
    ASSUME NEW s, Volume(RamLost(s)), s.info \in [free : Nat, last : Nat], NEW w \in Mounted(s)
    PROVE  Rest(w)
<1> DEFINE r == RamLost(s)
           u == [r EXCEPT !.free_clust = s.info.free, !.last_clust = s.info.last]
<1>1. PICK t \in DiskRead(r, u) : w = Set(t, "OK")
  BY DEF Mounted
<1>2. /\ r.n = "none" /\ r.live /\ r.ncl = 0 /\ r.open = [n \in Names |-> NoFile]
  BY DEF RamLost
<1> HIDE DEF r
<1>3. r \in States /\ s.info.free \in Nat /\ s.info.last \in Nat
  BY DEF Volume, r
<1>4. /\ u \in States /\ SameWindow(r, u) /\ u.n = r.n /\ u.live = r.live /\ u.ncl = r.ncl
      /\ u.open = r.open
  BY <1>3 DEF States, SameWindow
<1>5. Volume(u)
  BY <1>3, <1>4, VolumeSame DEF r
<1> HIDE DEF u
<1>6. /\ Volume(t) /\ t.n = "none" /\ t.live /\ t.ncl = 0 /\ t.open = r.open
  <2>1. CASE t = Set(u, "OK")
    <3>1. "OK" \in Results
      BY DEF Results
    <3> QED BY <1>2, <1>4, <1>5, <2>1, <3>1, SetVolume DEF Kept, SameFile
  <2>2. CASE t \in Failed(r)
    <3>1. Volume(r)
      BY DEF r
    <3> QED BY <1>2, <2>2, <3>1, FailedVolume DEF Kept, SameFile
  <2> QED BY <1>1, <2>1, <2>2, DiskReadKeeps
<1>7. /\ Volume(w) /\ w.n = "none" /\ w.live /\ w.ncl = 0 /\ w.open = [n \in Names |-> NoFile]
  <2>1. "OK" \in Results
    BY DEF Results
  <2> QED BY <1>1, <1>2, <1>6, <2>1, SetVolume DEF Kept, SameFile
<1>8. Handled(w) = w.open
  BY <1>7, HandledAtRest
<1>9. \A n \in Names : Handled(w)[n].flags = {}
  BY <1>7, <1>8 DEF NoFile
<1>10. DirSeen(w) \in Dirs /\ HeldBy(w) = DirSeen(w)
  <2>1. DirSeen(w) \in Dirs
    BY <1>7, ViewTypes
  <2> QED BY <1>9, <2>1 DEF HeldBy, FilesHeld, Dirs
<1>11. Tidy(FatSeen(w), DirSeen(w), ~w.cut)
  BY <1>7 DEF Volume, SeenSound
<1>12. Chained(w)
  <2>1. \A n \in Names : "W" \notin Handled(w)[n].flags
    BY <1>9
  <2>2. \E o, i, l : Order(FatSeen(w), DirSeen(w), DirSeen(w), Handled(w), w.cut, o, i, l)
    BY <1>10, <1>11, <2>1, MountKeeps
  <2> QED BY <1>10, <2>2 DEF Chained, View
<1> QED BY <1>7, <1>12, NoFileOK DEF Rest

\* From any point of a call, power loss and mount put the volume at rest.
LEMMA MountedRest ==
    ASSUME NEW s, Volume(s), NEW w \in Mounted(s)
    PROVE  Rest(w)
  BY RamLostVolume, RamLostRest

\* The state a call on file n starts from.
Begun(s, n, k) == [s EXCEPT !.f = s.open[n], !.n = n, !.res = "OK", !.call = k]

\* A call starts ready.
LEMMA BegunReady ==
    ASSUME NEW s, Rest(s), NEW n \in Names, NEW k \in Nat, NEW b, b = Begun(s, n, k)
    PROVE  /\ Volume(b) /\ b.n = n /\ b.live /\ b.res = "OK" /\ b.ncl = 0 /\ FileOK(b.f)
           /\ Chained(b) /\ b.f = s.open[n] /\ b.open = s.open
<1>1. s \in States /\ s.open \in [Names -> Files] /\ s.live /\ s.ncl = 0 /\ s.n = "none"
  BY DEF Rest, Volume, States
<1>2. "OK" \in Results /\ s.open[n] \in Files
  BY <1>1 DEF Results
<1>3. b \in States
  BY <1>1, <1>2 DEF Begun, States
<1>4. /\ SameWindow(s, b) /\ b.f = s.open[n] /\ b.n = n /\ b.open = s.open /\ b.res = "OK"
      /\ b.ncl = s.ncl /\ b.live
  BY <1>1 DEF Begun, States, SameWindow
<1>5. Volume(b) /\ SameView(s, b)
  BY <1>3, <1>4, VolumeSame DEF Rest
<1>6. Handled(b) = Handled(s)
  <2>1. Handled(s) = s.open
    BY <1>1, HandledAtRest DEF Rest
  <2> QED BY <1>1, <1>4, <2>1 DEF Handled
<1>7. Chained(b)
  BY <1>5, <1>6 DEF Rest, Chained, View, HeldBy, SameView
<1> QED BY <1>1, <1>4, <1>5, <1>7 DEF Rest

\* A call's end, the handle back among the others.
Ended(t, n) == [t EXCEPT !.open[n] = t.f, !.f = NoFile, !.n = "none", !.got = <<>>,
                         !.x = 0, !.res = "OK"]

\* A call that settled ends at rest.
LEMMA EndedRest ==
    ASSUME NEW s, Rest(s), NEW n \in Names, NEW b, b.n = n, b.open = s.open, NEW t,
           Settled(b, t), t.live, NEW w, w = Ended(t, n)
    PROVE  Rest(w)
<1>1. /\ Volume(t) /\ t.n = n /\ t.open = s.open /\ FileOK(t.f) /\ Chained(t) /\ t.ncl = 0
  BY DEF Settled, Pen
<1>2. t \in States /\ t.open \in [Names -> Files] /\ t.f \in Files
  BY <1>1 DEF Volume, States
<1>3. "OK" \in Results /\ <<>> \in Seq(DataBytes) /\ NoFile \in Files /\ 0 \in Nat
  BY NoFileOK DEF Results
<1> DEFINE open == [t.open EXCEPT ![n] = t.f]
<1>4. open \in [Names -> Files] /\ open = Handled(t)
  BY <1>1, <1>2 DEF Handled
<1>5. w = [t EXCEPT !.open = open, !.f = NoFile, !.n = "none", !.got = <<>>, !.x = 0, !.res = "OK"]
  BY DEF Ended
<1>6. \A m \in Names : FileOK(open[m])
  BY <1>1, <1>2 DEF Rest
<1> HIDE DEF open
<1>7. w \in States
  <2> DEFINE u == [t EXCEPT !.open = open, !.f = NoFile, !.n = "none"]
  <2>1. u \in States
    BY <1>2, <1>3, <1>4 DEF States
  <2>2. w = [u EXCEPT !.got = <<>>, !.x = 0, !.res = "OK"]
    BY <1>2, <1>5 DEF States
  <2> HIDE DEF u
  <2> QED BY ZenonT(60), <1>3, <2>1, <2>2 DEF States
<1>8. /\ SameWindow(t, w) /\ w.open = open /\ w.n = "none" /\ w.live = t.live /\ w.ncl = t.ncl
  BY ZenonT(60), <1>2, <1>5 DEF States, SameWindow
<1>9. Volume(w) /\ SameView(t, w)
  BY <1>1, <1>7, <1>8, VolumeSame
<1>10. Handled(w) = Handled(t)
  BY <1>4, <1>8, <1>9, HandledAtRest
<1>11. Chained(w)
  BY <1>1, <1>9, <1>10 DEF Chained, View, HeldBy, SameView
<1> QED BY <1>1, <1>6, <1>8, <1>9, <1>11 DEF Rest

\* A call as a whole: it ends, or the power goes within it.
Ends(t, n, w) == IF t.live THEN w = Ended(t, n) ELSE w \in Mounted(t)

\* So it does when the power goes in it.
LEMMA EndsRest ==
    ASSUME NEW s, Rest(s), NEW n \in Names, NEW b, b.n = n, b.open = s.open, NEW t,
           Settled(b, t), NEW w, Ends(t, n, w)
    PROVE  Rest(w)
<1>1. CASE t.live
  BY <1>1, EndedRest DEF Ends
<1>2. CASE ~t.live
  BY <1>2, MountedRest DEF Ends, Settled, Pen
<1> QED BY <1>1, <1>2

-----------------------------------------------------------------------------
(* The steps. *)
\* The count of calls is a number.
LEMMA CallsNat ==
    ASSUME Rest(v)
    PROVE  v.call \in Nat /\ v.call + 1 \in Nat
  BY DEF Rest, Volume, States

\* The arguments of the calls are numbers.
LEMMA ArgumentTypes == Reads \cup Writes \subseteq Nat /\ Offsets \subseteq Nat
  BY FatAssumption

\* f_open keeps the volume at rest.
LEMMA OpenStep ==
    ASSUME Rest(v), NEW n \in Names, NEW mode \in Modes, FOpen(n, mode)
    PROVE  Rest(v')
<1>1. v.open[n].flags = {}
  BY DEF FOpen, IsOpen
<1>2. PICK k \in Nat : \E t \in f_open(Begun(v, n, k), mode) : Ends(t, n, v')
  BY CallsNat DEF FOpen, Call, Begun, Ends, Ended
<1> DEFINE b == Begun(v, n, k)
<1>3. /\ Volume(b) /\ b.n = n /\ b.live /\ b.res = "OK" /\ b.ncl = 0 /\ FileOK(b.f)
      /\ Chained(b) /\ b.f = v.open[n] /\ b.open = v.open
  BY BegunReady
<1>4. PICK t \in f_open(b, mode) : Ends(t, n, v')
  BY <1>2
<1> HIDE DEF b
<1>5. Settled(b, t)
  BY <1>1, <1>3, <1>4, OpenKeeps
<1> QED BY <1>3, <1>4, <1>5, EndsRest

\* f_close keeps it.
LEMMA CloseStep ==
    ASSUME Rest(v), NEW n \in Names, FClose(n)
    PROVE  Rest(v')
<1>1. PICK k \in Nat : \E t \in Closed(Begun(v, n, k)) : Ends(t, n, v')
  BY CallsNat DEF FClose, Call, Begun, Ends, Ended, Closed
<1> DEFINE b == Begun(v, n, k)
<1>2. /\ Volume(b) /\ b.n = n /\ b.live /\ b.res = "OK" /\ b.ncl = 0 /\ FileOK(b.f)
      /\ Chained(b) /\ b.f = v.open[n] /\ b.open = v.open
  BY BegunReady
<1>3. PICK t \in Closed(b) : Ends(t, n, v')
  BY <1>1
<1> HIDE DEF b
<1>4. Settled(b, t)
  BY <1>2, <1>3, CloseKeeps
<1> QED BY <1>2, <1>3, <1>4, EndsRest

\* f_read keeps it.
LEMMA ReadStep ==
    ASSUME Rest(v), NEW n \in Names, NEW len \in Reads, FRead(n, len)
    PROVE  Rest(v')
<1>1. PICK k \in Nat : \E t \in f_read(Begun(v, n, k), len) : Ends(t, n, v')
  BY CallsNat DEF FRead, Call, Begun, Ends, Ended
<1> DEFINE b == Begun(v, n, k)
<1>2. /\ Volume(b) /\ b.n = n /\ b.live /\ b.res = "OK" /\ b.ncl = 0 /\ FileOK(b.f)
      /\ Chained(b) /\ b.f = v.open[n] /\ b.open = v.open
  BY BegunReady
<1>3. PICK t \in f_read(b, len) : Ends(t, n, v')
  BY <1>1
<1>4. len \in Nat
  BY ArgumentTypes
<1> HIDE DEF b
<1>5. Settled(b, t)
  BY <1>2, <1>3, <1>4, ReadKeeps
<1> QED BY <1>2, <1>3, <1>5, EndsRest

\* f_write keeps it.
LEMMA WriteStep ==
    ASSUME Rest(v), NEW n \in Names, NEW len \in Writes, FWrite(n, len)
    PROVE  Rest(v')
<1>1. PICK k \in Nat : \E t \in f_write(Begun(v, n, k), len) : Ends(t, n, v')
  BY CallsNat DEF FWrite, Call, Begun, Ends, Ended
<1> DEFINE b == Begun(v, n, k)
<1>2. /\ Volume(b) /\ b.n = n /\ b.live /\ b.res = "OK" /\ b.ncl = 0 /\ FileOK(b.f)
      /\ Chained(b) /\ b.f = v.open[n] /\ b.open = v.open
  BY BegunReady
<1>3. PICK t \in f_write(b, len) : Ends(t, n, v')
  BY <1>1
<1>4. len \in Nat
  BY ArgumentTypes
<1> HIDE DEF b
<1>5. Settled(b, t)
  BY <1>2, <1>3, <1>4, WriteKeeps
<1> QED BY <1>2, <1>3, <1>5, EndsRest

\* f_lseek keeps it.
LEMMA SeekStep ==
    ASSUME Rest(v), NEW n \in Names, NEW ofs \in Offsets, FLseek(n, ofs)
    PROVE  Rest(v')
<1>1. PICK k \in Nat : \E t \in f_lseek(Begun(v, n, k), ofs) : Ends(t, n, v')
  BY CallsNat DEF FLseek, Call, Begun, Ends, Ended
<1> DEFINE b == Begun(v, n, k)
<1>2. /\ Volume(b) /\ b.n = n /\ b.live /\ b.res = "OK" /\ b.ncl = 0 /\ FileOK(b.f)
      /\ Chained(b) /\ b.f = v.open[n] /\ b.open = v.open
  BY BegunReady
<1>3. PICK t \in f_lseek(b, ofs) : Ends(t, n, v')
  BY <1>1
<1>4. ofs \in Nat
  BY ArgumentTypes
<1> HIDE DEF b
<1>5. Settled(b, t)
  BY <1>2, <1>3, <1>4, SeekKeeps
<1> QED BY <1>2, <1>3, <1>5, EndsRest

\* A loss of power between calls keeps it.
LEMMA PowerOffStep ==
    ASSUME Rest(v), PowerOff
    PROVE  Rest(v')
<1>1. PICK t \in Lost(v) : v' \in Mounted(t)
  BY DEF PowerOff
<1>2. Volume(t)
  BY <1>1, LostVolume DEF Rest
<1> QED BY <1>1, <1>2, MountedRest

\* Every step of the file system keeps the invariant between calls.
LEMMA NextStep ==
    ASSUME Rest(v), [FatNext]_fatVars
    PROVE  Rest(v')
<1>1. CASE UNCHANGED fatVars
  BY <1>1 DEF fatVars
<1>2. CASE \E n \in Names : \E mode \in Modes : FOpen(n, mode)
  BY <1>2, OpenStep
<1>3. CASE \E n \in Names : \E len \in Reads : FRead(n, len)
  BY <1>3, ReadStep
<1>4. CASE \E n \in Names : \E len \in Writes : FWrite(n, len)
  BY <1>4, WriteStep
<1>5. CASE \E n \in Names : \E ofs \in Offsets : FLseek(n, ofs)
  BY <1>5, SeekStep
<1>6. CASE \E n \in Names : FClose(n)
  BY <1>6, CloseStep
<1>7. CASE PowerOff
  BY <1>7, PowerOffStep
<1> QED BY <1>1, <1>2, <1>3, <1>4, <1>5, <1>6, <1>7 DEF FatNext

-----------------------------------------------------------------------------
(* The first state. *)
\* The number of clusters of the file the card holds at first.
First == (HeldLen + Bytes - 1) \div Bytes      \* clusters of the file the card holds

\* The file on the first card fits on it.
LEMMA FirstBounds ==
    /\ First \in Nat /\ First >= 1 /\ First + 1 <= NFatEnt - 1 /\ HeldLen \in Nat /\ HeldLen >= 1
    /\ HeldLen <= First * Bytes
<1> DEFINE b == Bytes
           m == NFatEnt - 2
           x == HeldLen + b - 1
           q == x \div b
           r == x % b
<1>1. b \in Nat /\ b > 0 /\ m \in Nat /\ NFatEnt \in Nat
  BY Constants
<1>2. HeldLen \in Nat /\ HeldLen >= 1 /\ HeldLen <= m * b
  <2>1. (NFatEnt - 2) * SS * CSize = m * b
    BY Constants DEF Bytes
  <2>2. m * b \in Nat
    <3> HIDE DEF m, b
    <3> QED BY <1>1
  <2> HIDE DEF m, b
  <2> QED BY <2>1, <2>2, FatAssumption
<1> HIDE DEF b, m
<1>3. x \in Nat /\ x = HeldLen + b - 1
  BY <1>1, <1>2
<1> HIDE DEF x
<1>4. q \in Nat /\ r \in Nat /\ r < b /\ x = b * q + r
  BY <1>1, <1>3, Divided
<1> HIDE DEF q, r
<1>5. b * q \in Nat /\ b * q = q * b
  BY <1>1, <1>4
<1>6. q >= 1
  <2>1. q = 0 => b * q = 0
    BY <1>1
  <2> QED BY <1>1, <1>2, <1>3, <1>4, <2>1
<1>7. HeldLen <= q * b
  BY <1>1, <1>2, <1>3, <1>4, <1>5
<1>8. q <= m
  <2> SUFFICES ASSUME q >= m + 1 PROVE FALSE
    BY <1>1, <1>4
  <2>1. (m + 1) * b <= q * b
    BY <1>1, <1>4, TimesLeq DEF b
  <2>2. (m + 1) * b = m * b + b /\ m * b \in Nat
    BY <1>1
  <2> QED BY <1>1, <1>2, <1>3, <1>4, <1>5, <2>1, <2>2
<1>9. First = q
  BY DEF First, q, x, b
<1> QED BY <1>1, <1>2, <1>4, <1>6, <1>7, <1>8, <1>9 DEF b, m

\* The clusters of the file the first card holds.
Used == 2 .. 1 + First

\* They are clusters of the volume, 2 the first of them.
LEMMA UsedClusters == Used \subseteq Clusters /\ 2 \in Used /\ 2 \in Clusters
  BY FirstBounds, Constants DEF Used, Clusters

\* The FAT of the first card.
FirstLink(c) == IF c \notin Used THEN 0 ELSE IF c + 1 \in Used THEN c + 1 ELSE LastLink
\* Its directory.
FirstDir(n) == [m \in Names |-> IF m # n THEN NoEntry ELSE [sclust |-> 2, size |-> HeldLen]]

\* The first card is tidy: one file in consecutive clusters.
LEMMA FirstTidy ==
    ASSUME NEW n \in Names
    PROVE  Tidy([c \in Clusters |-> FirstLink(c)], FirstDir(n), TRUE)
<1> DEFINE tab == [c \in Clusters |-> FirstLink(c)]
           dir == FirstDir(n)
           own == [c \in Clusters |-> IF c \in Used THEN n ELSE "none"]
           idx == [c \in Clusters |-> c - 1]
           len == [m \in Names |-> IF m = n THEN First ELSE 0]
<1>1. /\ Used \subseteq Clusters /\ 2 \in Used /\ 2 \in Clusters /\ First \in Nat /\ First >= 1
      /\ "none" # n /\ Clusters \subseteq Nat /\ -1 \notin Clusters
      /\ \A c \in Clusters : c \in Nat /\ c >= 2
  BY FirstBounds, UsedClusters, Markers, Constants
<1>2. \A c \in Clusters : c \in Used <=> c <= 1 + First
  BY <1>1 DEF Used
<1>3. own \in Owners /\ idx \in Places /\ len \in Lengths
  BY <1>1 DEF Owners, Places, Lengths
<1>4. \A m \in Names : IF dir[m].sclust \in Clusters
                       THEN own[dir[m].sclust] = m /\ idx[dir[m].sclust] = 1
                       ELSE len[m] = 0
  BY <1>1 DEF FirstDir, NoEntry
<1>5. ASSUME NEW c \in Clusters, own[c] # "none"
      PROVE  /\ 1 <= idx[c] /\ idx[c] <= len[own[c]]
             /\ idx[c] = len[own[c]] => tab[c] = LastLink
             /\ idx[c] < len[own[c]] => /\ tab[c] \in Clusters
                                        /\ own[tab[c]] = own[c] /\ idx[tab[c]] = idx[c] + 1
  <2>1. c \in Used /\ own[c] = n /\ idx[c] = c - 1 /\ len[own[c]] = First /\ c \in Nat /\ c >= 2
        /\ c <= 1 + First
    BY <1>1, <1>2, <1>5
  <2>2. c + 1 \in Used <=> c + 1 <= 1 + First
    BY <1>1, <2>1 DEF Used
  <2>3. CASE c = 1 + First
    <3>1. tab[c] = LastLink
      BY <1>1, <2>1, <2>2, <2>3 DEF FirstLink
    <3> HIDE DEF tab, own, idx, len
    <3> QED BY <1>1, <2>1, <2>3, <3>1
  <2>4. CASE c # 1 + First
    <3>1. c + 1 \in Used /\ tab[c] = c + 1 /\ c + 1 \in Clusters
      <4>1. c + 1 <= 1 + First
        BY <1>1, <2>1, <2>4
      <4>2. c + 1 \in Used
        BY <2>2, <4>1
      <4>3. FirstLink(c) = c + 1
        BY <2>1, <4>2 DEF FirstLink
      <4>4. c + 1 \in Clusters
        BY <1>1, <4>2
      <4> QED BY <4>2, <4>3, <4>4
    <3>2. own[c + 1] = n /\ idx[c + 1] = idx[c] + 1
      BY <2>1, <3>1
    <3> HIDE DEF tab, own, idx, len
    <3> QED BY <1>1, <2>1, <2>4, <3>1, <3>2
  <2> QED BY <2>3, <2>4
<1>6. \A c, d \in Clusters : own[c] # "none" /\ own[c] = own[d] /\ idx[c] = idx[d] => c = d
  BY <1>1
<1>7. Census(tab, dir, own, idx, len)
  <2> HIDE DEF tab, dir, own, idx, len
  <2> QED BY <1>4, <1>5, <1>6 DEF Census
<1>8. Fits(dir, len)
  <2> SUFFICES ASSUME NEW m \in Names PROVE dir[m].size <= len[m] * Bytes
    BY DEF Fits
  <2>1. CASE m = n
    <3>1. dir[m].size = HeldLen /\ len[m] = First
      BY <2>1 DEF FirstDir
    <3> QED BY <3>1, FirstBounds
  <2>2. CASE m # n
    <3>1. dir[m].size = -1 /\ len[m] = 0
      BY <2>2 DEF FirstDir, NoEntry
    <3>2. 0 * Bytes = 0
      BY Constants
    <3> QED BY <3>1, <3>2
  <2> QED BY <2>1, <2>2
<1> HIDE DEF tab, dir, own, idx, len
<1>9. Tidy(tab, dir, TRUE)
  BY <1>3, <1>7, <1>8 DEF Tidy
<1> QED BY <1>9 DEF tab, dir

\* Byte p of its data area.
FirstByte(n, p) == IF p < HeldLen THEN HeldBytes(n)[p + 1] ELSE AnyByte

\* What the first card holds at any offset is a byte.
LEMMA FirstBytes ==
    ASSUME NEW n \in Names, NEW p \in Nat
    PROVE  FirstByte(n, p) \in DataBytes
<1>1. CASE p < HeldLen
  <2>1. p + 1 \in 1 .. HeldLen
    BY <1>1, FirstBounds
  <2>2. HeldBytes(n)[p + 1] = Byte(n, p + 1 - 1, 0)
    BY <2>1 DEF HeldBytes
  <2>3. Byte(n, p + 1 - 1, 0) = <<n, p, 0>>
    <3>1. p + 1 - 1 = p /\ 0 % 2 = 0
      OBVIOUS
    <3> QED BY <3>1 DEF Byte
  <2> QED BY <1>1, <2>2, <2>3 DEF FirstByte, DataBytes
<1>2. CASE ~(p < HeldLen)
  BY <1>2 DEF FirstByte, DataBytes
<1> QED BY <1>1, <1>2

\* Its data area.
FirstData(n) == [sect \in DataSectors |->
                   [k \in 0 .. SS - 1 |-> FirstByte(n, (sect - 2 * CSize) * SS + k)]]

\* Its data sectors are sectors.
LEMMA FirstDataType ==
    ASSUME NEW n \in Names
    PROVE  FirstData(n) \in [DataSectors -> SectorBytes]
<1> SUFFICES ASSUME NEW sect \in DataSectors, NEW k \in 0 .. SS - 1
             PROVE  FirstByte(n, (sect - 2 * CSize) * SS + k) \in DataBytes
  BY DEF FirstData, SectorBytes
<1>1. sect - 2 * CSize \in Nat
  <2>1. 2 * CSize \in Nat
    BY Constants
  <2>2. sect >= 2 * CSize /\ sect \in Int
    BY <2>1 DEF DataSectors
  <2> QED BY <2>1, <2>2
<1> DEFINE a == sect - 2 * CSize
<1>2. a * SS + k \in Nat
  <2> HIDE DEF a
  <2>1. a \in Nat /\ SS \in Nat /\ k \in Nat
    BY <1>1, Constants DEF a
  <2> QED BY <2>1
<1> QED BY <1>2, FirstBytes

\* Its other sectors.
FirstCard(n) == [sect \in Sectors |->
                   IF sect = 0 THEN Boot
                   ELSE IF sect = DirSector THEN FirstDir(n)
                   ELSE [c \in {d \in Clusters : FatSector(d) = sect} |-> FirstLink(c)]]

\* The initial card has these parts.
LEMMA CardIs ==
    ASSUME NEW n \in Names
    PROVE  /\ Card(n).card = FirstCard(n) /\ Card(n).data = FirstData(n)
           /\ Card(n).info \in [free : Nat, last : Nat] /\ Card(n).faults = MaxFaults
           /\ Card(n).crashes = MaxCrashes /\ Card(n).call = 0 /\ Card(n).cut = FALSE
<1> DEFINE used == 2 .. 1 + (HeldLen + Bytes - 1) \div Bytes
<1>1. used = Used
  BY DEF Used, First
<1>2. Card(n).card = FirstCard(n)
  BY DEF Card, FirstCard, FirstDir, FirstLink, Used, First, Sectors
<1>3. Card(n).data = FirstData(n)
  BY DEF Card, FirstData, FirstByte
<1>4. Card(n).info = [free |-> Cardinality(Clusters \ Used), last |-> 1 + Cardinality(Used)]
  BY DEF Card, Used, First
<1>5. IsFiniteSet(Clusters) /\ IsFiniteSet(Used)
  BY Constants, FirstBounds, FS_Interval DEF Clusters, Used
<1>6. Cardinality(Clusters \ Used) \in Nat /\ Cardinality(Used) \in Nat
  BY <1>5, FS_Difference, FS_CardinalityType
<1>7. Card(n).info \in [free : Nat, last : Nat]
  BY <1>4, <1>6
<1> QED BY <1>2, <1>3, <1>7 DEF Card

\* Every sector holds what its kind may.
LEMMA FirstCardType ==
    ASSUME NEW n \in Names
    PROVE  /\ FirstCard(n) \in [Sectors -> Contents] /\ FirstCard(n)[0] = Boot
           /\ FirstCard(n)[DirSector] = FirstDir(n)
           /\ \A sect \in Sectors : FirstCard(n)[sect] \in Content(sect)
           /\ \A c \in Clusters : FirstCard(n)[FatSector(c)][c] = FirstLink(c)
<1>1. FirstDir(n) \in [Names -> Entries]
  <2>1. 2 \in Clusters /\ HeldLen \in Nat
    BY FirstBounds, UsedClusters
  <2> QED BY <2>1 DEF FirstDir, Entries
<1>2. \A c \in Clusters : FirstLink(c) \in Links
  BY UsedClusters DEF FirstLink, Links
<1>3. \A sect \in Sectors : FirstCard(n)[sect] \in Content(sect)
  <2> SUFFICES ASSUME NEW sect \in Sectors PROVE FirstCard(n)[sect] \in Content(sect)
    OBVIOUS
  <2>1. CASE sect = 0
    BY <2>1 DEF FirstCard, Content
  <2>2. CASE sect # 0 /\ sect = DirSector
    BY <1>1, <2>2 DEF FirstCard, Content
  <2>3. CASE sect # 0 /\ sect # DirSector
    BY <1>2, <2>3 DEF FirstCard, Content
  <2> QED BY <2>1, <2>2, <2>3
<1>4. FirstCard(n) \in [Sectors -> Contents]
  BY <1>3 DEF FirstCard, Contents
<1>5. FirstCard(n)[0] = Boot /\ FirstCard(n)[DirSector] = FirstDir(n)
  BY SectorKinds DEF FirstCard
<1>6. \A c \in Clusters : FirstCard(n)[FatSector(c)][c] = FirstLink(c)
  BY SectorKinds DEF FirstCard
<1> QED BY <1>3, <1>4, <1>5, <1>6

\* The first card is one a mount may find.
LEMMA FirstVolume ==
    ASSUME NEW n \in Names
    PROVE  Volume(RamLost(Card(n))) /\ Card(n).info \in [free : Nat, last : Nat]
<1> DEFINE s == Card(n)
           r == RamLost(s)
<1>1. /\ s.card = FirstCard(n) /\ s.data = FirstData(n) /\ s.info \in [free : Nat, last : Nat]
      /\ s.faults = MaxFaults /\ s.crashes = MaxCrashes /\ s.call = 0 /\ s.cut = FALSE
  BY CardIs
<1> HIDE DEF s
<1>2. MaxFaults \in Nat /\ MaxCrashes \in Nat
  BY FatAssumption
<1>3. 0 \in Sectors /\ \A c \in Clusters : FatSector(c) # 0
  BY SectorKinds
<1>4. Boot \in Contents /\ Boot \in Content(0)
  BY <1>3 DEF Contents, Content
<1>5. Bad \in Nat /\ 0 \in 0 .. NFatEnt - 1
  BY Markers, Constants
<1>6. NoFile \in Files /\ [m \in Names |-> NoFile] \in [Names -> Files]
  BY NoFileOK
<1>7. "OK" \in Results /\ <<>> \in Seq(DataBytes)
  BY DEF Results
<1>8. s.card \in [Sectors -> Contents] /\ s.data \in [DataSectors -> SectorBytes]
  BY <1>1, FirstCardType, FirstDataType
<1>9. r \in States
  <2>1. /\ s.card \in [Sectors -> Contents] /\ s.info \in [free : Nat, last : Nat]
        /\ s.data \in [DataSectors -> SectorBytes] /\ s.faults \in Nat /\ s.crashes \in Nat
        /\ s.call \in Nat /\ s.cut \in BOOLEAN
    <3>1. s.cut \in BOOLEAN
      <4>1. s.cut = FALSE
        BY <1>1
      <4> QED BY <4>1, Zenon
    <3>2. /\ s.info \in [free : Nat, last : Nat] /\ s.faults \in Nat /\ s.crashes \in Nat
          /\ s.call \in Nat
      BY <1>1, <1>2
    <3> QED BY <1>8, <3>1, <3>2
  <2> QED BY <1>3, <1>4, <1>5, <1>6, <1>7, <2>1 DEF RamLost, States
<1>10. r.card = s.card /\ r.win = Boot /\ r.winsect = 0 /\ ~r.wflag /\ r.cut = FALSE
  BY <1>1 DEF RamLost
<1> HIDE DEF r
<1>11. WindowOK(r)
  BY <1>1, <1>4, <1>10, FirstCardType DEF WindowOK
<1>12. /\ FatOf(r) = [c \in Clusters |-> FirstLink(c)] /\ FatSeen(r) = FatOf(r)
       /\ DirSeen(r) = FirstDir(n) /\ r.card[DirSector] = FirstDir(n)
  BY <1>1, <1>3, <1>10, FirstCardType, SectorKinds DEF FatOf, FatSeen, DirSeen
<1>13. Tidy(FatOf(r), FirstDir(n), ~r.cut)
  BY <1>10, <1>12, FirstTidy
<1>14. CardSound(r) /\ SeenSound(r)
  BY <1>12, <1>13 DEF CardSound, SeenSound
<1> QED BY <1>1, <1>9, <1>11, <1>14 DEF Volume, r, s

\* The volume is at rest at first.
LEMMA FirstRest ==
    ASSUME FatInit
    PROVE  Rest(v)
<1>1. PICK n \in Names : v \in Mounted(Card(n))
  BY DEF FatInit
<1> QED BY <1>1, FirstVolume, RamLostRest

-----------------------------------------------------------------------------
(* What always holds. *)
\* Between calls the volume is at rest: some census accounts for what the firmware sees
\* (f_open, f_read, f_write, f_lseek, f_close), whatever failed and whenever the power
\* went.
THEOREM AlwaysRest == FatSpec => []Rest(v)
<1>1. FatInit => Rest(v)
  BY FirstRest
<1>2. Rest(v) /\ [FatNext]_fatVars => Rest(v')
  BY NextStep
<1>3. Rest(v)' <=> Rest(v')
  OBVIOUS
<1> QED BY <1>1, <1>2, <1>3, PTL DEF FatSpec

\* The window, the card's sectors, the handles and the counters keep their types, and the
\* window what it stands for (move_window).
THEOREM FatTypeCorrect == FatSpec => []FatTypeOK
<1>1. Rest(v) => FatTypeOK
  BY DEF Rest, Volume, FatTypeOK
<1> QED BY <1>1, AlwaysRest, PTL

\* No call writes the boot sector (put_fat, sync), for every volume and fault.
THEOREM BootStays == FatSpec => []BootKept
<1>1. Rest(v) => BootKept
  BY DEF Rest, Volume, WindowOK, BootKept
<1> QED BY <1>1, AlwaysRest, PTL

\* Between calls the files seen are those of the handles.
LEMMA SeenHeld ==
    ASSUME Rest(v)
    PROVE  FilesSeen(v) = HeldBy(v)
<1>1. Handled(v) = v.open
  BY HandledAtRest DEF Rest
<1> QED BY <1>1 DEF FilesSeen, HeldBy, FilesHeld

\* Chains end, are disjoint and hold their files as the firmware sees them (create_chain,
\* remove_chain), for every volume, length, offset and fault.
THEOREM ChainsStaySound == FatSpec => []ChainsSound
<1>1. Rest(v) => ChainsSound
  <2> SUFFICES ASSUME Rest(v) PROVE ChainsSound
    OBVIOUS
  <2>1. Volume(v) /\ FatSeen(v) \in [Clusters -> Links] /\ HeldBy(v) \in Maps
    BY ViewTypes DEF Rest, Fats
  <2>2. PICK own, idx, len : View(v, own, idx, len)
    BY DEF Rest, Chained
  <2>3. Tidy(FatSeen(v), HeldBy(v), ~v.cut)
    BY <2>1, <2>2, ViewTidy
  <2>4. Sound(FatSeen(v), HeldBy(v), ~v.cut)
    BY <2>1, <2>3, TidySound
  <2> QED BY <2>4, SeenHeld DEF ChainsSound
<1> QED BY <1>1, AlwaysRest, PTL

\* The same of the card alone, at every point where the power may go (move_window's
\* write-back, f_sync, f_open's truncation).
THEOREM CardStaysSound == FatSpec => []CrashSound
<1>1. Rest(v) => CrashSound
  <2> SUFFICES ASSUME Rest(v) PROVE CrashSound
    OBVIOUS
  <2>1. v \in States /\ WindowOK(v) /\ Tidy(FatOf(v), v.card[DirSector], ~v.cut)
    BY DEF Rest, Volume, CardSound
  <2>2. FatOf(v) \in [Clusters -> Links]
    <3>1. \A c \in Clusters : v.card[FatSector(c)] \in Content(FatSector(c))
      BY <2>1, SectorKinds DEF WindowOK
    <3>2. \A c \in Clusters : v.card[FatSector(c)][c] \in Links
      BY <3>1, SectorKinds DEF Content
    <3> QED BY <3>2 DEF FatOf
  <2>3. v.card[DirSector] \in Maps
    <3>1. v.card[DirSector] \in [Names -> Entries]
      BY <2>1, SectorKinds DEF WindowOK, Content
    <3>2. Entries \subseteq [sclust : {-1, 0, Bad} \cup Clusters, size : Int]
      BY DEF Entries, NoEntry, Empty
    <3> QED BY <3>1, <3>2 DEF Maps
  <2>4. Sound(FatOf(v), v.card[DirSector], ~v.cut)
    BY <2>1, <2>2, <2>3, TidySound
  <2> QED BY <2>4 DEF CrashSound
<1> QED BY <1>1, AlwaysRest, PTL
=============================================================================
