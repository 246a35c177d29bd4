------------------------------- MODULE MmcFs -------------------------------
(***************************************************************************)
(* Files on the card: the HAL's descriptor table (alt_open, alt_read,      *)
(* alt_write, alt_lseek, alt_close), the file device under it (mmcfs.c,    *)
(* with its stack of file objects), the mount logic of FatFs and the       *)
(* card's status word (mmcbb.c), while cards come and go.                  *)
(*                                                                         *)
(* The firmware has one thread: one call runs at a time, in steps, one per *)
(* access to the card, and a card may be pulled out or pushed in between   *)
(* any two.  A card that has been pushed in answers nothing until          *)
(* disk_initialize has been through with it.                               *)
(*                                                                         *)
(* Of a file the model keeps which card it is on and how it was opened;    *)
(* its bytes, names and clusters are left out.  A call that fails in its   *)
(* first test changes nothing and is left out too.                         *)
(***************************************************************************)
EXTENDS Integers, FiniteSets

CONSTANTS
    ALT_MAX_FD,        \* descriptors of the HAL; 0, 1 and 2 are never the device's
    MMCFS_FD_MAXNUM,   \* file objects of the device
    Cards,             \* the cards there are
    NoCard,            \* the empty socket
    OpenFlags,         \* access modes the firmware opens files with: of 0, 1, 2
    MaxOpen,           \* files the firmware has open at once
    MaxMounts          \* bound: mounts in a run; fewer than a WORD counts

ASSUME SizeAssumption ==
    /\ ALT_MAX_FD \in Nat /\ ALT_MAX_FD > 3
    /\ MMCFS_FD_MAXNUM \in Nat \ {0}
    /\ MaxOpen \in Nat
ASSUME MountsAssumption == MaxMounts \in 0 .. 2^16 - 1
ASSUME CardAssumption == NoCard \notin Cards
ASSUME FlagsAssumption == OpenFlags \subseteq 0 .. 2

VARIABLES
    \* alt_fd_list[]: is it in use, and the two fields the device writes
    dev, fd_flags, priv,
    \* mmcfs.c: the stack of free objects, and the objects
    dev_mmcfs_fd_num, dev_mmcfs_fd, dev_mmcfs_table,
    \* ff.c: is a volume mounted, its mount id and the last one given
    fs_type, fs_id, Fsid,
    \* mmcbb.c: STA_NOINIT of Stat
    noinit,
    \* the socket, and whether the card in it has been initialised
    card, ready,
    \* the call in progress: [op, fd, at]
    call,
    \* history: the card of the mounted volume, the objects of failed closes
    volume, lost

hal    == <<dev, fd_flags, priv>>
device == <<dev_mmcfs_fd_num, dev_mmcfs_fd, dev_mmcfs_table, lost>>
fat    == <<fs_type, fs_id, Fsid, volume>>
disk   == <<noinit, ready>>
vars   == <<hal, device, fat, disk, card, call>>

Fds     == 3 .. ALT_MAX_FD - 1
Objects == 0 .. MMCFS_FD_MAXNUM - 1
NULL    == MMCFS_FD_MAXNUM

O_RDONLY  == 0
O_WRONLY  == 1
ACCMODE(flags) == flags % 4

\* fp->flag: FA_READ, FA_WRITE, FA__WRITTEN, FA__ERROR.
FaFlags == {"READ", "WRITE", "WRITTEN", "ERROR"}

\* A FIL: is fs set, the mount id, the flags; and, history, the card it is on.
FIL      == [fs : BOOLEAN, id : Nat, flag : SUBSET FaFlags, on : Cards \cup {NoCard}]
BlankFil == [fs |-> FALSE, id |-> 0, flag |-> {}, on |-> NoCard]

Calls == [op : {"none", "open", "read", "write", "seek", "close"}, fd : Fds,
          at : {"idle", "status", "init", "mount", "lookup", "validate", "transfer"}]
Idle  == [op |-> "none", fd |-> 3, at |-> "idle"]

\* The descriptors the firmware holds, and the object of the call in progress.
Open(f) == dev[f] /\ ~(call.op = "open" /\ call.fd = f)
file    == dev_mmcfs_table[priv[call.fd]]

TypeOK ==
    /\ dev \in [Fds -> BOOLEAN] /\ fd_flags \in [Fds -> Nat]
    /\ priv \in [Fds -> Objects \cup {NULL}]
    /\ dev_mmcfs_fd_num \in 0 .. MMCFS_FD_MAXNUM
    /\ dev_mmcfs_fd \in [Objects -> Objects]
    /\ dev_mmcfs_table \in [Objects -> FIL]
    /\ fs_type \in BOOLEAN /\ fs_id \in Nat /\ Fsid \in Nat
    /\ noinit \in BOOLEAN /\ ready \in BOOLEAN
    /\ card \in Cards \cup {NoCard} /\ volume \in Cards \cup {NoCard}
    /\ call \in Calls
    /\ lost \subseteq Objects

\* mmcfs_setup(), with the zeroed data of a program that has just been loaded.
Init ==
    /\ dev = [f \in Fds |-> FALSE] /\ fd_flags = [f \in Fds |-> 0]
    /\ priv = [f \in Fds |-> NULL]
    /\ dev_mmcfs_fd_num = MMCFS_FD_MAXNUM
    /\ dev_mmcfs_fd = [i \in Objects |-> i]
    /\ dev_mmcfs_table = [i \in Objects |-> BlankFil]
    /\ fs_type = FALSE /\ fs_id = 0 /\ Fsid = 0 /\ volume = NoCard
    /\ noinit = TRUE /\ call = Idle /\ lost = {}
    /\ card = NoCard /\ ready = FALSE

-----------------------------------------------------------------------------
(* The card and its status word. *)

\* disk_status(): a card that was initialised stays so while it answers CMD58;
\* one that is absent, new or in trouble does not.
DiskStatus ==
    \E answers \in {ready, FALSE} :
        /\ noinit' = (noinit \/ ~answers)
        /\ UNCHANGED ready

\* disk_read(), disk_write() and disk_ioctl() ask disk_status() first: a call that
\* fails may have found the card gone.
DiskTrouble == noinit' \in {noinit, TRUE} /\ UNCHANGED ready

\* disk_initialize(): CMD0 sends the card back to its idle state.  One that fails after
\* the card has left it leaves a ready card that counts as uninitialised.
DiskInitialized == card # NoCard /\ ready' = TRUE /\ noinit' = FALSE
DiskFailed      == ready' \in {FALSE, card # NoCard} /\ noinit' = TRUE

-----------------------------------------------------------------------------
(* Opening a file. *)

\* alt_release_fd() and the end of the call.
FreeFlags   == 0
Released(f) == /\ dev' = [dev EXCEPT ![f] = FALSE]
               /\ fd_flags' = [fd_flags EXCEPT ![f] = FreeFlags]
Returns     == call' = Idle

At(place) == call' = [call EXCEPT !.at = place]

OpenFails == Released(call.fd) /\ Returns /\ UNCHANGED <<priv, device>>

\* A card that is write-protected refuses a file opened for writing.
MayRefuse == ACCMODE(fd_flags[call.fd]) # O_RDONLY

\* alt_get_fd(): the first free descriptor; then dev_mmcfs_open() looks for a
\* free object, and f_open() begins.
AltOpen(flags) ==
    /\ call.at = "idle" /\ dev_mmcfs_fd_num # 0
    /\ Cardinality({f \in Fds : dev[f]}) < MaxOpen
    /\ \E f \in Fds :
          /\ ~dev[f] /\ \A g \in Fds : g < f => dev[g]
          /\ dev' = [dev EXCEPT ![f] = TRUE]
          /\ fd_flags' = [fd_flags EXCEPT ![f] = flags]
          /\ call' = [op |-> "open", fd |-> f,
                      at |-> IF fs_type THEN "status" ELSE "init"]
    /\ UNCHANGED <<priv, device, fat, disk, card>>

\* chk_mounted(): the mounted volume is good while the card stays initialised.
ChkMounted ==
    /\ call.at = "status" /\ DiskStatus
    /\ fs_type' = ~noinit'
    /\ \/ noinit' /\ At("init") /\ UNCHANGED <<hal, device>>
       \/ ~noinit' /\ At("lookup") /\ UNCHANGED <<hal, device>>
       \/ ~noinit' /\ MayRefuse /\ OpenFails
    /\ UNCHANGED <<fs_id, Fsid, volume, card>>

Initialize ==
    /\ call.at = "init"
    /\ \/ DiskInitialized /\ At("mount") /\ UNCHANGED <<hal, device>>
       \/ DiskInitialized /\ MayRefuse /\ OpenFails
       \/ DiskFailed /\ OpenFails
    /\ UNCHANGED <<fat, card>>

\* The rest of chk_mounted(): the boot sectors are read, the volume gets an id. What
\* becomes of the read of FSInfo is not looked at.
SameId == Fsid                              \* mutant: a new mount keeps the id
NewId  == (Fsid + 1) % 2^16

Mount ==
    /\ call.at = "mount"
    /\ \/ /\ ready /\ Fsid < MaxMounts
          /\ fs_type' = TRUE /\ Fsid' = NewId /\ fs_id' = NewId /\ volume' = card
          /\ At("lookup") /\ UNCHANGED <<hal, device>>
       \/ OpenFails /\ UNCHANGED fat
    /\ DiskTrouble /\ UNCHANGED card

\* f_open()'s mode for the flags of open(): a file created has to be written back.
FileModes(flags) ==
    IF ACCMODE(flags) = O_RDONLY THEN {{"READ"}}
    ELSE IF ACCMODE(flags) = O_WRONLY THEN {{"WRITE"}, {"WRITE", "WRITTEN"}}
    ELSE {{"READ", "WRITE"}, {"READ", "WRITE", "WRITTEN"}}

\* fd_num = dev_mmcfs_fd[--dev_mmcfs_fd_num].
OneTooFar == dev_mmcfs_fd[dev_mmcfs_fd_num % MMCFS_FD_MAXNUM]   \* mutant
Top       == dev_mmcfs_fd[dev_mmcfs_fd_num - 1]

\* f_open() finds the directory entry, on the card or in its window on it; the
\* device gives the descriptor an object, and overwrites the access mode in it.
Lookup ==
    /\ call.at = "lookup"
    /\ \/ /\ dev_mmcfs_fd_num' = dev_mmcfs_fd_num - 1
          /\ \E mode \in FileModes(fd_flags[call.fd]) :
                dev_mmcfs_table' = [dev_mmcfs_table EXCEPT ![Top] =
                    [fs |-> TRUE, id |-> fs_id, flag |-> mode, on |-> volume]]
          /\ priv' = [priv EXCEPT ![call.fd] = Top]
          /\ fd_flags' = [fd_flags EXCEPT ![call.fd] = Top]
          /\ Returns
          /\ UNCHANGED <<dev, dev_mmcfs_fd, lost, noinit>>
       \/ OpenFails /\ DiskTrouble
    /\ UNCHANGED <<fat, ready, card>>

-----------------------------------------------------------------------------
(* Calls on an open file. *)

\* alt_read() and alt_write() look at the access mode in the descriptor.
ReadAllowed(f)  == ACCMODE(fd_flags[f]) # O_WRONLY
WriteAllowed(f) == ACCMODE(fd_flags[f]) # O_RDONLY

AltCall(op, f) ==
    /\ call.at = "idle" /\ Open(f)
    /\ op = "read" => ReadAllowed(f)
    /\ op = "write" => WriteAllowed(f)
    /\ call' = [op |-> op, fd |-> f, at |-> "validate"]
    /\ UNCHANGED <<hal, device, fat, disk, card>>

\* dev_mmcfs_close(): a file that cannot be closed keeps its object, but alt_close()
\* frees the descriptor all the same, and nobody can name the object again.
CloseOk ==
    /\ dev_mmcfs_fd' = [dev_mmcfs_fd EXCEPT ![dev_mmcfs_fd_num] = fd_flags[call.fd]]
    /\ dev_mmcfs_fd_num' = dev_mmcfs_fd_num + 1
    /\ dev_mmcfs_table' = [dev_mmcfs_table EXCEPT ![priv[call.fd]].fs = FALSE]
    /\ priv' = [priv EXCEPT ![call.fd] = NULL]
    /\ Released(call.fd)
    /\ UNCHANGED lost

CloseFails ==
    /\ Released(call.fd)
    /\ lost' = lost \cup {priv[call.fd]}
    /\ UNCHANGED <<priv, dev_mmcfs_fd_num, dev_mmcfs_fd, dev_mmcfs_table>>

Fails == /\ Returns
         /\ IF call.op = "close" THEN CloseFails ELSE UNCHANGED <<hal, device>>

\* validate(): the object's volume is still the mounted one.
ValidObject == file.fs /\ fs_type /\ file.id = fs_id

\* The tests each call makes before it moves data.
Permitted ==
    CASE call.op = "read"  -> "ERROR" \notin file.flag /\ "READ" \in file.flag
      [] call.op = "write" -> "ERROR" \notin file.flag /\ "WRITE" \in file.flag
      [] call.op = "seek"  -> "ERROR" \notin file.flag
      [] OTHER -> TRUE

Validate ==
    /\ call.at = "validate"
    /\ \/ ~ValidObject /\ Fails /\ UNCHANGED noinit
       \/ /\ ValidObject /\ DiskStatus
          /\ \/ (noinit' \/ ~Permitted) /\ Fails
             \/ /\ ~noinit' /\ Permitted
                /\ IF call.op = "close" /\ "WRITTEN" \notin file.flag
                   THEN CloseOk /\ Returns
                   ELSE At("transfer") /\ UNCHANGED <<hal, device>>
    /\ UNCHANGED <<fat, ready, card>>

SetFlag(bits) == dev_mmcfs_table' =
                    [dev_mmcfs_table EXCEPT ![priv[call.fd]].flag = @ \cup bits]

\* Data moves between the firmware and the card, or the object's own buffer: a write,
\* or a seek past the end, marks the file.  Where the card fails the file is marked
\* too (ABORT), or the close is given up.
Transfer ==
    /\ call.at = "transfer"
    /\ \/ /\ call.op \in {"read", "seek"}
          /\ Returns /\ UNCHANGED <<hal, device, noinit>>
       \/ /\ (call.op = "write" \/ (call.op = "seek" /\ "WRITE" \in file.flag))
          /\ SetFlag({"WRITTEN"}) /\ Returns
          /\ UNCHANGED <<hal, dev_mmcfs_fd_num, dev_mmcfs_fd, lost, noinit>>
       \/ /\ call.op = "close" /\ ready
          /\ CloseOk /\ Returns /\ UNCHANGED noinit
       \/ /\ call.op = "close"
          /\ Fails /\ DiskTrouble
       \/ /\ call.op # "close"
          /\ SetFlag({"ERROR"}) /\ Returns /\ DiskTrouble
          /\ UNCHANGED <<hal, dev_mmcfs_fd_num, dev_mmcfs_fd, lost>>
    /\ UNCHANGED <<fat, ready, card>>

Firmware == \/ \E flags \in OpenFlags : AltOpen(flags)
            \/ ChkMounted \/ Initialize \/ Mount \/ Lookup
            \/ \E f \in Fds, op \in {"read", "write", "seek", "close"} : AltCall(op, f)
            \/ Validate \/ Transfer

-----------------------------------------------------------------------------
(* The person at the machine. *)

CardOut == /\ card # NoCard
           /\ card' = NoCard /\ ready' = FALSE
           /\ UNCHANGED <<hal, device, fat, noinit, call>>

CardIn == /\ card = NoCard
          /\ card' \in Cards /\ ready' = FALSE
          /\ UNCHANGED <<hal, device, fat, noinit, call>>

\* The button restarts the Nios II; the card keeps its power, and its state.
Restart ==
    /\ dev' = [f \in Fds |-> FALSE] /\ fd_flags' = [f \in Fds |-> 0]
    /\ priv' = [f \in Fds |-> NULL]
    /\ dev_mmcfs_fd_num' = MMCFS_FD_MAXNUM
    /\ dev_mmcfs_fd' = [i \in Objects |-> i]
    /\ dev_mmcfs_table' = [i \in Objects |-> BlankFil]
    /\ fs_type' = FALSE /\ fs_id' = 0 /\ Fsid' = 0 /\ volume' = NoCard
    /\ noinit' = TRUE /\ call' = Idle /\ lost' = {}
    /\ UNCHANGED <<card, ready>>

Next == Firmware \/ CardOut \/ CardIn \/ Restart

Spec == Init /\ [][Next]_vars

-----------------------------------------------------------------------------
(* Properties. *)

Free == {dev_mmcfs_fd[i] : i \in 0 .. dev_mmcfs_fd_num - 1}
Held == {priv[f] : f \in {g \in Fds : Open(g)}}

\* No two files share an object, whatever the order they are closed in: an object
\* is on the stack of free ones, once, or one open file has it, or it went with a
\* close that failed (mmcfs.c:83-124).
ObjectsKept ==
    /\ \A i, j \in 0 .. dev_mmcfs_fd_num - 1 : dev_mmcfs_fd[i] = dev_mmcfs_fd[j] => i = j
    /\ \A f, g \in Fds : Open(f) /\ Open(g) /\ priv[f] = priv[g] => f = g
    /\ \A f \in Fds : Open(f) => priv[f] \in Objects /\ fd_flags[f] = priv[f]
    /\ Free \cap Held = {} /\ Free \cap lost = {} /\ Held \cap lost = {}
    /\ Free \cup Held \cup lost = Objects

\* A file is never read from, or written to, another card than the one it was
\* opened on: whenever sectors are about to move, a card that would answer is that
\* card, however often cards have been changed since (ff.c:2008-2158, 2172-2186,
\* mmcbb.c:372-398).
OwnCard ==
    /\ call.at = "transfer" /\ ready => file.on = card
    /\ call.at = "lookup" /\ ready => volume = card

\* "If the file has not been opened with read access, [...] generate an error.
\* Otherwise call the drivers read() function to process the request."
\* (alt_read.c:98-100, and alt_write.c:108-110 for writing.)
ModeKept ==
    \A f \in Fds : Open(f) =>
        /\ "READ" \in dev_mmcfs_table[priv[f]].flag => ReadAllowed(f)
        /\ "WRITE" \in dev_mmcfs_table[priv[f]].flag => WriteAllowed(f)
=============================================================================
