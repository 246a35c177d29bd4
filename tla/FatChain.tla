------------------------------ MODULE FatChain ------------------------------
(***************************************************************************)
(* The FAT volume behind mmcfs.c: the calls of fatfs/ff.c that the file    *)
(* device makes (f_open, f_read, f_write, f_lseek, f_close), and what they *)
(* leave on the card when an access fails or the power goes.               *)
(*                                                                         *)
(* The volume caches ONE sector (win, winsect, wflag): a FAT sector, the   *)
(* directory, or FSInfo. Every file caches one data sector of its own      *)
(* (buf, dsect, FA__DIRTY). A call is one step, since the firmware is one  *)
(* thread and the timer interrupt touches no file; inside it every disk    *)
(* access may fail (at most MaxFaults of them do) and the power may go     *)
(* before or after every disk write (at most MaxCrashes times). An         *)
(* operator that accesses the disk therefore returns the SET of states it  *)
(* can end in, and Then chains such operators.                             *)
(*                                                                         *)
(* The volume is a FAT32 one (FSInfo is kept) whose root directory is one  *)
(* sector. A sector write is atomic. Only failures the driver reports are  *)
(* failures here, and a read that fails leaves the caller's buffer alone   *)
(* (mmcbb.c gives up before it takes the first byte of the block).         *)
(***************************************************************************)
EXTENDS Integers, Sequences, FiniteSets

CONSTANTS Names,        \* files of the root directory
          Modes,        \* open modes tried, from mmcfs.c: see FatMode
          NFatEnt,      \* fs->n_fatent: clusters are 2 .. NFatEnt - 1
          PerSect,      \* FAT entries in a sector
          SS,           \* bytes of a sector that matter
          CSize,        \* fs->csize: sectors in a cluster, a power of two
          Reads, Writes, \* lengths of f_read and f_write tried
          Offsets,      \* offsets of f_lseek tried
          HeldLen,      \* length of the file the card holds at first
          MaxCalls,     \* calls that may change the card
          MaxFaults, MaxCrashes

LastLink == 268435455                   \* 0x0FFFFFFF
Bad == LastLink + 1                     \* 0xFFFFFFFF: a value no entry has

ASSUME FatAssumption ==
    /\ NFatEnt \in 3 .. LastLink - 8 /\ "none" \notin Names
    /\ Modes \subseteq {"r", "w", "a", "ru", "wu", "au"}
    /\ {PerSect, SS, CSize} \subseteq Nat \ {0}
    /\ Reads \cup Writes \subseteq Nat \ {0} /\ Offsets \subseteq Nat
    /\ HeldLen \in 1 .. (NFatEnt - 2) * SS * CSize
    /\ {MaxCalls, MaxFaults, MaxCrashes} \subseteq Nat

VARIABLES v,            \* the card, the volume object, the open files
          wrote,        \* name -> bytes the file should hold, or Unknown
          kept,         \* name -> bytes at its last good f_close, or Unknown
          last          \* "fine", or what the last call should not have done

fatVars == <<v, wrote, kept, last>>

Clusters == 2 .. NFatEnt - 1
FatSector(c) == 1 + c \div PerSect
FatSectors == {FatSector(c) : c \in Clusters}
DirSector == 2 + NFatEnt \div PerSect
Bytes == SS * CSize                     \* bcs
Unknown == <<<<"unknown">>>>
Boot == [k \in {0} |-> "boot"]          \* contents of the two sectors that are
FsInfo == [k \in {0} |-> "FSInfo"]      \* never looked into once mounted
AnyByte == <<"any">>                    \* a byte nothing is known of
NoEntry == [sclust |-> -1, size |-> -1]
Empty == [sclust |-> 0, size |-> 0]
NoFile == [flags |-> {}, fptr |-> 0, fsize |-> 0, sclust |-> 0, clust |-> 0,
           dsect |-> 0, buf |-> [k \in 0 .. SS - 1 |-> AnyByte]]
DataSectors == 2 * CSize .. NFatEnt * CSize - 1

\* A byte written into a file: whose it is, where, and by which call (mod 2).
Byte(n, p, k) == <<n, p, k % 2>>

-----------------------------------------------------------------------------
(* Sequencing of disk accesses *)

Then(S, Op(_)) == UNION {IF s.live THEN Op(s) ELSE {s} : s \in S}
Set(s, r) == [s EXCEPT !.res = r]
IfOk(S, Op(_)) == Then(S, LAMBDA s : IF s.res = "OK" THEN Op(s) ELSE {s})

\* A loop as the states it can be in after k turns; most is more turns than it takes.
Loop(s, most, Goes(_), Turn(_)) ==
    LET after[k \in 0 .. most] ==
            IF k = 0 THEN {s}
            ELSE UNION {IF t.live /\ Goes(t) THEN Turn(t) ELSE {t} : t \in after[k - 1]}
    IN  after[most]

Failed(s) == IF s.faults = 0 THEN {}
             ELSE {[s EXCEPT !.faults = @ - 1, !.res = "DISK_ERR"]}
Lost(s) == IF s.crashes = 0 THEN {}
           ELSE {[s EXCEPT !.crashes = @ - 1, !.live = FALSE]}

DiskRead(s, done) == {Set(done, "OK")} \cup Failed(s)
\* A write of several sectors: written[i + 1] is the state with i of them done.
DiskWriteMany(written) ==
    {Set(written[Len(written)], "OK")} \cup
        UNION {Failed(written[i]) \cup Lost(written[i]) : i \in DOMAIN written}
DiskWrite(s, done) == DiskWriteMany(<<s, done>>)

-----------------------------------------------------------------------------
(* The window and the FAT *)

move_window(s, sector) ==
    IF s.winsect = sector THEN {Set(s, "OK")}
    ELSE IfOk(IF s.wflag
              THEN IfOk(DiskWrite(s, [s EXCEPT !.card[s.winsect] = s.win]),
                        LAMBDA t : {[t EXCEPT !.wflag = FALSE]})
              ELSE {Set(s, "OK")},
              LAMBDA t : IF sector = 0 THEN {t}
                         ELSE DiskRead(t, [t EXCEPT !.win = t.card[sector],
                                                    !.winsect = sector]))

\* FSInfo is built in the window, which then stands for no sector; its own
\* write may fail unnoticed.
WriteFsInfo(s) ==
    LET built == [s EXCEPT !.winsect = 0, !.win = FsInfo]
    IN  Then(DiskWrite(built, [built EXCEPT !.info = [free |-> s.free_clust,
                                                      last |-> s.last_clust]]),
             LAMBDA t : {[Set(t, "OK") EXCEPT !.fsi_flag = FALSE]})

sync(s) ==
    IfOk(move_window(s, 0),
         LAMBDA t : Then(IF t.fsi_flag THEN WriteFsInfo(t) ELSE {t},
                         LAMBDA u : {u} \cup Failed(u)))

clust2sect(c) == IF c \in Clusters THEN c * CSize ELSE 0

get_fat(s, c) ==
    IF c \notin Clusters THEN {[s EXCEPT !.x = 1]}
    ELSE Then(move_window(s, FatSector(c)),
              LAMBDA t : {[t EXCEPT !.x = IF t.res = "OK" THEN t.win[c] ELSE Bad]})

put_fat(s, c, val) ==
    IF c \notin Clusters THEN {Set(s, "INT_ERR")}
    ELSE Then(move_window(s, FatSector(c)),
              LAMBDA t : {[t EXCEPT !.wflag = TRUE,
                                    !.win = IF t.res = "OK" THEN [@ EXCEPT ![c] = val]
                                            ELSE @]})

\* free_clust moved by d, when FSInfo gave a count to start from. A count that
\* is too low wraps below 0 to the value that stands for no count.
Counted(s, d) == IF s.free_clust = Bad THEN s
                 ELSE [s EXCEPT !.free_clust = IF @ + d < 0 THEN Bad ELSE @ + d,
                                !.fsi_flag = TRUE]

\* One turn of remove_chain's loop: cluster x is freed, and x becomes its successor.
FreeNext(s) ==
    Then(get_fat(s, s.x),
         LAMBDA t : IF t.x = 0 THEN {Set(t, "OK")}
                    ELSE IF t.x = 1 THEN {Set(t, "INT_ERR")}
                    ELSE IF t.x = Bad THEN {Set(t, "DISK_ERR")}
                    ELSE IfOk(put_fat(t, s.x, 0), LAMBDA u : {Counted(u, 1)}))

remove_chain(s, c) ==
    IF c \notin Clusters THEN {Set(s, "INT_ERR")}
    ELSE Loop([Set(s, "OK") EXCEPT !.x = c], NFatEnt,
              LAMBDA t : t.res = "OK" /\ t.x \in Clusters, FreeNext)

\* One turn of create_chain's search: the cluster after ncl, round to scl. When the
\* search is over ncl is 0 and x the free cluster: 0 if there is none, 1 or Bad on
\* an error.
LookNext(s, scl) ==
    LET next == IF s.ncl + 1 >= NFatEnt THEN 2 ELSE s.ncl + 1
        over(t, result) == {[t EXCEPT !.ncl = 0, !.x = result]}
    IN  IF s.ncl + 1 >= NFatEnt /\ next > scl THEN over(s, 0)
        ELSE Then(get_fat(s, next),
                  LAMBDA t : IF t.x = 0 THEN over(t, next)
                             ELSE IF t.x \in {1, Bad} THEN over(t, t.x)
                             ELSE IF next = scl THEN over(t, 0)
                             ELSE {[t EXCEPT !.ncl = next]})

FindFree(s, scl) ==
    Loop([s EXCEPT !.ncl = scl], NFatEnt, LAMBDA t : t.ncl # 0,
         LAMBDA t : LookNext(t, scl))

\* Mutants: the new cluster is not counted; it is linked but not marked.
Uncounted(s, c, ncl) ==
    Then(IfOk(put_fat(s, ncl, LastLink),
              LAMBDA t : IF c = 0 THEN {t} ELSE put_fat(t, c, ncl)),
         LAMBDA t : {[t EXCEPT !.last_clust = ncl,
                               !.x = IF t.res = "OK" THEN ncl ELSE Bad]})
Unmarked(s, c, ncl) ==
    Then(IF c = 0 THEN {Set(s, "OK")} ELSE put_fat(s, c, ncl),
         LAMBDA t : {IF t.res = "OK"
                     THEN [Counted(t, -1) EXCEPT !.last_clust = ncl, !.x = ncl]
                     ELSE [t EXCEPT !.x = Bad]})

\* Mark ncl as the last link, and link it to c unless c is 0.
Allocate(s, c, ncl) ==
    Then(IfOk(put_fat(s, ncl, LastLink),
              LAMBDA t : IF c = 0 THEN {t} ELSE put_fat(t, c, ncl)),
         LAMBDA t : {IF t.res = "OK"
                     THEN [Counted(t, -1) EXCEPT !.last_clust = ncl, !.x = ncl]
                     ELSE [t EXCEPT !.x = IF t.res = "DISK_ERR" THEN Bad ELSE 1]})

\* Result in x: 0 no free cluster, 1 or Bad an error, else the cluster. A link
\* that cannot be read counts as the last one; cut remembers that it happened.
create_chain(s, c) ==
    LET search(t, scl) ==
            Then(FindFree(t, scl),
                 LAMBDA u : IF u.x \in Clusters THEN Allocate(u, c, u.x) ELSE {u})
    IN  IF c = 0
        THEN search(s, IF s.last_clust = 0 \/ s.last_clust >= NFatEnt THEN 1
                       ELSE s.last_clust)
        ELSE Then(get_fat(s, c),
                  LAMBDA t : IF t.x < 2 THEN {[t EXCEPT !.x = 1]}
                             ELSE IF t.x < NFatEnt THEN {t}
                             ELSE search([t EXCEPT !.cut = @ \/ t.x = Bad], c))
-----------------------------------------------------------------------------
(* The file: s.f is the FIL the call works on, s.n its name *)

CanRead(s) == "R" \in s.f.flags
CanWrite(s) == "W" \in s.f.flags
Abort(s, r) == {[Set(s, r) EXCEPT !.f.flags = @ \cup {"ERROR"}]}

\* Write the dirty data sector back.
Flush(s) ==
    IF "DIRTY" \notin s.f.flags THEN {Set(s, "OK")}
    ELSE IfOk(DiskWrite(s, [s EXCEPT !.data[s.f.dsect] = s.f.buf]),
              LAMBDA t : {[t EXCEPT !.f.flags = @ \ {"DIRTY"}]})

\* Have sector sect in buf, what was dirty there written back first.
FillBuf(s, sect) ==
    Then(IfOk(Flush(s), LAMBDA t : DiskRead(t, [t EXCEPT !.f.buf = t.data[sect]])),
         LAMBDA t : IF t.res # "OK" THEN Abort(t, "DISK_ERR")
                    ELSE {[t EXCEPT !.f.dsect = sect]})

Offset(s) == s.f.fptr % SS
CSect(s) == (s.f.fptr \div SS) % CSize
AtCluster(s) == s.f.fptr % Bytes = 0
Sector(s) == clust2sect(s.f.clust) + CSect(s)
Contiguous(s, len) == IF CSect(s) + len \div SS > CSize THEN CSize - CSect(s)
                      ELSE len \div SS
Least(a, b) == IF a < b THEN a ELSE b

\* The cluster of the file pointer (f_read): from the start, or along the FAT.
FollowRead(s) ==
    IF ~AtCluster(s) THEN {Set(s, "OK")}
    ELSE Then(IF s.f.fptr = 0 THEN {[s EXCEPT !.x = s.f.sclust]}
              ELSE get_fat(s, s.f.clust),
              LAMBDA t : IF t.x < 2 THEN Abort(t, "INT_ERR")
                         ELSE IF t.x = Bad THEN Abort(t, "DISK_ERR")
                         ELSE {[Set(t, "OK") EXCEPT !.f.clust = t.x]})

\* One turn of f_read's loop takes whole sectors straight from the card, the
\* dirty one from buf, or part of the sector in buf; s.got collects them.
PastBuf(s, len) ==                      \* mutant: the dirty sector is not looked for
    LET cc == Contiguous(s, len)
        byte(i) == s.data[Sector(s) + i \div SS][i % SS]
    IN  Then(DiskRead(s, [s EXCEPT !.got = @ \o [i \in 1 .. SS * cc |-> byte(i - 1)],
                                   !.f.fptr = @ + SS * cc]),
             LAMBDA t : IF t.res = "OK" THEN {t} ELSE Abort(t, "DISK_ERR"))

ReadDirect(s, len) ==
    LET cc == Contiguous(s, len)
        byte(i) == LET sect == Sector(s) + i \div SS
                   IN  IF "DIRTY" \in s.f.flags /\ sect = s.f.dsect
                       THEN s.f.buf[i % SS] ELSE s.data[sect][i % SS]
    IN  Then(DiskRead(s, [s EXCEPT !.got = @ \o [i \in 1 .. SS * cc |-> byte(i - 1)],
                                   !.f.fptr = @ + SS * cc]),
             LAMBDA t : IF t.res = "OK" THEN {t} ELSE Abort(t, "DISK_ERR"))

ReadBuf(s, len) ==
    LET cnt == Least(SS - Offset(s), len)
    IN  {[s EXCEPT !.got = @ \o [i \in 1 .. cnt |-> s.f.buf[Offset(s) + i - 1]],
                   !.f.fptr = @ + cnt]}

ReadTurn(s, len) ==
    IF Offset(s) # 0 THEN ReadBuf(s, len)
    ELSE IfOk(FollowRead(s),
              LAMBDA t : IF clust2sect(t.f.clust) = 0 THEN Abort(t, "INT_ERR")
                         ELSE IF len >= SS THEN ReadDirect(t, len)
                         ELSE IfOk(IF t.f.dsect = Sector(t) THEN {t}
                                   ELSE FillBuf(t, Sector(t)),
                                   LAMBDA u : ReadBuf(u, len)))

ReadLoop(s, end) ==
    Loop(s, end - s.f.fptr, LAMBDA t : t.res = "OK" /\ t.f.fptr # end,
         LAMBDA t : ReadTurn(t, end - t.f.fptr))

f_read(s, btr) ==
    IF "ERROR" \in s.f.flags THEN {Set(s, "INT_ERR")}
    ELSE IF ~CanRead(s) THEN {Set(s, "DENIED")}
    ELSE ReadLoop(s, Least(s.f.fptr + btr, s.f.fsize))

\* The cluster of the file pointer (f_write): followed or stretched. "FULL" is
\* the loop's break when there is no free cluster.
FollowWrite(s) ==
    IF ~AtCluster(s) THEN {Set(s, "OK")}
    ELSE Then(IF s.f.fptr # 0 THEN create_chain(s, s.f.clust)
              ELSE IF s.f.sclust # 0 THEN {[s EXCEPT !.x = s.f.sclust]}
              ELSE Then(create_chain(s, 0), LAMBDA t : {[t EXCEPT !.f.sclust = t.x]}),
              LAMBDA t : IF t.x = 0 THEN {Set(t, "FULL")}
                         ELSE IF t.x = 1 THEN Abort(t, "INT_ERR")
                         ELSE IF t.x = Bad THEN Abort(t, "DISK_ERR")
                         ELSE {[Set(t, "OK") EXCEPT !.f.clust = t.x]})

\* The byte the caller gives for position p.
Given(s, p) == Byte(s.n, p, s.call)

WriteDirect(s, len) ==
    LET cc == Contiguous(s, len)
        first == Sector(s)
        at(sect) == [k \in 0 .. SS - 1 |-> Given(s, s.f.fptr + SS * (sect - first) + k)]
        covers == s.f.dsect >= first /\ s.f.dsect < first + cc
        written == [i \in 1 .. cc + 1 |-> [s EXCEPT !.data = [sect \in DataSectors |->
                       IF sect >= first /\ sect < first + i - 1 THEN at(sect) ELSE @[sect]]]]
    IN  Then(DiskWriteMany(written),
             LAMBDA t : IF t.res # "OK" THEN Abort(t, "DISK_ERR")
                        ELSE {[t EXCEPT !.f.buf = IF covers THEN at(s.f.dsect) ELSE @,
                                        !.f.flags = IF covers THEN @ \ {"DIRTY"} ELSE @,
                                        !.f.fptr = @ + SS * cc]})

WriteBuf(s, len) ==
    LET cnt == Least(SS - Offset(s), len)
        in(k) == k >= Offset(s) /\ k < Offset(s) + cnt
    IN  {[s EXCEPT !.f.buf = [k \in 0 .. SS - 1 |->
                                  IF in(k) THEN Given(s, s.f.fptr - Offset(s) + k) ELSE @[k]],
                   !.f.flags = @ \cup {"DIRTY"},
                   !.f.fptr = @ + cnt]}

WriteTurn(s, len) ==
    LET flushed(t) == Then(Flush(t), LAMBDA u : IF u.res = "OK" THEN {u}
                                                ELSE Abort(u, "DISK_ERR"))
        filled(t) == IF t.f.dsect # Sector(t) /\ t.f.fptr < t.f.fsize
                     THEN FillBuf(t, Sector(t))
                     ELSE {[t EXCEPT !.f.dsect = Sector(t)]}
    IN  IF Offset(s) # 0 THEN WriteBuf(s, len)
        ELSE IfOk(IfOk(FollowWrite(s), flushed),
                  LAMBDA t : IF clust2sect(t.f.clust) = 0 THEN Abort(t, "INT_ERR")
                             ELSE IF len >= SS THEN WriteDirect(t, len)
                             ELSE IfOk(filled(t), LAMBDA u : WriteBuf(u, len)))

WriteLoop(s, end) ==
    Loop(s, end - s.f.fptr, LAMBDA t : t.res = "OK" /\ t.f.fptr # end,
         LAMBDA t : WriteTurn(t, end - t.f.fptr))

Grown(s) == IF s.f.fptr > s.f.fsize THEN [s EXCEPT !.f.fsize = s.f.fptr] ELSE s

f_write(s, btw) ==
    IF "ERROR" \in s.f.flags THEN {Set(s, "INT_ERR")}
    ELSE IF ~CanWrite(s) THEN {Set(s, "DENIED")}
    ELSE Then(WriteLoop(s, s.f.fptr + btw),
              LAMBDA t : IF t.res \in {"OK", "FULL"}
                         THEN {[Set(Grown(t), "OK") EXCEPT
                                !.f.flags = @ \cup {"WRITTEN"}]}
                         ELSE {t})

\* One turn of f_lseek's cluster following: f.fptr is the start of cluster f.clust,
\* and moves to the next one. In write mode the chain is stretched; "FULL" is the
\* loop's break when there is no free cluster.
SeekTurn(s) ==
    Then(IF CanWrite(s) THEN create_chain(s, s.f.clust) ELSE get_fat(s, s.f.clust),
         LAMBDA t : IF t.x = 0 /\ CanWrite(t) THEN {Set(t, "FULL")}
                    ELSE IF t.x = Bad THEN Abort(t, "DISK_ERR")
                    ELSE IF t.x \notin Clusters THEN Abort(t, "INT_ERR")
                    ELSE {[Set(t, "OK") EXCEPT !.f.clust = t.x, !.f.fptr = @ + Bytes]})

\* On to the cluster of offset ofs, or to the end of the last one there is.
SeekLoop(s, ofs) ==
    Then(Loop(s, ofs \div Bytes, LAMBDA t : t.res = "OK" /\ ofs - t.f.fptr > Bytes, SeekTurn),
         LAMBDA t : IF t.res = "OK" THEN {[t EXCEPT !.f.fptr = ofs]}
                    ELSE IF t.res = "FULL" THEN {[Set(t, "OK") EXCEPT !.f.fptr = @ + Bytes]}
                    ELSE {t})

\* f_lseek's start: the current cluster when the target is not before it, else
\* the file's first one, created if there is none.
SeekStart(s, ofs) ==
    LET on == s.f.fptr > 0 /\ (ofs - 1) \div Bytes >= (s.f.fptr - 1) \div Bytes
        here == ((s.f.fptr - 1) \div Bytes) * Bytes
    IN  IF on THEN SeekLoop([s EXCEPT !.f.fptr = here], ofs)
        ELSE Then(IF s.f.sclust = 0 THEN create_chain(s, 0)
                  ELSE {[s EXCEPT !.x = s.f.sclust]},
                  LAMBDA t :
                    LET u == [Set(t, "OK") EXCEPT !.f.fptr = 0]
                    IN  IF s.f.sclust = 0 /\ t.x = 1 THEN Abort(u, "INT_ERR")
                        ELSE IF s.f.sclust = 0 /\ t.x = Bad THEN Abort(u, "DISK_ERR")
                        ELSE LET at == [u EXCEPT !.f.sclust = t.x, !.f.clust = t.x]
                             IN  IF t.x = 0 THEN {at} ELSE SeekLoop(at, ofs))

f_lseek(s, target) ==
    LET ofs == IF target > s.f.fsize /\ ~CanWrite(s) THEN s.f.fsize ELSE target
        load(t) == IF Offset(t) = 0 THEN {t}
                   ELSE IF clust2sect(t.f.clust) = 0 THEN Abort(t, "INT_ERR")
                   ELSE IF Sector(t) = t.f.dsect THEN {t}
                   ELSE FillBuf(t, Sector(t))
    IN  IF "ERROR" \in s.f.flags THEN {Set(s, "INT_ERR")}
        ELSE IfOk(IfOk(IF ofs = 0 THEN {[s EXCEPT !.f.fptr = 0]} ELSE SeekStart(s, ofs),
                       load),
                  LAMBDA t : {IF t.f.fptr > t.f.fsize
                              THEN [Grown(t) EXCEPT !.f.flags = @ \cup {"WRITTEN"}]
                              ELSE t})

\* f_sync's changes to the directory entry.
EntryUpdated(s) == [s EXCEPT !.win[s.n] = [sclust |-> s.f.sclust, size |-> s.f.fsize],
                             !.f.flags = @ \ {"WRITTEN"}, !.wflag = TRUE]

\* Mutants: the window is left to be written later; it is marked too late.
NoSync(s) ==
    IF "WRITTEN" \notin s.f.flags THEN {Set(s, "OK")}
    ELSE IfOk(IfOk(Flush(s), LAMBDA t : move_window(t, DirSector)),
              LAMBDA t : {EntryUpdated(t)})
LateMark(s) ==
    IF "WRITTEN" \notin s.f.flags THEN {Set(s, "OK")}
    ELSE IfOk(IfOk(IfOk(Flush(s), LAMBDA t : move_window(t, DirSector)),
                   LAMBDA t : sync(EntryUpdated(t))),
              LAMBDA t : {[t EXCEPT !.wflag = TRUE]})

f_sync(s) ==
    IF "WRITTEN" \notin s.f.flags THEN {Set(s, "OK")}
    ELSE IfOk(IfOk(Flush(s), LAMBDA t : move_window(t, DirSector)),
              LAMBDA t : sync(EntryUpdated(t)))

\* mmcfs.c's modes: what f_open is asked for.
FatMode ==
    [r  |-> {"R"},            w  |-> {"W", "CREATE_ALWAYS"},
     a  |-> {"W", "OPEN_ALWAYS"}, ru |-> {"R", "W"},
     wu |-> {"R", "W", "CREATE_ALWAYS"}, au |-> {"R", "W", "OPEN_ALWAYS"}]

\* Mutant: the clusters are freed first.
FreeFirst(s) ==
    LET cl == s.win[s.n].sclust
        emptied(t) == {[t EXCEPT !.win[t.n] = Empty, !.wflag = TRUE]}
    IN  IF cl = 0 THEN emptied(s)
        ELSE IfOk(IfOk(remove_chain(s, cl), LAMBDA t : move_window(t, DirSector)), emptied)

\* Empty the entry in the window, then free the file's clusters.
Truncate(s) ==
    LET cl == s.win[s.n].sclust
        emptied == [s EXCEPT !.win[s.n] = Empty, !.wflag = TRUE]
    IN  IF cl = 0 THEN {emptied}
        ELSE IfOk(remove_chain(emptied, cl),
                  LAMBDA t : move_window([t EXCEPT !.last_clust = cl - 1], DirSector))

f_open(s, mode) ==
    LET flags == FatMode[mode]
        absent(t) == t.win[t.n] = NoEntry
        creates(t) == "CREATE_ALWAYS" \in flags \/ absent(t)
        found(t) == \/ ~absent(t) \/ flags \cap {"CREATE_ALWAYS", "OPEN_ALWAYS"} # {}
        entry(t) == IF absent(t) THEN [t EXCEPT !.win[t.n] = Empty, !.wflag = TRUE] ELSE t
        opened(t, new) ==
            [NoFile EXCEPT !.flags = (flags \cap {"R", "W"}) \cup
                                     (IF new THEN {"WRITTEN"} ELSE {}),
                           !.sclust = t.win[t.n].sclust, !.fsize = t.win[t.n].size]
    IN  IfOk(move_window(s, DirSector),
             LAMBDA t : IF ~found(t) THEN {Set(t, "NO_FILE")}
                        ELSE IfOk(IF creates(t) THEN Truncate(entry(t)) ELSE {t},
                                  LAMBDA u : {[u EXCEPT !.f = opened(u, creates(t))]}))

-----------------------------------------------------------------------------
(* Mounting, and the calls as steps *)

RamLost(s) ==
    [card |-> s.card, info |-> s.info, data |-> s.data,
     faults |-> s.faults, crashes |-> s.crashes, call |-> s.call,
     win |-> Boot, winsect |-> 0, wflag |-> FALSE, fsi_flag |-> FALSE,
     free_clust |-> Bad, last_clust |-> 0,
     open |-> [n \in Names |-> NoFile], f |-> NoFile, n |-> "none", got |-> <<>>,
     x |-> 0, ncl |-> 0, res |-> "OK", live |-> TRUE, cut |-> s.cut]

\* chk_mounted's last part; the FSInfo sector may be unreadable.
Mounted(s) ==
    LET ram == RamLost(s)
    IN  {Set(t, "OK") : t \in
            DiskRead(ram, [ram EXCEPT !.free_clust = s.info.free,
                                      !.last_clust = s.info.last])}

\* A card that holds file n, of HeldLen bytes, in its first clusters.
HeldBytes(n) == [i \in 1 .. HeldLen |-> Byte(n, i - 1, 0)]
Card(n) ==
    LET used == 2 .. 1 + (HeldLen + Bytes - 1) \div Bytes
        link(c) == IF c \notin used THEN 0 ELSE IF c + 1 \in used THEN c + 1 ELSE LastLink
        byte(p) == IF p < HeldLen THEN HeldBytes(n)[p + 1] ELSE AnyByte
    IN  [card |-> [sect \in {0, DirSector} \cup FatSectors |->
                     IF sect = 0 THEN Boot
                     ELSE IF sect = DirSector
                     THEN [m \in Names |-> IF m # n THEN NoEntry
                                           ELSE [sclust |-> 2, size |-> HeldLen]]
                     ELSE [c \in {d \in Clusters : FatSector(d) = sect} |-> link(c)]],
         info |-> [free |-> Cardinality(Clusters \ used), last |-> 1 + Cardinality(used)],
         data |-> [sect \in DataSectors |->
                     [k \in 0 .. SS - 1 |-> byte((sect - 2 * CSize) * SS + k)]],
         faults |-> MaxFaults, crashes |-> MaxCrashes, call |-> 0, cut |-> FALSE]

FatInit ==
    \E n \in Names :
        /\ v \in Mounted(Card(n))
        /\ wrote = [m \in Names |-> IF m = n THEN HeldBytes(n) ELSE Unknown]
        /\ kept = wrote
        /\ last = "fine"

IsOpen(n) == v.open[n].flags # {}


\* Run Op on file n as one step. Either the power goes, and what is known of the
\* files is what they held when last closed, except for n if Op changes it, or
\* Done says what the caller knows then.
Call(n, changes, Op(_), Done(_)) ==
    /\ changes => v.call < MaxCalls
    /\ \E t \in Op([v EXCEPT !.f = v.open[n], !.n = n, !.res = "OK",
                             !.call = IF changes THEN @ + 1 ELSE @]) :
         IF t.live
         THEN /\ v' = [t EXCEPT !.open[n] = t.f, !.f = NoFile, !.n = "none", !.got = <<>>,
                                !.x = 0, !.res = "OK"]
              /\ Done(t)
         ELSE /\ v' \in Mounted(t)
              /\ kept' = IF changes THEN [kept EXCEPT ![n] = Unknown] ELSE kept
              /\ wrote' = kept'
              /\ last' = "fine"

Know(n, w, k) == /\ wrote' = [wrote EXCEPT ![n] = w]
                 /\ kept' = [kept EXCEPT ![n] = k]

FOpen(n, mode) ==
    LET creates == FatMode[mode] \cap {"CREATE_ALWAYS", "OPEN_ALWAYS"} # {}
        done(t) == /\ last' = "fine"
                   /\ IF t.res = "OK" /\ "WRITTEN" \in t.f.flags
                      THEN Know(n, <<>>, Unknown)
                      ELSE IF t.res = "OK" \/ ~creates THEN UNCHANGED <<wrote, kept>>
                      ELSE Know(n, Unknown, Unknown)
    IN  /\ ~IsOpen(n)
        /\ "W" \in FatMode[mode] => v.call < MaxCalls
        /\ Call(n, creates, LAMBDA s : f_open(s, mode), done)

\* mmcfs.c forgets the file whether or not f_close succeeds.
FClose(n) ==
    LET close(s) == Then(f_sync(s), LAMBDA t : {[t EXCEPT !.f = NoFile]})
        done(t) == /\ last' = "fine"
                   /\ IF t.res = "OK" THEN Know(n, wrote[n], wrote[n])
                      ELSE Know(n, Unknown, Unknown)
    IN  /\ IsOpen(n)
        /\ Call(n, FALSE, close, done)

\* Whether bytes agree with what is known of a file, from position at on.
Matches(bytes, known, at) ==
    \A i \in 1 .. Len(bytes) : known[at + i] \in {AnyByte, bytes[i]}

FRead(n, len) ==
    LET at == v.open[n].fptr
        known == wrote[n]
        right(bytes) == known # Unknown =>
                          /\ Len(bytes) = Least(len, Len(known) - at)
                          /\ Matches(bytes, known, at)
        done(t) == /\ UNCHANGED <<wrote, kept>>
                   /\ last' = IF t.res = "OK" /\ ~right(t.got) THEN "misread" ELSE "fine"
    IN  /\ IsOpen(n) /\ "R" \in v.open[n].flags
        /\ Call(n, FALSE, LAMBDA s : f_read(s, len), done)

\* The bytes of n after bytes from .. to - 1 were written by call k.
Over(n, from, to, size, k) ==
    IF wrote[n] = Unknown THEN Unknown
    ELSE [i \in 1 .. size |-> IF from < i /\ i <= to THEN Byte(n, i - 1, k)
                              ELSE IF i <= Len(wrote[n]) THEN wrote[n][i] ELSE AnyByte]

FWrite(n, len) ==
    LET at == v.open[n].fptr
        done(t) == /\ IF t.res = "OK"
                      THEN Know(n, Over(n, at, t.f.fptr, t.f.fsize, t.call), Unknown)
                      ELSE Know(n, Unknown, Unknown)
                   /\ last' = IF t.res = "OK" /\ t.f.fptr < at + len THEN "short"
                              ELSE "fine"
    IN  /\ IsOpen(n) /\ "W" \in v.open[n].flags
        /\ Call(n, TRUE, LAMBDA s : f_write(s, len), done)

FLseek(n, ofs) ==
    LET writes == "W" \in v.open[n].flags
        done(t) == /\ IF t.res = "OK" /\ t.f.fsize = v.open[n].fsize
                      THEN UNCHANGED <<wrote, kept>>
                      ELSE IF t.res = "OK"
                      THEN Know(n, Over(n, 0, 0, t.f.fsize, 0), Unknown)
                      ELSE Know(n, Unknown, Unknown)
                   /\ last' = IF t.res = "OK" /\ writes /\ t.f.fptr < ofs THEN "short"
                              ELSE "fine"
    IN  /\ IsOpen(n)
        /\ Call(n, writes, LAMBDA s : f_lseek(s, ofs), done)

\* The power goes between two calls.
PowerOff ==
    /\ \E t \in Lost(v) : v' \in Mounted(t)
    /\ wrote' = kept /\ UNCHANGED kept
    /\ last' = "fine"

FatNext ==
    \/ \E n \in Names :
         \/ \E mode \in Modes : FOpen(n, mode)
         \/ \E len \in Reads : FRead(n, len)
         \/ \E len \in Writes : FWrite(n, len)
         \/ \E ofs \in Offsets : FLseek(n, ofs)
         \/ FClose(n)
    \/ PowerOff

FatSpec == FatInit /\ [][FatNext]_fatVars

-----------------------------------------------------------------------------
(* Properties *)

FatOf(s) == [c \in Clusters |-> s.card[FatSector(c)][c]]
FatSeen(s) == [c \in Clusters |-> IF s.winsect = FatSector(c) THEN s.win[c]
                                  ELSE s.card[FatSector(c)][c]]
DirSeen(s) == IF s.winsect = DirSector THEN s.win ELSE s.card[DirSector]

\* Where a chain from c is after each number of links: clusters, and then for ever
\* the value that ended it.
Follow(fat, c) == IF c \in Clusters THEN fat[c] ELSE c
Chain(fat, c) == LET link[k \in 0 .. NFatEnt] == IF k = 0 THEN c ELSE Follow(fat, link[k - 1])
                 IN  link
Owned(chain) == {chain[k] : k \in 0 .. NFatEnt} \cap Clusters

\* A map from names to (start, size) is sound in a FAT: each chain ends, none
\* runs into a free cluster or into another one, and, when long, each holds its
\* file, unless it starts at the error value (f_write leaves it in sclust).
Sound(fat, files, long) ==
    LET chain == [n \in Names |-> Chain(fat, files[n].sclust)]
    IN  /\ \A n \in Names :
             /\ IF files[n].sclust \in Clusters THEN chain[n][NFatEnt] = LastLink
                ELSE files[n].sclust \in {-1, 0, Bad}
             /\ long /\ files[n].sclust # Bad =>
                  \A k \in 0 .. NFatEnt :
                     k * Bytes < files[n].size => chain[n][k] \in Clusters
        /\ \A m, n \in Names : m # n => Owned(chain[m]) \cap Owned(chain[n]) = {}

FilesSeen(s) == [n \in Names |-> IF "W" \in s.open[n].flags
                                 THEN [sclust |-> s.open[n].sclust, size |-> s.open[n].fsize]
                                 ELSE DirSeen(s)[n]]

\* What a sector can hold, by its kind; a start that is Bad came from a read that
\* failed.
Sectors == {0, DirSector} \cup FatSectors
Entries == {NoEntry, Empty} \cup [sclust : {Bad} \cup Clusters, size : Nat]
Links   == {0, LastLink} \cup Clusters
Content(sect) ==
    IF sect = 0 THEN {Boot, FsInfo}
    ELSE IF sect = DirSector THEN [Names -> Entries]
    ELSE [{c \in Clusters : FatSector(c) = sect} -> Links]
Contents == UNION {Content(sect) : sect \in Sectors}
DataBytes == {AnyByte} \cup (Names \X Nat \X {0, 1})
SectorBytes == [0 .. SS - 1 -> DataBytes]
Files == [flags : SUBSET {"R", "W", "WRITTEN", "DIRTY", "ERROR"}, fptr : Nat, fsize : Nat,
          sclust : {0, Bad} \cup Clusters, clust : Nat, dsect : {0} \cup DataSectors,
          buf : SectorBytes]
Results == {"OK", "DISK_ERR", "INT_ERR", "DENIED", "FULL", "NO_FILE"}
States == [card : [Sectors -> Contents], info : [free : Nat, last : Nat],
           data : [DataSectors -> SectorBytes], faults : Nat, crashes : Nat, call : Nat,
           win : Contents, winsect : Sectors, wflag : BOOLEAN, fsi_flag : BOOLEAN,
           free_clust : Nat, last_clust : Nat, open : [Names -> Files], f : Files,
           n : Names \cup {"none"}, got : Seq(DataBytes), x : Nat, ncl : 0 .. NFatEnt - 1,
           res : Results, live : BOOLEAN, cut : BOOLEAN]

\* Every sector holds what its kind may, the window what the sector it stands for
\* may, and a clean window what that sector has; the one that stands for no sector
\* is clean.
WindowOK(s) ==
    /\ \A sect \in Sectors : s.card[sect] \in Content(sect)
    /\ s.card[0] = Boot
    /\ s.win \in Content(s.winsect)
    /\ s.winsect = 0 => ~s.wflag
    /\ ~s.wflag /\ s.winsect # 0 => s.win = s.card[s.winsect]

FatTypeOK == v \in States /\ WindowOK(v)

\* As the volume object sees it, with open files taken at their handles, the
\* chains of the files are finite, disjoint and never run into a free cluster,
\* whatever access failed; each is long enough for its file, but for a chain
\* whose link could not be read while it was stretched.
ChainsSound == Sound(FatSeen(v), FilesSeen(v), ~v.cut)

\* The same holds of the card alone, at any time the power may go: the one
\* window is written back in an order that never lets an entry precede its
\* chain, or a freed cluster be someone's.
CrashSound == Sound(FatOf(v), v.card[DirSector], ~v.cut)

\* What f_read returns is what f_write was given, across the file's sector
\* buffer, direct transfers, seeks, reopening and restarts.
ReadBack == ~v.cut => last # "misread"

\* The bytes of n as the card alone has them.
OnCard(n) ==
    LET entry == v.card[DirSector][n]
        chain == Chain(FatOf(v), entry.sclust)
        byte(p) == v.data[chain[p \div Bytes] * CSize + ((p \div SS) % CSize)][p % SS]
    IN  [i \in 1 .. entry.size |-> byte(i - 1)]

\* The files that f_close said OK for, but whose size, chain or bytes on the card are others.
Damaged ==
    {n \in Names : /\ kept[n] # Unknown
                   /\ \/ v.card[DirSector][n].size # Len(kept[n])
                      \/ \E k \in 0 .. NFatEnt :
                            /\ k * Bytes < Len(kept[n])
                            /\ Chain(FatOf(v), v.card[DirSector][n].sclust)[k] \notin Clusters
                      \/ ~Matches(OnCard(n), kept[n], 0)}

\* A file that f_close said OK for is on the card, complete, from then on: it survives the
\* power going at any point of any later call on another file.  A link that cannot be read
\* while a chain is stretched (ff.c:992-994) costs that one file, and no other.
SyncedKept == Cardinality(Damaged) <= IF v.cut THEN MaxFaults - v.faults ELSE 0

\* While nothing has failed, free_clust is the number of free clusters, every
\* other cluster belongs to a file, and a call falls short only on a full disk.
Accounts ==
    v.faults = MaxFaults /\ v.crashes = MaxCrashes =>
        LET free == {c \in Clusters : FatSeen(v)[c] = 0}
            owned == UNION {Owned(Chain(FatSeen(v), FilesSeen(v)[n].sclust)) : n \in Names}
        IN  /\ v.free_clust \in {Bad, Cardinality(free)}
            /\ owned = Clusters \ free
            /\ last = "short" => free = {}

\* The boot sector is never written, although put_fat marks the window changed
\* even when it could not be moved and sync leaves it standing for sector 0.
BootKept == v.card[0] = Boot
=============================================================================
