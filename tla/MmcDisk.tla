------------------------------- MODULE MmcDisk -------------------------------
(***************************************************************************)
(* The disk layer (mmcbb.c): the card protocol over the byte exchanges     *)
(* that SpiBytes promises, and the disk functions FatFs calls.             *)
(*                                                                         *)
(* A step is a byte exchange that decides something (a try of a waiting    *)
(* loop, an answer) or a group whose bytes have one effect (a command, a   *)
(* block).  pc is the place in a disk function, sub the place in the       *)
(* routine it has called, which returns d.                                 *)
(*                                                                         *)
(* The card is external.  It may be taken out and pushed in at any step,   *)
(* be late, refuse a command or a block.  It answers within ten bytes if   *)
(* at all; a read under way ends with the next command, a write that still *)
(* waits for its block ends with the select.  A card just pushed in does   *)
(* not hear a command before CMD0.                                         *)
(***************************************************************************)
EXTENDS Naturals, Sequences

CONSTANTS
    Kinds,                                \* the kinds of card there are
    Sector, Counts,                       \* sectors asked for, and how many at a time
    ReadyTries, TokenTries, InitTries,    \* 5000, 1000 and 1000 tries
    None

ASSUME KindAssumption == Kinds \subseteq {"MMC", "SD1", "SD2", "SDHC"} /\ Kinds # {}
ASSUME TriesAssumption ==
    /\ Sector \subseteq Nat /\ Counts \subseteq Nat
    /\ {ReadyTries, TokenTries, InitTries} \subseteq Nat \ {0}

FF   == 255
HCS  == 2^30

\* The commands in use; ACMD marks those that CMD55 announces.  Sync and Stop are no
\* commands: select() alone, and the stop token.
CMD0  == 0
CMD8  == 8
CMD9  == 9
CMD12 == 12
CMD16 == 16
CMD17 == 17
CMD18 == 18
CMD24 == 24
CMD25 == 25
CMD55 == 55
CMD58 == 58
ACMD   == 128
ACMD23 == ACMD + 23
ACMD41 == ACMD + 41
Sync   == 126
Stop   == 127

VARIABLES
    \* the socket: what is in it, and the answer on its way
    card, answer,
    \* mmcbb.c: static variables, chip select
    Stat, CardType, ncs,
    \* the call in progress, the place in it, its local variables and result
    fn, pc, s, ty, left, tries, res,
    \* the routine in progress: its place, command, CMD55 to come first, tries left
    sub, cmd, arg, app, tmr, d,
    \* history of the call: blocks moved, has the card been changed, did it fail or delay
    moved, changed, fault

socket  == <<card, answer>>
locals  == <<fn, s, ty, left, tries>>
routine == <<cmd, arg, app>>
statics == <<Stat, CardType>>
vars    == <<socket, statics, ncs, locals, pc, res, sub, routine, tmr, d, moved, changed, fault>>

Call == [op : {"status", "initialize", "sync", "count", "size"}, sector : {0}, count : {0}]
        \cup [op : {"read", "write"}, sector : Sector, count : Counts]
Card == [kind : Kinds, wp : BOOLEAN, phase : {"power", "idle", "ready"}, app : BOOLEAN,
         busy : BOOLEAN, doing : {"none", "out", "in"}, many : BOOLEAN, at : Nat]

ASSUME NoneAssumption == None \notin Card

TypeOK ==
    /\ card \in Card \cup {None} /\ answer \in {0, 1, 4, 5, 64, FF}
    /\ Stat \subseteq {"NOINIT", "NODISK", "PROTECT"} /\ s \subseteq {"NOINIT", "NODISK", "PROTECT"}
    /\ CardType \subseteq {"MMC", "SD1", "SD2", "BLOCK"} /\ ty \subseteq {"MMC", "SD1", "SD2", "BLOCK"}
    /\ ncs \in {0, 1} /\ fn \in Call /\ left \in Nat /\ tries \in 0 .. InitTries
    /\ res \in {"none", "OK", "ERROR", "NOTRDY", "WRPRT", "PARERR"}
    /\ sub \in {"none", "select", "ready", "xmit", "resp", "token", "data", "wready", "wdata"}
    /\ cmd \in Nat /\ arg \in Nat /\ app \in BOOLEAN /\ tmr \in Nat /\ d \in {0, 1, 4, 5, 64, FF}
    /\ changed \in BOOLEAN /\ fault \in BOOLEAN

Fresh(kind, wp) == [kind |-> kind, wp |-> wp, phase |-> "power", app |-> FALSE,
                    busy |-> FALSE, doing |-> "none", many |-> FALSE, at |-> 0]

Init ==
    /\ card \in {None} \cup {Fresh(k, w) : k \in Kinds, w \in BOOLEAN} /\ answer = FF
    /\ Stat = {"NOINIT"} /\ CardType = {} /\ ncs = 1
    /\ fn = [op |-> "status", sector |-> 0, count |-> 0] /\ pc = "idle" /\ s = {} /\ ty = {}
    /\ left = 0 /\ tries = 0 /\ res = "none" /\ sub = "none" /\ cmd = 0 /\ arg = 0
    /\ app = FALSE /\ tmr = 0 /\ d = 0 /\ moved = <<>> /\ changed = FALSE /\ fault = FALSE

-----------------------------------------------------------------------------
(* The card. *)

Swap(c) == /\ card' = c /\ answer' = FF /\ changed' = TRUE
           /\ UNCHANGED <<statics, ncs, locals, pc, res, sub, routine, tmr, d, moved, fault>>

CardOut == card # None /\ Swap(None)
CardIn  == card = None /\ \E k \in Kinds, w \in BOOLEAN : Swap(Fresh(k, w))

Hears(c) == card # None /\ (card.phase # "power" \/ c = CMD0)
Ready    == card.phase = "ready"
R1       == IF Ready THEN 0 ELSE 1

\* The sector a card takes an address for.
Place(a) == IF card.kind = "SDHC" THEN a ELSE a \div 512

\* A command ends whatever the card was doing.
Becomes(c, r) == card' = [c EXCEPT !.app = FALSE] /\ answer' = r
Heard         == [card EXCEPT !.doing = "none"]
Refuses       == Becomes(Heard, R1 + 4) /\ UNCHANGED fault
Accepts       == Becomes(Heard, R1) /\ UNCHANGED fault

\* Command c with argument a to a card that hears it.
GoIdle(c) == /\ c = CMD0 /\ Becomes([Fresh(card.kind, card.wp) EXCEPT !.phase = "idle"], 1)
             /\ UNCHANGED fault

IfCond(c) == c = CMD8 /\ IF card.kind \in {"SD2", "SDHC"} THEN Accepts ELSE Refuses

AppCmd(c) == c = CMD55 /\ IF card.kind = "MMC" THEN Refuses
                          ELSE card' = [Heard EXCEPT !.app = TRUE] /\ answer' = R1 /\ UNCHANGED fault

\* It takes the card its time to leave the idle state, but no more than InitTries.
OpCond(c, a) ==
    LET leaves == Ready \/ card.kind # "SDHC" \/ a = HCS IN
    /\ c = 41
    /\ IF ~card.app THEN Refuses
       ELSE \/ ~Ready /\ Becomes(Heard, 1) /\ fault' = (fault \/ (leaves /\ tries = 1))
            \/ leaves /\ Becomes([Heard EXCEPT !.phase = "ready"], 0) /\ UNCHANGED fault

Simple(c) == c \in {CMD16, 23, CMD58} /\ IF Ready \/ c = CMD58 THEN Accepts ELSE Refuses

StopOut(c) == /\ c = CMD12 /\ Becomes([Heard EXCEPT !.busy = card.doing = "out"], R1)
              /\ UNCHANGED fault

Data(c, a) ==
    /\ c \in {CMD9, CMD17, CMD18, CMD24, CMD25}
    /\ IF ~Ready THEN Refuses
       ELSE \/ /\ Becomes([card EXCEPT !.doing = IF c \in {CMD24, CMD25} THEN "in" ELSE "out",
                                       !.many = c \in {CMD18, CMD25},
                                       !.at = IF c = CMD9 THEN 0 ELSE Place(a)], 0)
               /\ UNCHANGED fault
            \/ Becomes(Heard, 64) /\ fault' = TRUE

CardCommand(c, a) ==
    IF ~Hears(c) THEN card' = card /\ answer' = FF /\ UNCHANGED fault
    ELSE GoIdle(c) \/ IfCond(c) \/ AppCmd(c) \/ OpCond(c, a) \/ Simple(c) \/ StopOut(c) \/ Data(c, a)

\* Deselected, the card gives up waiting for a block.
Reselected == IF card = None \/ card.doing # "in" THEN card ELSE [card EXCEPT !.doing = "none"]

\* What the line shows of a selected card: it is quiet, or something is under way.
Busy       == card # None /\ card.busy
Sending    == card # None /\ card.doing = "out"
Taking     == card # None /\ card.doing = "in"

-----------------------------------------------------------------------------
(* send_cmd, wait_ready, rcvr_datablock, xmit_datablock: return d. *)

Returns(v) == sub' = "none" /\ d' = v
Running(p) == sub = p /\ UNCHANGED <<statics, locals, pc, res, changed>>

\* An ACMD is CMD55 and, unless that fails, the command itself.
SendCmd(c, a) == /\ sub' = "select" /\ cmd' = c % ACMD /\ arg' = a /\ app' = (c >= ACMD)
                 /\ UNCHANGED <<tmr, d>>
Command       == IF app THEN CMD55 ELSE cmd

Select ==
    /\ Running("select")
    /\ ncs' = 0 /\ card' = Reselected
    /\ sub' = "ready" /\ tmr' = ReadyTries
    /\ UNCHANGED <<answer, routine, d, moved, fault>>

\* A try of wait_ready: the line shows FFh, or not yet; then, after the last, timeout.
SeesReady(next) == /\ card' = IF Busy THEN [card EXCEPT !.busy = FALSE] ELSE card
                   /\ sub' = next /\ UNCHANGED <<ncs, tmr, d, fault>>

SeesBusy == /\ Busy \/ Sending
            /\ tmr' = tmr - 1 /\ UNCHANGED card
            /\ IF tmr > 1 THEN UNCHANGED <<ncs, sub, d, fault>>
               ELSE fault' = TRUE /\ Returns(FF) /\ ncs' = IF sub = "ready" THEN 1 ELSE ncs

WaitReady ==
    /\ Running("ready") \/ Running("wready")
    /\ SeesReady(IF sub = "ready" THEN "xmit" ELSE "wdata") \/ SeesBusy
    /\ UNCHANGED <<answer, routine, moved>>

Xmit ==
    /\ Running("xmit")
    /\ IF cmd = Sync THEN Returns(0) /\ UNCHANGED <<socket, fault>>
                     ELSE CardCommand(Command, arg) /\ sub' = "resp" /\ UNCHANGED d
    /\ UNCHANGED <<ncs, routine, tmr, moved>>

Resp ==
    /\ Running("resp")
    /\ IF app /\ answer <= 1 THEN app' = FALSE /\ sub' = "select" /\ UNCHANGED d
                             ELSE Returns(answer) /\ UNCHANGED app
    /\ answer' = FF /\ UNCHANGED <<card, ncs, cmd, arg, tmr, moved, fault>>

Recv == sub' = "token" /\ tmr' = TokenTries /\ UNCHANGED <<routine, d>>

TokenForever ==                                \* mutant: no timeout
    /\ Running("token") /\ Sending
    /\ sub' = "data" /\ UNCHANGED <<socket, ncs, routine, tmr, d, moved, fault>>

\* A try for the data token: it comes, an error token does, or nothing yet.
Token ==
    /\ Running("token")
    /\ \/ Sending /\ sub' = "data" /\ UNCHANGED <<tmr, d, fault>>
       \/ Sending /\ Returns(FF) /\ fault' = TRUE /\ UNCHANGED tmr
       \/ /\ tmr' = tmr - 1
          /\ IF tmr > 1 THEN UNCHANGED <<sub, d, fault>>
                        ELSE Returns(FF) /\ fault' = (fault \/ Sending)
    /\ UNCHANGED <<socket, ncs, routine, moved>>

\* A block of the card that was there when the call began, or of another.
Block == Append(moved, IF changed \/ card = None THEN None ELSE card.at)

RecvData ==
    /\ Running("data")
    /\ Returns(0)
    /\ moved' = Block
    /\ IF Sending THEN card' = [card EXCEPT !.at = @ + 1, !.doing = IF card.many THEN "out" ELSE "none"]
                  ELSE UNCHANGED card
    /\ UNCHANGED <<answer, ncs, routine, tmr, fault>>

Send(stop) == /\ sub' = "wready" /\ tmr' = ReadyTries /\ cmd' = stop
              /\ UNCHANGED <<arg, app, d>>

\* The block (or the stop token) goes out, and the card takes it, or does not.
SendData ==
    /\ Running("wdata")
    /\ \/ /\ cmd = Stop /\ Returns(0)
          /\ card' = IF Taking THEN [card EXCEPT !.doing = "none", !.busy = TRUE] ELSE card
          /\ UNCHANGED <<moved, fault>>
       \/ /\ cmd # Stop /\ Taking /\ Returns(0)
          /\ card' = [card EXCEPT !.at = @ + 1, !.busy = TRUE, !.doing = IF card.many THEN "in" ELSE "none"]
          /\ moved' = Block /\ UNCHANGED fault
       \/ /\ cmd # Stop /\ Returns(FF)
          /\ fault' = TRUE /\ UNCHANGED <<card, moved>>
    /\ UNCHANGED <<answer, ncs, routine, tmr>>
-----------------------------------------------------------------------------
(* The disk functions.  At a place, d is what the last routine returned. *)

Begin ==
    /\ pc = "idle"
    /\ fn' \in Call /\ pc' = IF fn'.op = "initialize" THEN "port" ELSE "ins"
    /\ left' = IF fn'.op \in {"read", "write"} THEN fn'.count ELSE 1
    /\ res' = "none" /\ moved' = <<>> /\ changed' = FALSE /\ fault' = FALSE
    /\ UNCHANGED <<socket, statics, ncs, s, ty, tries, sub, routine, tmr, d>>

At(p)   == pc = p /\ sub = "none" /\ UNCHANGED <<socket, fn, moved, changed, fault>>
Goes(p) == pc' = p /\ UNCHANGED res
Calls   == UNCHANGED <<statics, ncs, s>>       \* and one of SendCmd, Recv, Send
NoCall  == UNCHANGED <<sub, routine, tmr, d>>

\* The end of a call; its local variables are gone.
Return(r) == /\ pc' = "idle" /\ res' = r
             /\ s' = {} /\ ty' = {} /\ left' = 0 /\ tries' = 0
             /\ cmd' = 0 /\ arg' = 0 /\ app' = FALSE /\ tmr' = 0 /\ d' = 0 /\ UNCHANGED sub

\* disk_status, by itself and first in every other function.
InitPort == At("port") /\ ncs' = 1 /\ Goes("ins") /\ NoCall /\ UNCHANGED <<statics, s, ty, left, tries>>

Ins ==
    /\ At("ins")
    /\ IF card = None THEN s' = {"NODISK", "NOINIT"} /\ Stat' = s' /\ Goes("known")
                      ELSE s' = Stat \ {"NODISK"} /\ Goes("wp") /\ UNCHANGED Stat
    /\ NoCall /\ UNCHANGED <<CardType, ncs, ty, left, tries>>

Wp ==
    /\ At("wp")
    /\ s' = IF card = None \/ card.wp THEN s \cup {"PROTECT"} ELSE s \ {"PROTECT"}
    /\ IF "NOINIT" \in s THEN Stat' = s' /\ Goes("known") /\ NoCall
                         ELSE SendCmd(CMD58, 0) /\ Goes("ocr") /\ UNCHANGED Stat
    /\ UNCHANGED <<CardType, ncs, ty, left, tries>>

StillInitialized == {}                         \* mutant: CMD58's answer is ignored
NotInitialized == IF d # 0 THEN {"NOINIT"} ELSE {}

Ocr ==
    /\ At("ocr")
    /\ s' = s \cup NotInitialized /\ Stat' = s' /\ ncs' = 1 /\ Goes("known")
    /\ NoCall /\ UNCHANGED <<CardType, ty, left, tries>>

StatusEnds ==
    /\ At("known")
    /\ fn.op = "status" \/ (fn.op = "initialize" /\ "NODISK" \in s)
    /\ Return("none") /\ UNCHANGED <<statics, ncs>>

Transfer == fn.op \notin {"status", "initialize"}

NeverProtected == FALSE                        \* mutant: the switch is not looked at
Protected      == fn.op = "write" /\ "PROTECT" \in s

Refused ==
    /\ At("known") /\ Transfer
    /\ \/ "NOINIT" \in s /\ Return("NOTRDY")
       \/ "NOINIT" \notin s /\ Protected /\ Return("WRPRT")
       \/ "NOINIT" \notin s /\ ~Protected /\ left = 0 /\ Return("PARERR")
    /\ UNCHANGED <<statics, ncs>>

\* disk_initialize
Idle ==
    /\ At("known") /\ fn.op = "initialize" /\ "NODISK" \notin s
    /\ ncs' = 1 /\ SendCmd(CMD0, 0) /\ Goes("cmd0") /\ UNCHANGED <<statics, s, ty, left, tries>>

Finish(t) ==
    /\ CardType' = t
    /\ Stat' = IF t = {} THEN s \cup {"NOINIT"} ELSE s \ {"NOINIT"}
    /\ ncs' = 1 /\ Return("none")

OpConds(a, p) == /\ tries' = (IF tries = 0 THEN InitTries ELSE tries - 1)
                 /\ SendCmd(ACMD41, a) /\ Goes(p) /\ Calls /\ UNCHANGED left

Cmd0 ==
    /\ At("cmd0")
    /\ IF d = 1 THEN SendCmd(CMD8, 426) /\ Goes("cmd8") /\ Calls /\ UNCHANGED <<ty, left, tries>>
                ELSE Finish({})

\* The card echoes 1AAh, or has been pulled out.
Echoed == card # None /\ card.phase # "power"

Cmd8 ==
    /\ At("cmd8")
    /\ \/ d = 1 /\ Echoed /\ OpConds(HCS, "hcs") /\ UNCHANGED ty
       \/ d = 1 /\ ~Echoed /\ Finish({})
       \/ d # 1 /\ SendCmd(ACMD41, 0) /\ Goes("probe") /\ Calls /\ UNCHANGED <<ty, left, tries>>

Hcs ==
    /\ At("hcs")
    /\ \/ d = 0 /\ SendCmd(CMD58, 0) /\ Goes("ccs") /\ Calls /\ UNCHANGED <<ty, left, tries>>
       \/ d # 0 /\ tries > 1 /\ OpConds(HCS, "hcs") /\ UNCHANGED ty
       \/ d # 0 /\ tries = 1 /\ Finish({})

\* Bit CCS of the OCR; a line that no card drives reads as 1.
CCS == Echoed => card.kind = "SDHC"

Ccs == At("ccs") /\ Finish(IF d # 0 THEN {} ELSE IF CCS THEN {"SD2", "BLOCK"} ELSE {"SD2"})

Probe == At("probe") /\ ty' = (IF d <= 1 THEN {"SD1"} ELSE {"MMC"}) /\ OpConds(0, "opcond")

OpCondSent ==
    /\ At("opcond")
    /\ \/ d = 0 /\ SendCmd(CMD16, 512) /\ Goes("cmd16") /\ Calls /\ UNCHANGED <<ty, left, tries>>
       \/ d # 0 /\ tries > 1 /\ OpConds(0, "opcond") /\ UNCHANGED ty
       \/ d # 0 /\ tries = 1 /\ Finish({})

\* mutant: CMD16's answer is not looked at
Cmd16Unheard == At("cmd16") /\ Finish(ty)
Cmd16 == At("cmd16") /\ Finish(IF d = 0 THEN ty ELSE {})

\* disk_read, disk_write, disk_ioctl
AddressInBytes == fn.sector * 512              \* mutant: block addressing forgotten
Address == IF "BLOCK" \in CardType THEN fn.sector ELSE fn.sector * 512

SDC == CardType \cap {"SD1", "SD2"} # {}

Start ==
    /\ At("known") /\ Transfer
    /\ "NOINIT" \notin s /\ ~Protected /\ left > 0
    /\ \/ fn.op = "sync" /\ SendCmd(Sync, 0) /\ Goes("one")
       \/ fn.op = "count" /\ SendCmd(CMD9, 0) /\ Goes("recv")
       \/ fn.op = "read" /\ SendCmd(IF left = 1 THEN CMD17 ELSE CMD18, Address) /\ Goes("recv")
       \/ fn.op = "write" /\ left = 1 /\ SendCmd(CMD24, Address) /\ Goes("send")
       \/ fn.op = "write" /\ left > 1 /\ SDC /\ SendCmd(ACMD23, left) /\ Goes("acmd23")
       \/ fn.op = "write" /\ left > 1 /\ ~SDC /\ SendCmd(CMD25, Address) /\ Goes("send")
    /\ Calls /\ UNCHANGED <<ty, left, tries>>

\* mutant: the card stays selected
EndSelected(n) == Return(IF n = 0 THEN "OK" ELSE "ERROR") /\ UNCHANGED <<statics, ncs>>
End(n) == Return(IF n = 0 THEN "OK" ELSE "ERROR") /\ ncs' = 1 /\ UNCHANGED statics

BlockSize == At("known") /\ fn.op = "size" /\ "NOINIT" \notin s /\ End(0)

Acmd23 == At("acmd23") /\ SendCmd(CMD25, Address) /\ Goes("send") /\ Calls /\ UNCHANGED <<ty, left, tries>>

\* Single or multiple, as the count said.
One  == cmd \notin {CMD18, CMD25}

Accepted ==
    /\ pc \in {"recv", "send"} /\ At(pc)
    /\ IF d # 0 THEN End(left)
       ELSE /\ IF pc = "recv" THEN Recv ELSE Send(0)
            /\ Goes(IF One THEN "one" ELSE IF pc = "recv" THEN "more" ELSE "blocks")
            /\ Calls /\ UNCHANGED <<ty, left, tries>>

OneDone == At("one") /\ End(IF d = 0 THEN 0 ELSE left)

LeftAnyway == left - 1                         \* mutant: a block that failed counts
Left == IF d = 0 THEN left - 1 ELSE left

More ==
    /\ At("more")
    /\ left' = Left
    /\ IF d = 0 /\ left > 1 THEN Recv /\ Goes("more") ELSE SendCmd(CMD12, 0) /\ Goes("stop")
    /\ Calls /\ UNCHANGED <<ty, tries>>

Stopped == At("stop") /\ End(left)

Blocks ==
    /\ At("blocks")
    /\ left' = Left
    /\ IF d = 0 /\ left > 1 THEN Send(0) /\ Goes("blocks") ELSE Send(Stop) /\ Goes("stoptran")
    /\ Calls /\ UNCHANGED <<ty, tries>>

StopTran == At("stoptran") /\ End(IF d # 0 THEN 1 ELSE left)

Driver ==
    \/ Begin \/ InitPort \/ Ins \/ Wp \/ Ocr \/ StatusEnds \/ Refused
    \/ Idle \/ Cmd0 \/ Cmd8 \/ Hcs \/ Ccs \/ Probe \/ OpCondSent \/ Cmd16
    \/ Start \/ BlockSize \/ Acmd23 \/ Accepted \/ OneDone \/ More \/ Stopped \/ Blocks \/ StopTran
    \/ Select \/ WaitReady \/ Xmit \/ Resp \/ Token \/ RecvData \/ SendData

Next == CardOut \/ CardIn \/ Driver

Spec == Init /\ [][Next]_vars

\* The processor runs; nobody need call.
FairSpec == Spec /\ WF_vars(Driver /\ pc # "idle")

-----------------------------------------------------------------------------
(* Properties. *)

\* Whatever a call ends in, it leaves the card deselected (mmcbb.c:215-240, 392, 462,
\* 504, 547, 604).
Deselected == pc = "idle" => ncs = 1

\* The blocks of a transfer are those asked for, in order and from the sector asked
\* for, on every kind of card and however the call goes on; the one exception is a
\* block that was coming when the card was pulled out, whose CRC is discarded
\* (mmcbb.c:272-275, 487-505, 528-548).
InOrder ==
    \A i \in DOMAIN moved :
        moved[i] = fn.sector + i - 1 \/ (moved[i] = None /\ fn.op # "write" /\ i = Len(moved))

\* A call that returns RES_OK has done what it was asked: all blocks are moved, and after
\* CTRL_SYNC the card has nothing more to program (mmcbb.c:506, 549, 573-578).
OkIsComplete ==
    pc = "idle" /\ res = "OK" =>
        /\ fn.op \in {"read", "write"} => Len(moved) = fn.count
        /\ fn.op = "sync" /\ ~changed => ~Busy

\* A disk that counts as initialised is the card in the socket, in its ready state and
\* addressed as its kind wants it, unless the card was changed during the last call or
\* since; and an SD card that does nothing wrong does get initialised (mmcbb.c:372-398,
\* 425-460).
StatIsTrue ==
    pc = "idle" /\ ~changed =>
        /\ "NOINIT" \notin Stat =>
              /\ card # None /\ card.phase = "ready"
              /\ "BLOCK" \in CardType <=> card.kind = "SDHC"
              /\ "PROTECT" \in Stat <=> card.wp
        /\ fn.op = "initialize" /\ ~fault /\ card # None =>
              card.kind = "MMC" \/ "NOINIT" \notin Stat

\* No block of a write goes to a card whose switch says no, though the switch is looked at
\* once, at the start of a call, and the cards may be exchanged after that
\* (mmcbb.c:380-384, 525-527).
ProtectedKept ==
    [][fn.op = "write" /\ Len(moved') > Len(moved) => card # None /\ ~card.wp]_vars

\* The disk that FatFs sees: what a call has found so far.  An answer of 0 counts when
\* it comes: to CMD58 while asking, to the last command of an initialisation, to the
\* command of a transfer.
Zero == (sub = "resp" /\ answer = 0) \/ (sub = "none" /\ d = 0)

Op == IF pc = "idle" THEN "none"
      ELSE IF fn.op = "initialize" THEN "initialize"
      ELSE IF fn.op \in {"read", "write", "count"} THEN "move" ELSE "ask"

Saw == \/ Op = "ask" /\ \/ pc = "ocr" /\ Zero
                        \/ pc = "known" /\ "NOINIT" \notin s
                        \/ pc = "one"
       \/ Op = "initialize" /\ pc \in {"ccs", "cmd16"} /\ Zero
       \/ Op = "move" /\ \/ pc \in {"recv", "send"} /\ Zero
                         \/ pc \in {"one", "more", "stop", "blocks", "stoptran"}

Disk == INSTANCE CardDisk WITH
    present <- card # None, ready <- card # None /\ card.phase = "ready",
    noinit <- "NOINIT" \in Stat, op <- Op, saw <- Saw, good <- res = "OK"

\* STA_NOINIT is cleared by an initialisation only, and no call comes back with the disk
\* usable, or with RES_OK, that has not found a ready card in the socket in the course
\* of it, whenever cards are exchanged (mmcbb.c:372-607).
UsableWasReady == Disk!Spec

\* Every call ends, whatever the card does (mmcbb.c:192-206, 264-271, 429-450).
CallEnds == pc # "idle" ~> pc = "idle"
=============================================================================
