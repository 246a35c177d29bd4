---------------------------- MODULE MmcDisk_proofs ----------------------------
(***************************************************************************)
(* Proofs about MmcDisk, for every set of cards, sectors and counts, and   *)
(* however long the loops wait.                                            *)
(***************************************************************************)
EXTENDS MmcDisk, TLAPS

-----------------------------------------------------------------------------
(* The chip select. *)

\* disk_status begins deselected and ends so; a function that goes on from it calls
\* routines that select the card, and each way out deselects it.
SelectInv ==
    /\ pc = "idle" => ncs = 1
    /\ pc \in {"ins", "wp", "known"} => ncs = 1
    /\ pc \in {"idle", "port", "ins", "wp", "known"} => sub = "none"

LEMMA EndSelects == ASSUME NEW n, sub = "none", End(n) PROVE SelectInv'
  BY DEF SelectInv, End, Return

LEMMA FinishSelects == ASSUME NEW t, sub = "none", Finish(t) PROVE SelectInv'
  BY DEF SelectInv, Finish, Return

LEMMA StatusSelects ==
    ASSUME SelectInv, Begin \/ InitPort \/ Ins \/ Wp \/ Ocr \/ StatusEnds \/ Refused
    PROVE  SelectInv'
<1> USE DEF SelectInv, At, Goes, NoCall
<1>1. CASE Begin
  BY <1>1 DEF Begin
<1>2. CASE InitPort
  BY <1>2 DEF InitPort
<1>3. CASE Ins
  BY <1>3 DEF Ins
<1>4. CASE Wp
  BY <1>4 DEF Wp, SendCmd
<1>5. CASE Ocr
  BY <1>5 DEF Ocr
<1>6. CASE StatusEnds
  BY <1>6 DEF StatusEnds, Return
<1>7. CASE Refused
  BY <1>7 DEF Refused, Return
<1> QED BY <1>1, <1>2, <1>3, <1>4, <1>5, <1>6, <1>7

LEMMA InitializeSelects ==
    ASSUME SelectInv, Idle \/ Cmd0 \/ Cmd8 \/ Hcs \/ Ccs \/ Probe \/ OpCondSent \/ Cmd16
    PROVE  SelectInv'
<1> USE DEF At, Goes
<1>1. ASSUME NEW c, NEW a, NEW p, SendCmd(c, a), pc' = p,
             p \notin {"idle", "port", "ins", "wp", "known"}
      PROVE  SelectInv'
  BY <1>1 DEF SelectInv
<1>2. ASSUME NEW a, NEW p, OpConds(a, p), p \notin {"idle", "port", "ins", "wp", "known"}
      PROVE  SelectInv'
  BY <1>2 DEF OpConds, SelectInv
<1>3. CASE Idle
  BY <1>1, <1>3 DEF Idle
<1>4. CASE Cmd0
  BY <1>1, <1>4, FinishSelects DEF Cmd0
<1>5. CASE Cmd8
  BY <1>1, <1>2, <1>5, FinishSelects DEF Cmd8
<1>6. CASE Hcs
  BY <1>1, <1>2, <1>6, FinishSelects DEF Hcs
<1>7. CASE Ccs
  BY <1>7, FinishSelects DEF Ccs
<1>8. CASE Probe
  BY <1>2, <1>8 DEF Probe
<1>9. CASE OpCondSent
  BY <1>1, <1>2, <1>9, FinishSelects DEF OpCondSent
<1>10. CASE Cmd16
  BY <1>10, FinishSelects DEF Cmd16
<1> QED BY <1>3, <1>4, <1>5, <1>6, <1>7, <1>8, <1>9, <1>10

LEMMA TransferSelects ==
    ASSUME SelectInv,
           \/ Start \/ BlockSize \/ Acmd23 \/ Accepted \/ OneDone \/ More
           \/ Stopped \/ Blocks \/ StopTran
    PROVE  SelectInv'
<1> DEFINE Apart(p) == p \notin {"idle", "port", "ins", "wp", "known"}
<1>1. ASSUME Apart(pc') PROVE SelectInv'
  BY <1>1 DEF SelectInv
<1>2. CASE Start
  BY <1>1, <1>2 DEF Start, Goes
<1>3. CASE BlockSize
  BY <1>3, EndSelects DEF BlockSize, At
<1>4. CASE Acmd23
  BY <1>1, <1>4 DEF Acmd23, Goes
<1>5. CASE Accepted
  BY <1>1, <1>5, EndSelects DEF Accepted, Goes, At
<1>6. CASE OneDone
  BY <1>6, EndSelects DEF OneDone, At
<1>7. CASE More
  BY <1>1, <1>7 DEF More, Goes
<1>8. CASE Stopped
  BY <1>8, EndSelects DEF Stopped, At
<1>9. CASE Blocks
  BY <1>1, <1>9 DEF Blocks, Goes
<1>10. CASE StopTran
  BY <1>10, EndSelects DEF StopTran, At
<1> QED BY <1>2, <1>3, <1>4, <1>5, <1>6, <1>7, <1>8, <1>9, <1>10

LEMMA RoutineSelects ==
    ASSUME SelectInv, Select \/ WaitReady \/ Xmit \/ Resp \/ Token \/ RecvData \/ SendData
    PROVE  SelectInv'
<1>1. sub # "none" /\ pc' = pc
  BY DEF Select, WaitReady, Xmit, Resp, Token, RecvData, SendData, Running
<1> QED BY <1>1 DEF SelectInv

LEMMA SelectInvHolds == Spec => []SelectInv
<1>1. Init => SelectInv
  BY DEF Init, SelectInv
<1>2. SelectInv /\ [Next]_vars => SelectInv'
  <2> SUFFICES ASSUME SelectInv, [Next]_vars PROVE SelectInv'
    OBVIOUS
  <2>1. CASE UNCHANGED vars
    BY <2>1 DEF SelectInv, vars
  <2>2. CASE CardOut \/ CardIn
    BY <2>2 DEF SelectInv, CardOut, CardIn, Swap
  <2>3. CASE Driver
    BY <2>3, StatusSelects, InitializeSelects, TransferSelects, RoutineSelects DEF Driver
  <2> QED BY <2>1, <2>2, <2>3 DEF Next
<1> QED BY <1>1, <1>2, PTL DEF Spec

\* For every card and every end a call can take, the card is deselected between calls
\* (mmcbb.c:215-240, 392, 462, 504, 547, 604).
THEOREM DeselectedCorrect == Spec => []Deselected
<1>1. SelectInv => Deselected
  BY DEF SelectInv, Deselected
<1> QED BY <1>1, SelectInvHolds, PTL

-----------------------------------------------------------------------------
(* The card. *)

CardOK == card \in Card \cup {None} /\ answer \in {0, 1, 4, 5, 64, FF}

\* The card in the socket, its kind and write switch, is the one that was there.
SameCard == /\ card' = None <=> card = None
            /\ card # None => card'.wp = card.wp /\ card'.kind = card.kind

LEMMA FreshIsCard ==
    ASSUME NEW k \in Kinds, NEW w \in BOOLEAN, NEW p \in {"power", "idle", "ready"}
    PROVE  /\ Fresh(k, w) \in Card
           /\ [Fresh(k, w) EXCEPT !.phase = p] \in Card
           /\ [Fresh(k, w) EXCEPT !.phase = p].wp = w
           /\ [Fresh(k, w) EXCEPT !.phase = p].kind = k
  BY DEF Fresh, Card

LEMMA Answers ==
    ASSUME card \in Card, NEW c \in Card, c.wp = card.wp, c.kind = card.kind, NEW r \in {0, 1, 4, 5, 64, FF},
           Becomes(c, r)
    PROVE  CardOK' /\ SameCard
<1>1. [c EXCEPT !.app = FALSE] \in Card /\ [c EXCEPT !.app = FALSE].wp = card.wp
     /\ [c EXCEPT !.app = FALSE].kind = card.kind
  BY DEF Card
<1> QED BY <1>1, NoneAssumption DEF Becomes, CardOK, SameCard

LEMMA HeardIsCard == ASSUME card \in Card PROVE Heard \in Card /\ Heard.wp = card.wp /\ Heard.kind = card.kind
  BY DEF Card, Heard

\* Whatever a command does, it leaves the card what it is (mmcbb.c:319-357).
LEMMA CommandKeepsCard ==
    ASSUME CardOK, NEW c, NEW a \in Nat, CardCommand(c, a)
    PROVE  CardOK' /\ SameCard
<1>1. CASE ~Hears(c)
  BY <1>1 DEF CardCommand, CardOK, SameCard
<1>2. CASE Hears(c)
  <2>1. card \in Card
    BY <1>2 DEF Hears, CardOK
  <2>2. R1 \in {0, 1, 4, 5, 64, FF} /\ R1 + 4 \in {0, 1, 4, 5, 64, FF} /\ 0 \in {0, 1, 4, 5, 64, FF}
        /\ 1 \in {0, 1, 4, 5, 64, FF} /\ 64 \in {0, 1, 4, 5, 64, FF}
    BY DEF R1
  <2>3. Heard \in Card /\ Heard.wp = card.wp /\ Heard.kind = card.kind
    BY <2>1, HeardIsCard
  <2>4. CASE Refuses \/ Accepts
    BY <2>1, <2>2, <2>3, <2>4, Answers DEF Refuses, Accepts
  <2>5. CASE GoIdle(c)
    <3>1. card.kind \in Kinds /\ card.wp \in BOOLEAN
      BY <2>1 DEF Card
    <3> QED BY <2>1, <2>2, <2>5, <3>1, FreshIsCard, Answers DEF GoIdle
  <2>6. CASE AppCmd(c)
    <3>1. [Heard EXCEPT !.app = TRUE] \in Card /\ [Heard EXCEPT !.app = TRUE].wp = card.wp
          /\ [Heard EXCEPT !.app = TRUE].kind = card.kind
      BY <2>3 DEF Card
    <3>2. CASE Refuses
      BY <2>4, <3>2
    <3>3. CASE card' = [Heard EXCEPT !.app = TRUE] /\ answer' = R1
      BY <2>1, <2>2, <3>1, <3>3, NoneAssumption DEF CardOK, SameCard
    <3> QED BY <2>6, <3>2, <3>3 DEF AppCmd
  <2>7. CASE OpCond(c, a)
    <3>1. [Heard EXCEPT !.phase = "ready"] \in Card /\ [Heard EXCEPT !.phase = "ready"].wp = card.wp
          /\ [Heard EXCEPT !.phase = "ready"].kind = card.kind
      BY <2>3 DEF Card
    <3>2. \/ Refuses \/ Becomes(Heard, 1) \/ Becomes([Heard EXCEPT !.phase = "ready"], 0)
      BY <2>7 DEF OpCond
    <3> QED BY <2>1, <2>2, <2>3, <2>4, <3>1, <3>2, Answers
  <2>8. CASE StopOut(c)
    <3>1. /\ [Heard EXCEPT !.busy = card.doing = "out"] \in Card
          /\ [Heard EXCEPT !.busy = card.doing = "out"].wp = card.wp
          /\ [Heard EXCEPT !.busy = card.doing = "out"].kind = card.kind
      BY <2>3 DEF Card
    <3> QED BY <2>1, <2>2, <2>8, <3>1, Answers DEF StopOut
  <2>9. CASE Data(c, a)
    <3> DEFINE In   == IF c \in {CMD24, CMD25} THEN "in" ELSE "out"
               Many == c \in {CMD18, CMD25}
               At0  == IF c = CMD9 THEN 0 ELSE Place(a)
               Next0 == [card EXCEPT !.doing = In, !.many = Many, !.at = At0]
    <3>1. In \in {"none", "out", "in"} /\ Many \in BOOLEAN /\ At0 \in Nat
      BY DEF Place
    <3>2. Next0 \in Card /\ Next0.wp = card.wp /\ Next0.kind = card.kind
      <4> HIDE DEF In, Many, At0
      <4> QED BY <2>1, <3>1 DEF Card
    <3>3. Refuses \/ Becomes(Next0, 0) \/ Becomes(Heard, 64)
      BY <2>9 DEF Data
    <3> HIDE DEF Next0
    <3> QED BY <2>1, <2>2, <2>3, <2>4, <3>2, <3>3, Answers
  <2>10. Refuses \/ Accepts \/ GoIdle(c) \/ AppCmd(c) \/ OpCond(c, a) \/ StopOut(c) \/ Data(c, a)
    BY <1>2 DEF CardCommand, IfCond, Simple
  <2> QED BY <2>4, <2>5, <2>6, <2>7, <2>8, <2>9, <2>10
<1> QED BY <1>1, <1>2

LEMMA CardMovesOn ==
    ASSUME NEW c \in Card, NEW o \in {"none", "out", "in"}
    PROVE  /\ [c EXCEPT !.at = c.at + 1, !.doing = o] \in Card
           /\ [c EXCEPT !.at = c.at + 1, !.doing = o].wp = c.wp /\ [c EXCEPT !.at = c.at + 1, !.doing = o].kind = c.kind
           /\ [c EXCEPT !.at = c.at + 1, !.busy = TRUE, !.doing = o] \in Card
           /\ [c EXCEPT !.at = c.at + 1, !.busy = TRUE, !.doing = o].wp = c.wp /\ [c EXCEPT !.at = c.at + 1, !.busy = TRUE, !.doing = o].kind = c.kind
<1>1. \A n \in Nat : /\ [c EXCEPT !.at = n, !.doing = o] \in Card
                     /\ [c EXCEPT !.at = n, !.busy = TRUE, !.doing = o] \in Card
  BY DEF Card
<1>2. c.at + 1 \in Nat
  BY DEF Card
<1>3. \A n : /\ [c EXCEPT !.at = n, !.doing = o].wp = c.wp
             /\ [c EXCEPT !.at = n, !.doing = o].kind = c.kind
             /\ [c EXCEPT !.at = n, !.busy = TRUE, !.doing = o].wp = c.wp
             /\ [c EXCEPT !.at = n, !.busy = TRUE, !.doing = o].kind = c.kind
  BY DEF Card
<1> QED BY <1>1, <1>2, <1>3

\* A routine's steps: what they do to the card.
LEMMA RoutineKeepsCard ==
    ASSUME CardOK, arg \in Nat,
           Select \/ WaitReady \/ Xmit \/ Resp \/ Token \/ RecvData \/ SendData
    PROVE  CardOK' /\ SameCard
<1>1. ASSUME card' = card, answer' \in {answer, FF} PROVE CardOK' /\ SameCard
  BY <1>1 DEF CardOK, SameCard
<1>2. ASSUME card \in Card, card' \in Card, card'.wp = card.wp, card'.kind = card.kind,
             answer' = answer
      PROVE  CardOK' /\ SameCard
  BY <1>2, NoneAssumption DEF CardOK, SameCard
<1>3. ASSUME card # None, card' = [card EXCEPT !.doing = "none"], answer' = answer
      PROVE  CardOK' /\ SameCard
  BY <1>2, <1>3 DEF CardOK, Card
<1>4. CASE Select
  <2>1. answer' = answer /\ (card' = card \/ (card # None /\ card' = [card EXCEPT !.doing = "none"]))
    BY <1>4 DEF Select, Reselected
  <2> QED BY <1>1, <1>3, <2>1
<1>5. CASE WaitReady
  <2>1. /\ answer' = answer
        /\ card' = card \/ (card # None /\ card' = [card EXCEPT !.busy = FALSE])
    BY <1>5 DEF WaitReady, SeesReady, SeesBusy, Busy
  <2>2. CASE card # None /\ card' = [card EXCEPT !.busy = FALSE]
    BY <1>2, <2>1, <2>2 DEF CardOK, Card
  <2> QED BY <1>1, <2>1, <2>2
<1>6. CASE Xmit
  <2>1. CASE cmd = Sync
    BY <1>1, <1>6, <2>1 DEF Xmit, socket
  <2>2. CASE cmd # Sync
    BY <1>6, <2>2, CommandKeepsCard DEF Xmit
  <2> QED BY <2>1, <2>2
<1>7. CASE Resp
  BY <1>1, <1>7 DEF Resp
<1>8. CASE Token
  BY <1>1, <1>8 DEF Token, socket
<1>9. CASE RecvData
  <2> DEFINE On == IF card.many THEN "out" ELSE "none"
  <2>1. CASE Sending
    <3>1. card \in Card /\ card' = [card EXCEPT !.at = card.at + 1, !.doing = On] /\ answer' = answer
      BY <1>9, <2>1 DEF RecvData, Sending, CardOK
    <3>2. On \in {"none", "out", "in"}
      OBVIOUS
    <3>3. [card EXCEPT !.at = card.at + 1, !.doing = On] \in Card
          /\ [card EXCEPT !.at = card.at + 1, !.doing = On].wp = card.wp
          /\ [card EXCEPT !.at = card.at + 1, !.doing = On].kind = card.kind
      BY <3>1, <3>2, CardMovesOn
    <3> QED BY <1>2, <3>1, <3>3
  <2>2. CASE ~Sending
    BY <1>1, <1>9, <2>2 DEF RecvData
  <2> QED BY <2>1, <2>2
<1>10. CASE SendData
  <2> DEFINE On == IF card.many THEN "in" ELSE "none"
  <2>1. answer' = answer
    BY <1>10 DEF SendData
  <2>2. \/ card' = card
        \/ Taking /\ card' = [card EXCEPT !.doing = "none", !.busy = TRUE]
        \/ Taking /\ card' = [card EXCEPT !.at = card.at + 1, !.busy = TRUE, !.doing = On]
    BY <1>10 DEF SendData
  <2>3. CASE Taking /\ card' = [card EXCEPT !.doing = "none", !.busy = TRUE]
    BY <1>2, <2>1, <2>3 DEF Taking, CardOK, Card
  <2>4. CASE Taking /\ card' = [card EXCEPT !.at = card.at + 1, !.busy = TRUE, !.doing = On]
    <3>1. On \in {"none", "out", "in"} /\ card \in Card
      BY <2>4 DEF Taking, CardOK
    <3>2. [card EXCEPT !.at = card.at + 1, !.busy = TRUE, !.doing = On] \in Card
          /\ [card EXCEPT !.at = card.at + 1, !.busy = TRUE, !.doing = On].wp = card.wp
          /\ [card EXCEPT !.at = card.at + 1, !.busy = TRUE, !.doing = On].kind = card.kind
      BY <3>1, CardMovesOn
    <3> QED BY <1>2, <2>1, <2>4, <3>1, <3>2
  <2> QED BY <1>1, <2>1, <2>2, <2>3, <2>4
<1> QED BY <1>4, <1>5, <1>6, <1>7, <1>8, <1>9, <1>10

-----------------------------------------------------------------------------
(* Types: a loop that waits has a try left, a transfer under way a block. *)

Flags  == SUBSET {"NOINIT", "NODISK", "PROTECT"}
Types  == SUBSET {"MMC", "SD1", "SD2", "BLOCK"}
Result == {0, 1, 4, 5, 64, FF}

RoutineOK ==
    /\ sub \in {"none", "select", "ready", "xmit", "resp", "token", "data", "wready", "wdata"}
    /\ cmd \in Nat /\ arg \in Nat /\ app \in BOOLEAN /\ tmr \in Nat /\ d \in Result
    /\ sub \in {"ready", "wready", "token"} => tmr > 0

FunctionOK ==
    /\ Stat \in Flags /\ s \in Flags /\ CardType \in Types /\ ty \in Types
    /\ ncs \in {0, 1} /\ fn \in Call /\ left \in Nat /\ tries \in 0 .. InitTries
    /\ res \in {"none", "OK", "ERROR", "NOTRDY", "WRPRT", "PARERR"}
    /\ pc \in {"recv", "send", "acmd23", "more", "blocks"} => left > 0

HistoryOK == changed \in BOOLEAN /\ fault \in BOOLEAN

DiskInv == CardOK /\ RoutineOK /\ FunctionOK /\ HistoryOK

LEMMA DiskInvTypes == DiskInv => TypeOK
  BY DEF DiskInv, TypeOK, CardOK, RoutineOK, FunctionOK, HistoryOK, Flags, Types, Result

LEMMA Sends ==
    ASSUME RoutineOK, NEW c \in Nat, NEW a \in Nat, SendCmd(c, a)
    PROVE  RoutineOK'
<1>1. c % ACMD \in Nat /\ (c >= ACMD) \in BOOLEAN
  BY DEF ACMD
<1>2. /\ sub' = "select" /\ cmd' = c % ACMD /\ arg' = a /\ tmr' = tmr /\ d' = d
  BY DEF SendCmd
<1>3. app' \in BOOLEAN
  BY DEF SendCmd
<1> QED BY <1>1, <1>2, <1>3 DEF RoutineOK

LEMMA Commands ==
    /\ {CMD0, CMD8, CMD9, CMD12, CMD16, CMD17, CMD18, CMD24, CMD25} \subseteq Nat
    /\ {CMD58, Sync, ACMD23, ACMD41, HCS} \subseteq Nat
<1>1. 2^30 \in Nat
  BY SMT
<1> QED BY <1>1 DEF CMD0, CMD8, CMD9, CMD12, CMD16, CMD17, CMD18, CMD24, CMD25, CMD58, Sync,
                    ACMD, ACMD23, ACMD41, HCS

LEMMA Tries == /\ ReadyTries \in Nat /\ ReadyTries > 0 /\ TokenTries \in Nat /\ TokenTries > 0
               /\ InitTries \in Nat /\ InitTries > 0
  BY TriesAssumption

\* What the end of a call leaves of the routine and the call's own variables.
LEMMA Returning ==
    ASSUME RoutineOK, sub = "none", NEW r, Return(r),
           r \in {"none", "OK", "ERROR", "NOTRDY", "WRPRT", "PARERR"},
           Stat' \in Flags, CardType' \in Types, ncs' \in {0, 1}, fn' \in Call
    PROVE  RoutineOK' /\ FunctionOK'
<1>1. /\ s' = {} /\ ty' = {} /\ left' = 0 /\ tries' = 0 /\ pc' = "idle" /\ res' = r
      /\ sub' = "none" /\ cmd' = 0 /\ arg' = 0 /\ app' = FALSE /\ tmr' = 0 /\ d' = 0
  BY DEF Return
<1>2. RoutineOK'
  BY <1>1 DEF RoutineOK, Result
<1>3. s' \in Flags /\ ty' \in Types
  BY <1>1, Zenon DEF Flags, Types
<1>4. left' \in Nat /\ tries' \in 0 .. InitTries
  BY <1>1, Tries
<1>5. pc' \notin {"recv", "send", "acmd23", "more", "blocks"}
  BY <1>1
<1> QED BY <1>1, <1>2, <1>3, <1>4, <1>5 DEF FunctionOK

LEMMA Ends ==
    ASSUME RoutineOK, FunctionOK, sub = "none", UNCHANGED fn, NEW n, End(n)
    PROVE  RoutineOK' /\ FunctionOK'
<1>1. Return(IF n = 0 THEN "OK" ELSE "ERROR") /\ ncs' = 1 /\ Stat' = Stat /\ CardType' = CardType
  BY DEF End, statics
<1> QED BY <1>1, Returning DEF FunctionOK

LEMMA Finishes ==
    ASSUME RoutineOK, FunctionOK, sub = "none", UNCHANGED fn, NEW t \in Types, Finish(t)
    PROVE  RoutineOK' /\ FunctionOK'
<1>1. Return("none") /\ ncs' = 1 /\ CardType' = t
  BY DEF Finish
<1>2. Stat' \in Flags
  BY DEF Finish, FunctionOK, Flags
<1> QED BY <1>1, <1>2, Returning DEF FunctionOK

LEMMA StatusTypes ==
    ASSUME DiskInv, Begin \/ InitPort \/ Ins \/ Wp \/ Ocr \/ StatusEnds \/ Refused, SelectInv
    PROVE  RoutineOK' /\ FunctionOK'
<1> USE DEF DiskInv
<1>1. ASSUME NoCall PROVE RoutineOK'
  BY <1>1 DEF NoCall, RoutineOK, routine
<1>2. CASE Begin
  <2>1. RoutineOK'
    BY <1>1, <1>2 DEF Begin, NoCall
  <2>2. left' \in Nat /\ fn' \in Call
    <3>1. fn' \in Call
      BY <1>2 DEF Begin
    <3>2. fn'.op \in {"read", "write"} => fn'.count \in Nat
      BY <3>1, TriesAssumption DEF Call
    <3> QED BY <1>2, <3>1, <3>2 DEF Begin
  <2>3. /\ Stat' = Stat /\ CardType' = CardType /\ ncs' = ncs /\ s' = s /\ ty' = ty
        /\ tries' = tries /\ res' = "none" /\ pc' \in {"port", "ins"}
    BY <1>2 DEF Begin, statics
  <2> QED BY <2>1, <2>2, <2>3 DEF FunctionOK
<1>3. CASE InitPort
  BY <1>1, <1>3 DEF InitPort, At, Goes, statics, FunctionOK
<1>4. CASE Ins
  <2>1. s' \in Flags /\ Stat' \in Flags
    BY <1>4 DEF Ins, FunctionOK, Flags
  <2> QED BY <1>1, <1>4, <2>1 DEF Ins, At, Goes, FunctionOK
<1>5. CASE Wp
  <2>1. s' \in Flags /\ Stat' \in Flags
    BY <1>5 DEF Wp, FunctionOK, Flags
  <2>2. RoutineOK'
    BY <1>1, <1>5, Sends, Commands DEF Wp
  <2>3. /\ CardType' = CardType /\ ncs' = ncs /\ ty' = ty /\ left' = left /\ tries' = tries
        /\ fn' = fn /\ res' = res /\ pc' \in {"known", "ocr"}
    BY <1>5 DEF Wp, At, Goes
  <2> QED BY <2>1, <2>2, <2>3 DEF FunctionOK
<1>6. CASE Ocr
  <2>1. s' \in Flags /\ Stat' \in Flags
    BY <1>6 DEF Ocr, FunctionOK, Flags, NotInitialized
  <2> QED BY <1>1, <1>6, <2>1 DEF Ocr, At, Goes, FunctionOK
<1>7. CASE StatusEnds
  <2>1. Return("none") /\ sub = "none" /\ Stat' = Stat /\ CardType' = CardType /\ ncs' = ncs /\ fn' = fn
    BY <1>7 DEF StatusEnds, At, statics
  <2> QED BY <2>1, Returning DEF FunctionOK
<1>8. CASE Refused
  <2>1. /\ Return("NOTRDY") \/ Return("WRPRT") \/ Return("PARERR")
        /\ sub = "none" /\ Stat' = Stat /\ CardType' = CardType /\ ncs' = ncs /\ fn' = fn
    BY <1>8 DEF Refused, At, statics
  <2> QED BY <2>1, Returning DEF FunctionOK
<1> QED BY <1>2, <1>3, <1>4, <1>5, <1>6, <1>7, <1>8
\* Goes on to a place where no block need be left, with a command.
LEMMA Advances ==
    ASSUME RoutineOK, FunctionOK, UNCHANGED <<Stat, CardType, fn, left, res, s>>,
           NEW c \in Nat, NEW a \in Nat, SendCmd(c, a),
           ncs' \in {0, 1}, ty' \in Types, tries' \in 0 .. InitTries,
           pc' \in {"recv", "send", "acmd23", "more", "blocks"} => left > 0
    PROVE  RoutineOK' /\ FunctionOK'
<1>1. RoutineOK'
  BY Sends
<1> QED BY <1>1 DEF FunctionOK

LEMMA InitializeTypes ==
    ASSUME DiskInv, Idle \/ Cmd0 \/ Cmd8 \/ Hcs \/ Ccs \/ Probe \/ OpCondSent \/ Cmd16
    PROVE  RoutineOK' /\ FunctionOK'
<1> USE DEF DiskInv, At, Goes, Calls
<1>1. RoutineOK /\ FunctionOK /\ ty \in Types /\ ncs \in {0, 1}
  BY DEF FunctionOK
<1>2. {} \in Types /\ {"SD1"} \in Types /\ {"MMC"} \in Types /\ {"SD2"} \in Types /\ {"SD2", "BLOCK"} \in Types
  BY DEF Types
<1>3. ASSUME NEW a \in Nat, NEW p, OpConds(a, p), ty' \in Types, UNCHANGED fn,
             p \notin {"recv", "send", "acmd23", "more", "blocks"}
      PROVE  RoutineOK' /\ FunctionOK'
  <2>1. tries' \in 0 .. InitTries
    BY <1>1, <1>3, Tries DEF OpConds, FunctionOK
  <2> QED BY <1>1, <1>3, <2>1, Advances, Commands DEF OpConds, statics
<1>4. ASSUME NEW c \in Nat, NEW a \in Nat, SendCmd(c, a), UNCHANGED <<statics, s, ty, left, tries, fn, res>>,
             ncs' \in {0, 1}, pc' \notin {"recv", "send", "acmd23", "more", "blocks"}
      PROVE  RoutineOK' /\ FunctionOK'
  BY <1>1, <1>4, Advances DEF FunctionOK, statics
<1>5. ASSUME NEW t \in Types, Finish(t), sub = "none", UNCHANGED fn
      PROVE  RoutineOK' /\ FunctionOK'
  BY <1>1, <1>5, Finishes
<1>6. 0 \in Nat /\ 426 \in Nat /\ 512 \in Nat /\ HCS \in Nat
  BY Commands
<1>7. CASE Idle
  BY <1>4, <1>6, <1>7, Commands DEF Idle
<1>8. CASE Cmd0
  BY <1>1, <1>2, <1>4, <1>5, <1>6, <1>8, Commands DEF Cmd0
<1>9. CASE Cmd8
  <2>1. CASE d = 1 /\ Echoed /\ OpConds(HCS, "hcs") /\ UNCHANGED ty
    BY <1>1, <1>3, <1>6, <1>9, <2>1 DEF Cmd8
  <2>2. CASE Finish({})
    BY <1>2, <1>5, <1>9, <2>2 DEF Cmd8
  <2>3. CASE SendCmd(ACMD41, 0) /\ Goes("probe") /\ Calls /\ UNCHANGED <<ty, left, tries>>
    BY <1>1, <1>4, <1>6, <1>9, <2>3, Commands DEF Cmd8
  <2> QED BY <1>9, <2>1, <2>2, <2>3 DEF Cmd8
<1>10. CASE Hcs
  <2>1. CASE SendCmd(CMD58, 0) /\ Goes("ccs") /\ Calls /\ UNCHANGED <<ty, left, tries>>
    BY <1>1, <1>4, <1>6, <1>10, <2>1, Commands DEF Hcs
  <2>2. CASE OpConds(HCS, "hcs") /\ UNCHANGED ty
    BY <1>1, <1>3, <1>6, <1>10, <2>2 DEF Hcs
  <2>3. CASE Finish({})
    BY <1>2, <1>5, <1>10, <2>3 DEF Hcs
  <2> QED BY <1>10, <2>1, <2>2, <2>3 DEF Hcs
<1>11. CASE Ccs
  BY <1>2, <1>5, <1>11 DEF Ccs
<1>12. CASE Probe
  <2>1. ty' \in Types
    BY <1>2, <1>12 DEF Probe
  <2> QED BY <1>3, <1>6, <1>12, <2>1 DEF Probe
<1>13. CASE OpCondSent
  <2>1. CASE SendCmd(CMD16, 512) /\ Goes("cmd16") /\ Calls /\ UNCHANGED <<ty, left, tries>>
    BY <1>1, <1>4, <1>6, <1>13, <2>1, Commands DEF OpCondSent
  <2>2. CASE OpConds(0, "opcond") /\ UNCHANGED ty
    BY <1>1, <1>3, <1>6, <1>13, <2>2 DEF OpCondSent
  <2>3. CASE Finish({})
    BY <1>2, <1>5, <1>13, <2>3 DEF OpCondSent
  <2> QED BY <1>13, <2>1, <2>2, <2>3 DEF OpCondSent
<1>14. CASE Cmd16
  BY <1>1, <1>2, <1>5, <1>14 DEF Cmd16
<1> QED BY <1>7, <1>8, <1>9, <1>10, <1>11, <1>12, <1>13, <1>14

LEMMA CallsNat ==
    ASSUME fn \in Call PROVE fn.sector \in Nat /\ fn.count \in Nat /\ Address \in Nat
<1>1. fn.sector \in Nat /\ fn.count \in Nat
  <2>1. CASE fn \in [op : {"status", "initialize", "sync", "count", "size"}, sector : {0}, count : {0}]
    BY <2>1
  <2>2. CASE fn \in [op : {"read", "write"}, sector : Sector, count : Counts]
    BY <2>2, TriesAssumption
  <2> QED BY <2>1, <2>2 DEF Call
<1> QED BY <1>1 DEF Address

LEMMA TransferTypes ==
    ASSUME DiskInv,
           \/ Start \/ BlockSize \/ Acmd23 \/ Accepted \/ OneDone \/ More
           \/ Stopped \/ Blocks \/ StopTran
    PROVE  RoutineOK' /\ FunctionOK'
<1> USE DEF DiskInv, At, Goes, Calls
<1>1. RoutineOK /\ FunctionOK /\ Address \in Nat /\ left \in Nat /\ 0 \in Nat
  BY CallsNat DEF FunctionOK
<1>2. ASSUME NEW c \in Nat, NEW a \in Nat, SendCmd(c, a), left > 0,
             UNCHANGED <<statics, ncs, s, ty, left, tries, fn, res>>
      PROVE  RoutineOK' /\ FunctionOK'
  BY <1>1, <1>2, Advances DEF FunctionOK, statics
<1>3. ASSUME Recv \/ Send(0) \/ Send(Stop), sub = "none"
      PROVE  RoutineOK'
  <2>1. /\ sub' \in {"token", "wready"} /\ tmr' \in {TokenTries, ReadyTries} /\ cmd' \in {cmd, 0, 127}
        /\ arg' = arg /\ app' = app /\ d' = d
    BY <1>3 DEF Recv, Send, routine, Stop
  <2> QED BY <1>1, <2>1, Tries DEF RoutineOK
<1>4. ASSUME NEW n, End(n), sub = "none", UNCHANGED fn PROVE RoutineOK' /\ FunctionOK'
  BY <1>1, <1>4, Ends
<1>5. ASSUME UNCHANGED <<statics, ncs, s, ty, tries, fn, res>>, left' \in Nat,
             pc' \in {"recv", "send", "acmd23", "more", "blocks"} => left' > 0
      PROVE  FunctionOK'
  BY <1>1, <1>5 DEF FunctionOK, statics
<1>6. CASE Start
  BY <1>1, <1>2, <1>6, Commands DEF Start
<1>7. CASE BlockSize
  BY <1>4, <1>7 DEF BlockSize
<1>8. CASE Acmd23
  <2>1. left > 0
    BY <1>1, <1>8 DEF Acmd23, FunctionOK
  <2> QED BY <1>1, <1>2, <1>8, <2>1, Commands DEF Acmd23
<1>9. CASE Accepted
  <2>1. left > 0
    BY <1>1, <1>9 DEF Accepted, FunctionOK
  <2>2. CASE d # 0
    BY <1>4, <1>9, <2>2 DEF Accepted
  <2>3. CASE d = 0
    BY <1>1, <1>3, <1>5, <1>9, <2>1, <2>3 DEF Accepted
  <2> QED BY <2>2, <2>3
<1>10. CASE OneDone
  BY <1>4, <1>10 DEF OneDone
<1>11. CASE More
  <2>1. left > 0 /\ left' = (IF d = 0 THEN left - 1 ELSE left)
    BY <1>1, <1>11 DEF More, FunctionOK, Left
  <2>2. left' \in Nat /\ (d = 0 /\ left > 1 => left' > 0)
    BY <1>1, <2>1
  <2>3. FunctionOK'
    BY <1>5, <1>11, <2>2 DEF More
  <2>4. RoutineOK'
    BY <1>1, <1>3, <1>11, Sends, Commands DEF More
  <2> QED BY <2>3, <2>4
<1>12. CASE Stopped
  BY <1>4, <1>12 DEF Stopped
<1>13. CASE Blocks
  <2>1. left > 0 /\ left' = (IF d = 0 THEN left - 1 ELSE left)
    BY <1>1, <1>13 DEF Blocks, FunctionOK, Left
  <2>2. left' \in Nat /\ (d = 0 /\ left > 1 => left' > 0)
    BY <1>1, <2>1
  <2>3. FunctionOK'
    BY <1>5, <1>13, <2>2 DEF Blocks
  <2>4. RoutineOK'
    BY <1>3, <1>13 DEF Blocks
  <2> QED BY <2>3, <2>4
<1>14. CASE StopTran
  BY <1>4, <1>14 DEF StopTran
<1> QED BY <1>6, <1>7, <1>8, <1>9, <1>10, <1>11, <1>12, <1>13, <1>14

LEMMA RoutineTypes ==
    ASSUME DiskInv, Select \/ WaitReady \/ Xmit \/ Resp \/ Token \/ RecvData \/ SendData
    PROVE  RoutineOK' /\ FunctionOK'
<1> USE DEF DiskInv
<1>1. RoutineOK /\ FunctionOK /\ CardOK /\ 0 \in Result /\ FF \in Result
  BY DEF Result
<1>2. FunctionOK'
  <2>1. UNCHANGED <<Stat, CardType, fn, s, ty, left, tries, pc, res>>
    BY DEF Select, WaitReady, Xmit, Resp, Token, RecvData, SendData, Running, statics, locals
  <2>2. ncs' \in {0, 1}
    BY <1>1 DEF Select, WaitReady, Xmit, Resp, Token, RecvData, SendData, SeesReady, SeesBusy,
                FunctionOK
  <2> QED BY <1>1, <2>1, <2>2 DEF FunctionOK
<1> SUFFICES RoutineOK'
  BY <1>2
<1>3. ASSUME UNCHANGED routine, tmr' \in Nat, d' \in Result,
             sub' \in {"none", "select", "ready", "xmit", "resp", "token", "data", "wready", "wdata"},
             sub' \in {"ready", "wready", "token"} => tmr' > 0
      PROVE  RoutineOK'
  BY <1>1, <1>3 DEF RoutineOK, routine
<1>4. tmr \in Nat /\ d \in Result /\ (sub \in {"ready", "wready", "token"} => tmr > 0)
  BY <1>1 DEF RoutineOK
<1>5. CASE Select
  <2>1. UNCHANGED routine /\ sub' = "ready" /\ tmr' = ReadyTries /\ d' = d
    BY <1>5 DEF Select
  <2> QED BY <1>3, <1>4, <2>1, Tries
<1>6. CASE WaitReady
  <2>1. sub \in {"ready", "wready"} /\ UNCHANGED routine
    BY <1>6 DEF WaitReady, Running
  <2>2. CASE SeesReady(IF sub = "ready" THEN "xmit" ELSE "wdata")
    <3>1. sub' \in {"xmit", "wdata"} /\ tmr' = tmr /\ d' = d
      BY <2>2 DEF SeesReady
    <3> QED BY <1>3, <1>4, <2>1, <3>1
  <2>3. CASE SeesBusy
    <3>1. tmr' = tmr - 1 /\ (tmr > 1 => sub' = sub /\ d' = d) /\ (~(tmr > 1) => sub' = "none" /\ d' = FF)
      BY <2>3 DEF SeesBusy, Returns
    <3>2. CASE tmr > 1
      <4>1. tmr' \in Nat /\ tmr' > 0 /\ sub' = sub /\ d' = d
        BY <1>4, <3>1, <3>2
      <4> QED BY <1>3, <1>4, <2>1, <4>1
    <3>3. CASE ~(tmr > 1)
      <4>1. tmr' \in Nat /\ sub' = "none" /\ d' = FF
        BY <1>4, <2>1, <3>1, <3>3
      <4> QED BY <1>1, <1>3, <2>1, <4>1
    <3> QED BY <3>2, <3>3
  <2> QED BY <1>6, <2>2, <2>3 DEF WaitReady
<1>7. CASE Xmit
  <2>1. UNCHANGED routine /\ tmr' = tmr /\ sub' \in {"none", "resp"} /\ d' \in {d, 0}
    BY <1>7 DEF Xmit, Returns
  <2> QED BY <1>1, <1>3, <1>4, <2>1
<1>8. CASE Resp
  <2>1. /\ sub' \in {"select", "none"} /\ cmd' = cmd /\ arg' = arg /\ tmr' = tmr /\ d' \in {d, answer}
    BY <1>8 DEF Resp, Returns
  <2>2. app' = FALSE \/ app' = app
    BY <1>8 DEF Resp
  <2>3. app' \in BOOLEAN
    BY <1>1, <2>2, Zenon DEF RoutineOK
  <2>4. d' \in Result
    BY <1>1, <1>4, <2>1 DEF CardOK, Result
  <2> QED BY <1>1, <2>1, <2>3, <2>4 DEF RoutineOK
<1>9. CASE Token
  <2>1. sub = "token" /\ UNCHANGED routine
    BY <1>9 DEF Token, Running
  <2>2. \/ sub' \in {"data", "none"} /\ tmr' = tmr /\ d' \in {d, FF}
        \/ tmr' = tmr - 1 /\ tmr > 1 /\ sub' = sub /\ d' = d
        \/ tmr' = tmr - 1 /\ ~(tmr > 1) /\ sub' = "none" /\ d' = FF
    BY <1>9 DEF Token, Returns
  <2>3. CASE sub' \in {"data", "none"} /\ tmr' = tmr /\ d' \in {d, FF}
    BY <1>1, <1>3, <1>4, <2>1, <2>3
  <2>4. CASE tmr' = tmr - 1 /\ tmr > 1 /\ sub' = sub /\ d' = d
    <3>1. tmr' \in Nat /\ tmr' > 0
      BY <1>4, <2>4
    <3> QED BY <1>3, <1>4, <2>1, <2>4, <3>1
  <2>5. CASE tmr' = tmr - 1 /\ ~(tmr > 1) /\ sub' = "none" /\ d' = FF
    <3>1. tmr' \in Nat
      BY <1>4, <2>1, <2>5
    <3> QED BY <1>1, <1>3, <2>1, <2>5, <3>1
  <2> QED BY <2>2, <2>3, <2>4, <2>5
<1>10. CASE RecvData
  <2>1. UNCHANGED routine /\ tmr' = tmr /\ sub' = "none" /\ d' = 0
    BY <1>10 DEF RecvData, Returns
  <2> QED BY <1>1, <1>3, <1>4, <2>1
<1>11. CASE SendData
  <2>1. UNCHANGED routine /\ tmr' = tmr /\ sub' = "none" /\ d' \in {0, FF}
    BY <1>11 DEF SendData, Returns
  <2> QED BY <1>1, <1>3, <1>4, <2>1
<1> QED BY <1>5, <1>6, <1>7, <1>8, <1>9, <1>10, <1>11

LEMMA DriverKeeps == ASSUME DiskInv, SelectInv, Driver PROVE DiskInv'
<1> USE DEF DiskInv
<1>1. RoutineOK' /\ FunctionOK'
  BY StatusTypes, InitializeTypes, TransferTypes, RoutineTypes DEF Driver
<1>2. CardOK'
  <2>1. CASE Select \/ WaitReady \/ Xmit \/ Resp \/ Token \/ RecvData \/ SendData
    BY <2>1, RoutineKeepsCard DEF RoutineOK
  <2>2. CASE UNCHANGED socket
    BY <2>2 DEF CardOK, socket
  <2>3. \/ UNCHANGED socket
        \/ Select \/ WaitReady \/ Xmit \/ Resp \/ Token \/ RecvData \/ SendData
    BY DEF Driver, Begin, InitPort, Ins, Wp, Ocr, StatusEnds, Refused, Idle, Cmd0, Cmd8, Hcs, Ccs,
           Probe, OpCondSent, Cmd16, Start, BlockSize, Acmd23, Accepted, OneDone, More, Stopped,
           Blocks, StopTran, At
  <2> QED BY <2>1, <2>2, <2>3
<1>3. changed' \in BOOLEAN
  <2>1. changed' \in {changed, FALSE}
    BY DEF Driver, Begin, InitPort, Ins, Wp, Ocr, StatusEnds, Refused, Idle, Cmd0, Cmd8, Hcs, Ccs,
           Probe, OpCondSent, Cmd16, Start, BlockSize, Acmd23, Accepted, OneDone, More, Stopped,
           Blocks, StopTran, At, Select, WaitReady, Xmit, Resp, Token, RecvData, SendData, Running
  <2> QED BY <2>1 DEF HistoryOK
<1>4. fault' \in BOOLEAN
  <2>1. CASE Select \/ WaitReady \/ RecvData \/ SendData \/ Resp
    <3>1. fault' = fault \/ fault' = TRUE
      BY <2>1 DEF Select, WaitReady, SeesReady, SeesBusy, RecvData, SendData, Resp
    <3> QED BY <3>1, Zenon DEF HistoryOK
  <2>2. CASE Token
    <3>1. fault' = fault \/ fault' = TRUE \/ fault' = (fault \/ Sending)
      BY <2>2, Zenon DEF Token
    <3> QED BY <3>1, Zenon DEF HistoryOK
  <2>3. CASE Xmit
    <3>1. \/ UNCHANGED fault
          \/ CardCommand(Command, arg)
      BY <2>3, Zenon DEF Xmit
    <3>2. ASSUME NEW c, NEW a, CardCommand(c, a) PROVE fault' \in BOOLEAN
      <4>1. \/ UNCHANGED fault
            \/ OpCond(c, a) \/ Data(c, a)
        BY <3>2 DEF CardCommand, GoIdle, IfCond, AppCmd, Simple, StopOut, Accepts, Refuses
      <4>2. ASSUME OpCond(c, a) PROVE fault' \in BOOLEAN
        <5> DEFINE Late == (Ready \/ card.kind # "SDHC" \/ a = HCS) /\ tries = 1
        <5>1. UNCHANGED fault \/ fault' = (fault \/ Late)
          BY <4>2, Zenon DEF OpCond, Refuses
        <5> QED BY <5>1, Zenon DEF HistoryOK
      <4>3. ASSUME Data(c, a) PROVE fault' \in BOOLEAN
        <5>1. UNCHANGED fault \/ fault' = TRUE
          BY <4>3 DEF Data, Refuses
        <5> QED BY <5>1, Zenon DEF HistoryOK
      <4> QED BY <4>1, <4>2, <4>3, Zenon DEF HistoryOK
    <3> QED BY <3>1, <3>2, Zenon DEF HistoryOK
  <2>4. \/ fault' \in {fault, FALSE}
        \/ Select \/ WaitReady \/ RecvData \/ SendData \/ Resp \/ Token \/ Xmit
    BY DEF Driver, Begin, InitPort, Ins, Wp, Ocr, StatusEnds, Refused, Idle, Cmd0, Cmd8, Hcs, Ccs,
           Probe, OpCondSent, Cmd16, Start, BlockSize, Acmd23, Accepted, OneDone, More, Stopped,
           Blocks, StopTran, At
  <2> QED BY <2>1, <2>2, <2>3, <2>4, Zenon DEF HistoryOK
<1> QED BY <1>1, <1>2, <1>3, <1>4, Zenon DEF HistoryOK

\* Taking the card out, or pushing one in, disturbs the card alone.
LEMMA SocketKeeps == ASSUME DiskInv, CardOut \/ CardIn PROVE DiskInv'
<1>1. \E c : Swap(c) /\ c \in Card \cup {None}
  BY FreshIsCard DEF CardOut, CardIn
<1>2. CardOK' /\ HistoryOK'
  BY <1>1 DEF Swap, CardOK, DiskInv, HistoryOK
<1>3. RoutineOK'
  BY <1>1 DEF Swap, DiskInv, RoutineOK, routine
<1>4. FunctionOK'
  BY <1>1 DEF Swap, DiskInv, FunctionOK, locals, statics
<1> QED BY <1>2, <1>3, <1>4 DEF DiskInv

LEMMA DiskInvHolds == Spec => []DiskInv
<1>1. Init => DiskInv
  <2> SUFFICES ASSUME Init PROVE DiskInv
    OBVIOUS
  <2>1. CardOK
    <3>1. \A k \in Kinds, w \in BOOLEAN : Fresh(k, w) \in Card
      BY FreshIsCard
    <3>2. card \in Card \cup {None}
      BY <3>1 DEF Init
    <3> QED BY <3>2 DEF Init, CardOK
  <2>2. RoutineOK /\ HistoryOK
    BY DEF Init, RoutineOK, HistoryOK, Result
  <2>3. Stat \in Flags /\ s \in Flags /\ CardType \in Types /\ ty \in Types
    BY DEF Init, Flags, Types
  <2>4. ncs \in {0, 1} /\ left \in Nat /\ tries \in 0 .. InitTries
    BY Tries DEF Init
  <2>5. fn \in Call
    BY DEF Init, Call
  <2>6. FunctionOK
    BY <2>3, <2>4, <2>5 DEF Init, FunctionOK
  <2> QED BY <2>1, <2>2, <2>6 DEF DiskInv
<1>2. SelectInv /\ DiskInv /\ [Next]_vars => DiskInv'
  <2> SUFFICES ASSUME SelectInv, DiskInv, [Next]_vars PROVE DiskInv'
    OBVIOUS
  <2>1. CASE UNCHANGED vars
    BY <2>1 DEF vars, socket, statics, locals, routine, DiskInv, CardOK, RoutineOK, FunctionOK,
                HistoryOK
  <2> QED BY <2>1, DriverKeeps, SocketKeeps DEF Next
<1> QED BY <1>1, <1>2, SelectInvHolds, PTL DEF Spec

\* The types of MmcDisk; a loop of mmcbb.c never counts below zero, and a block is moved
\* only while one is left (mmcbb.c:192-206, 264-271, 429-450, 487-549).
THEOREM TypeCorrect == Spec => []TypeOK
BY DiskInvTypes, DiskInvHolds, PTL

-----------------------------------------------------------------------------
(* Write protection. *)

Writable    == card # None /\ ~card.wp
SwitchKnown == card # None /\ (card.wp => "PROTECT" \in s)
Moving      == {"recv", "send", "acmd23", "one", "more", "blocks", "stop", "stoptran"}

\* What disk_status has found out of the card that stays in the socket, and what the
\* transfer after it relies on; a block moves only within a transfer.
ProtInv ==
    /\ sub \in {"token", "data", "wready", "wdata"} => pc \in Moving
    /\ ~changed =>
          /\ pc = "wp" => card # None
          /\ pc = "ocr" => SwitchKnown
          /\ pc = "known" /\ "NOINIT" \notin s => SwitchKnown
          /\ fn.op = "write" /\ (pc \in Moving \/ moved # <<>>) => Writable

\* A routine goes on within the place that called it, with the card as it was.
LEMMA RoutineKeepsSwitch ==
    ASSUME ProtInv, DiskInv,
           Select \/ WaitReady \/ Xmit \/ Resp \/ Token \/ RecvData \/ SendData
    PROVE  ProtInv'
<1>1. /\ UNCHANGED <<pc, s, fn, changed>>
      /\ moved' = moved \/ sub \in {"data", "wdata"}
      /\ sub' \in {"token", "data", "wready", "wdata"} => sub \in {"token", "data", "wready", "wdata"}
  BY DEF Select, WaitReady, SeesReady, SeesBusy, Xmit, Resp, Token, RecvData, SendData, Running,
         Returns, locals
<1>2. SameCard
  BY RoutineKeepsCard DEF DiskInv, RoutineOK
<1>3. (SwitchKnown => SwitchKnown') /\ (Writable => Writable')
  BY <1>1, <1>2 DEF SameCard, SwitchKnown, Writable
<1>4. ~changed /\ fn.op = "write" /\ (pc' \in Moving \/ moved' # <<>>) => Writable
  BY <1>1 DEF ProtInv
<1>5. ~changed /\ pc = "wp" => card' # None
  BY <1>2 DEF ProtInv, SameCard
<1> QED BY <1>1, <1>3, <1>4, <1>5 DEF ProtInv

\* A step of a disk function touches neither the card nor what is moved.
LEMMA FunctionKeepsSwitch ==
    ASSUME ProtInv, UNCHANGED <<card, fn, moved, changed>>,
           sub' \in {"token", "data", "wready", "wdata"} => pc' \in Moving,
           pc' = "wp" => card # None,
           ~changed /\ (pc' = "ocr" \/ (pc' = "known" /\ "NOINIT" \notin s')) => SwitchKnown',
           ~changed /\ fn.op = "write" /\ pc' \in Moving => Writable
    PROVE  ProtInv'
BY DEF ProtInv, SwitchKnown, Writable

LEMMA StatusKeepsSwitch ==
    ASSUME ProtInv, SelectInv, Begin \/ InitPort \/ Ins \/ Wp \/ Ocr \/ StatusEnds \/ Refused
    PROVE  ProtInv'
<1> USE DEF At, Goes, NoCall, socket
<1>1. CASE Begin
  <2>1. pc' \in {"port", "ins"} /\ moved' = <<>> /\ sub' = "none"
    BY <1>1 DEF Begin, SelectInv
  <2> QED BY <2>1 DEF ProtInv, Moving
<1>2. CASE InitPort
  BY <1>2, FunctionKeepsSwitch DEF InitPort, Moving
<1>3. CASE Ins
  BY <1>3, FunctionKeepsSwitch DEF Ins, Moving
<1>4. CASE Wp
  <2>1. /\ UNCHANGED <<card, fn, moved, changed>> /\ sub' \in {"none", "select"}
        /\ pc' \in {"known", "ocr"} /\ (pc' = "known" => "NOINIT" \in s)
    BY <1>4 DEF Wp, SendCmd
  <2>2. s' = IF card = None \/ card.wp THEN s \cup {"PROTECT"} ELSE s \ {"PROTECT"}
    BY <1>4 DEF Wp
  <2>3. "NOINIT" \in s => "NOINIT" \in s'
    BY <2>2
  <2>4. ~changed => card # None
    BY <1>4 DEF Wp, ProtInv
  <2>5. ~changed => SwitchKnown'
    BY <2>1, <2>2, <2>4 DEF SwitchKnown
  <2> QED BY <2>1, <2>3, <2>5, FunctionKeepsSwitch DEF Moving
<1>5. CASE Ocr
  <2>1. /\ UNCHANGED <<card, fn, moved, changed>> /\ sub' = "none" /\ pc = "ocr" /\ pc' = "known"
        /\ s \subseteq s'
    BY <1>5 DEF Ocr
  <2>2. ~changed => SwitchKnown'
    BY <2>1 DEF ProtInv, SwitchKnown
  <2> QED BY <2>1, <2>2, FunctionKeepsSwitch DEF Moving
<1>6. CASE StatusEnds
  BY <1>6, FunctionKeepsSwitch DEF StatusEnds, Return, Moving
<1>7. CASE Refused
  BY <1>7, FunctionKeepsSwitch DEF Refused, Return, Moving
<1> QED BY <1>1, <1>2, <1>3, <1>4, <1>5, <1>6, <1>7

LEMMA InitializeKeepsSwitch ==
    ASSUME ProtInv, Idle \/ Cmd0 \/ Cmd8 \/ Hcs \/ Ccs \/ Probe \/ OpCondSent \/ Cmd16
    PROVE  ProtInv'
<1>1. UNCHANGED <<card, fn, moved, changed>> /\ sub' \in {"none", "select"}
  BY DEF Idle, Cmd0, Cmd8, Hcs, Ccs, Probe, OpCondSent, Cmd16, At, socket, SendCmd, OpConds, Finish,
         Return
<1>2. pc' \in {"idle", "cmd0", "cmd8", "hcs", "ccs", "probe", "opcond", "cmd16"}
  <2>1. CASE Idle \/ Cmd0 \/ Cmd8 \/ Hcs
    BY <2>1 DEF Idle, Cmd0, Cmd8, Hcs, Goes, OpConds, Finish, Return
  <2>2. CASE Ccs \/ Probe \/ OpCondSent \/ Cmd16
    BY <2>2 DEF Ccs, Probe, OpCondSent, Cmd16, Goes, OpConds, Finish, Return
  <2> QED BY <2>1, <2>2
<1>3. pc' \notin Moving /\ pc' \notin {"wp", "ocr", "known"}
  BY <1>2 DEF Moving
<1> QED BY <1>1, <1>3, FunctionKeepsSwitch

LEMMA TransferKeepsSwitch ==
    ASSUME ProtInv,
           \/ Start \/ BlockSize \/ Acmd23 \/ Accepted \/ OneDone \/ More
           \/ Stopped \/ Blocks \/ StopTran
    PROVE  ProtInv'
<1>1. UNCHANGED <<card, fn, moved, changed>>
  BY DEF Start, BlockSize, Acmd23, Accepted, OneDone, More, Stopped, Blocks, StopTran, At, socket
<1>2. /\ pc' \in Moving \cup {"idle"}
      /\ sub' \in {"token", "wready"} => pc' \in Moving
      /\ sub' \in {"none", "select", "token", "wready"}
  BY DEF Start, BlockSize, Acmd23, Accepted, OneDone, More, Stopped, Blocks, StopTran, At, Goes,
         SendCmd, Recv, Send, End, Return, Moving
<1>3. ~changed /\ fn.op = "write" /\ pc' \in Moving => Writable
  <2>1. CASE Start
    <3>1. pc = "known" /\ "NOINIT" \notin s /\ ~Protected
      BY <2>1 DEF Start, At
    <3> QED BY <3>1 DEF Protected, ProtInv, SwitchKnown, Writable
  <2>2. CASE BlockSize
    BY <2>2, <1>1 DEF BlockSize
  <2>3. CASE Acmd23 \/ Accepted \/ OneDone \/ More \/ Stopped \/ Blocks \/ StopTran
    <3>1. pc \in Moving
      BY <2>3 DEF Acmd23, Accepted, OneDone, More, Stopped, Blocks, StopTran, At, Moving
    <3> QED BY <3>1 DEF ProtInv
  <2> QED BY <2>1, <2>2, <2>3
<1>4. pc' \notin {"wp", "ocr", "known"}
  BY <1>2 DEF Moving
<1> QED BY <1>1, <1>2, <1>3, <1>4, FunctionKeepsSwitch

LEMMA ProtInvHolds == Spec => []ProtInv
<1>1. Init => ProtInv
  BY DEF Init, ProtInv, Moving
<1>2. SelectInv /\ DiskInv /\ ProtInv /\ [Next]_vars => ProtInv'
  <2> SUFFICES ASSUME SelectInv, DiskInv, ProtInv, [Next]_vars PROVE ProtInv'
    OBVIOUS
  <2>1. CASE UNCHANGED vars
    BY <2>1 DEF vars, socket, locals, ProtInv, SwitchKnown, Writable
  <2>2. CASE CardOut \/ CardIn
    <3>1. changed' = TRUE /\ sub' = sub /\ pc' = pc
      BY <2>2 DEF CardOut, CardIn, Swap
    <3> QED BY <3>1 DEF ProtInv
  <2>3. CASE Driver
    BY <2>3, StatusKeepsSwitch, InitializeKeepsSwitch, TransferKeepsSwitch, RoutineKeepsSwitch
       DEF Driver
  <2> QED BY <2>1, <2>2, <2>3 DEF Next
<1> QED BY <1>1, <1>2, SelectInvHolds, DiskInvHolds, PTL DEF Spec

-----------------------------------------------------------------------------
(* Where a call is: which routine runs for which place, and with what command. *)

Asking  == {"ocr", "cmd0", "cmd8", "hcs", "ccs", "probe", "opcond", "cmd16",
            "recv", "send", "acmd23", "stop"}
Initing == {"cmd0", "cmd8", "hcs", "ccs", "probe", "opcond", "cmd16"}
Knowing == {"idle", "port", "ins", "wp", "known"}

SubInv ==
    /\ pc \in Knowing \cup Asking \cup {"one", "more", "blocks", "stoptran"}
    /\ pc \in Knowing => sub = "none"
    /\ pc \in Asking => sub \in {"none", "select", "ready", "xmit", "resp"}
    /\ pc = "more" => sub \in {"none", "token", "data"}
    /\ pc \in {"blocks", "stoptran"} => sub \in {"none", "wready", "wdata"}
    /\ pc = "one" => \/ fn.op = "sync" /\ sub \in {"none", "select", "ready", "xmit"}
                     \/ fn.op = "write" /\ sub \in {"none", "wready", "wdata"}
                     \/ fn.op \in {"read", "count"} /\ sub \in {"none", "token", "data"}

OpInv ==
    /\ pc \in Initing \cup {"port"} => fn.op = "initialize"
    /\ pc = "recv" => fn.op \in {"read", "count"}
    /\ pc \in {"send", "acmd23", "blocks", "stoptran"} => fn.op = "write"
    /\ pc \in {"more", "stop"} => fn.op = "read"

StatusCmd ==
    /\ pc \in {"ocr", "ccs"} => ~app /\ cmd = CMD58
    /\ pc = "cmd0" => ~app /\ cmd = CMD0
    /\ pc = "cmd8" => ~app /\ cmd = CMD8
    /\ pc = "hcs" => cmd = 41 /\ arg = HCS
    /\ pc \in {"probe", "opcond"} => cmd = 41 /\ arg = 0
    /\ pc = "cmd16" => ~app /\ cmd = CMD16

TransferCmd ==
    /\ pc = "acmd23" => cmd = 23 /\ left # 1
    /\ pc = "recv" => /\ ~app /\ cmd \in {CMD9, CMD17, CMD18}
                      /\ cmd = CMD9 <=> fn.op = "count"
                      /\ fn.op = "read" => arg = Address /\ (cmd = CMD17 <=> left = 1)
    /\ pc = "send" => /\ ~app /\ cmd \in {CMD24, CMD25} /\ arg = Address
                      /\ cmd = CMD24 <=> left = 1
    /\ pc = "stop" => ~app /\ cmd = CMD12
    /\ pc = "one" /\ fn.op = "sync" => cmd = Sync
    /\ pc \in {"one", "blocks"} /\ fn.op = "write" => cmd = 0
    /\ pc = "stoptran" => cmd = Stop

CourseInv == SubInv /\ OpInv /\ StatusCmd /\ TransferCmd

\* What no routine changes, and which step comes after which.
LEMMA RoutineFrame ==
    ASSUME Select \/ WaitReady \/ Xmit \/ Resp \/ Token \/ RecvData \/ SendData
    PROVE  /\ UNCHANGED <<Stat, CardType, fn, s, ty, left, tries, pc, res, changed, cmd, arg>>
           /\ app' => app
           /\ \/ sub = "select" /\ sub' = "ready"
              \/ sub = "ready" /\ sub' \in {"ready", "xmit", "none"}
              \/ sub = "xmit" /\ sub' = IF cmd = Sync THEN "none" ELSE "resp"
              \/ sub = "resp" /\ sub' \in {"select", "none"}
              \/ sub = "token" /\ sub' \in {"token", "data", "none"}
              \/ sub = "wready" /\ sub' \in {"wready", "wdata", "none"}
              \/ sub \in {"data", "wdata"} /\ sub' = "none"
<1>1. app' => app
  BY DEF Select, WaitReady, SeesReady, SeesBusy, Xmit, Resp, Token, RecvData, SendData, routine
<1>2. /\ UNCHANGED <<Stat, CardType, fn, s, ty, left, tries, pc, res, changed, cmd, arg>>
      /\ \/ sub = "select" /\ sub' = "ready"
         \/ sub = "ready" /\ sub' \in {"ready", "xmit", "none"}
         \/ sub = "xmit" /\ sub' = IF cmd = Sync THEN "none" ELSE "resp"
         \/ sub = "resp" /\ sub' \in {"select", "none"}
         \/ sub = "token" /\ sub' \in {"token", "data", "none"}
         \/ sub = "wready" /\ sub' \in {"wready", "wdata", "none"}
         \/ sub \in {"data", "wdata"} /\ sub' = "none"
  BY DEF Select, WaitReady, SeesReady, SeesBusy, Xmit, Resp, Token, RecvData, SendData, Running,
         Returns, statics, locals, routine
<1> QED BY <1>1, <1>2

\* What no step of a disk function changes.
FunctionStep ==
    \/ InitPort \/ Ins \/ Wp \/ Ocr \/ StatusEnds \/ Refused
    \/ Idle \/ Cmd0 \/ Cmd8 \/ Hcs \/ Ccs \/ Probe \/ OpCondSent \/ Cmd16
    \/ Start \/ BlockSize \/ Acmd23 \/ Accepted \/ OneDone \/ More \/ Stopped \/ Blocks \/ StopTran

LEMMA FunctionFrame ==
    ASSUME FunctionStep
    PROVE  sub = "none" /\ pc # "idle" /\ UNCHANGED <<card, answer, fn, moved, changed, fault>>
BY DEF FunctionStep, InitPort, Ins, Wp, Ocr, StatusEnds, Refused, Idle, Cmd0, Cmd8, Hcs, Ccs, Probe,
       OpCondSent, Cmd16, Start, BlockSize, Acmd23, Accepted, OneDone, More, Stopped, Blocks,
       StopTran, At, socket

LEMMA RoutineCourse ==
    ASSUME CourseInv, Select \/ WaitReady \/ Xmit \/ Resp \/ Token \/ RecvData \/ SendData
    PROVE  CourseInv'
<1>1. SubInv'
  BY RoutineFrame DEF CourseInv, SubInv, OpInv, StatusCmd, TransferCmd, Knowing, Asking, Initing, Sync
<1>2. OpInv'
  BY RoutineFrame DEF CourseInv, OpInv
<1>3. Address' = Address
  BY RoutineFrame DEF Address
<1>4. StatusCmd'
  BY RoutineFrame DEF CourseInv, StatusCmd
<1>5. TransferCmd'
  BY <1>3, RoutineFrame DEF CourseInv, TransferCmd
<1> QED BY <1>1, <1>2, <1>4, <1>5 DEF CourseInv

\* What a routine is given to send.
LEMMA SentCommand ==
    ASSUME NEW c, NEW a, SendCmd(c, a)
    PROVE  /\ sub' = "select" /\ arg' = a
           /\ c \in {CMD0, CMD8, CMD9, CMD12, CMD16, CMD17, CMD18, CMD24, CMD25, CMD58, Sync} =>
                 cmd' = c /\ ~app'
           /\ c = ACMD23 => cmd' = 23
           /\ c = ACMD41 => cmd' = 41 /\ app'
<1> USE DEF CMD0, CMD8, CMD9, CMD12, CMD16, CMD17, CMD18, CMD24, CMD25, CMD58, Sync, ACMD,
            ACMD23, ACMD41
<1>1. sub' = "select" /\ arg' = a /\ cmd' = c % 128 /\ (app' <=> c >= 128)
  BY DEF SendCmd
<1>2. 23 + 128 = 151 /\ 41 + 128 = 169 /\ 151 % 128 = 23 /\ 169 % 128 = 41
  OBVIOUS
<1> QED BY <1>1, <1>2

\* A transfer's command is sent.
LEMMA ReadAsked ==
    ASSUME fn'.op = "read", pc' = "recv", sub' = "select", ~app', arg' = Address',
           cmd' = IF left' = 1 THEN CMD17 ELSE CMD18
    PROVE  CourseInv'
<1>1. SubInv' /\ OpInv' /\ StatusCmd'
  BY DEF Knowing, Asking, Initing, SubInv, OpInv, StatusCmd
<1>2. TransferCmd'
  BY DEF TransferCmd, CMD9, CMD17, CMD18
<1> QED BY <1>1, <1>2 DEF CourseInv

LEMMA WriteAsked ==
    ASSUME fn'.op = "write", pc' = "send", sub' = "select", ~app', arg' = Address',
           cmd' = IF left' = 1 THEN CMD24 ELSE CMD25
    PROVE  CourseInv'
<1>1. SubInv' /\ OpInv' /\ StatusCmd'
  BY DEF Knowing, Asking, Initing, SubInv, OpInv, StatusCmd
<1>2. TransferCmd'
  BY DEF TransferCmd, CMD24, CMD25
<1> QED BY <1>1, <1>2 DEF CourseInv

LEMMA EndCourse ==
    ASSUME sub = "none", pc' = "idle", UNCHANGED sub PROVE CourseInv'
BY DEF CourseInv, SubInv, OpInv, StatusCmd, TransferCmd, Knowing, Asking, Initing

LEMMA StatusCourse ==
    ASSUME CourseInv, Begin \/ InitPort \/ Ins \/ Wp \/ Ocr \/ StatusEnds \/ Refused
    PROVE  CourseInv'
<1> USE DEF At, Goes, NoCall
<1>1. ASSUME pc' \in {"port", "ins", "wp", "known"}, sub' = "none",
             pc' = "port" => fn'.op = "initialize"
      PROVE  CourseInv'
  BY <1>1 DEF CourseInv, SubInv, OpInv, StatusCmd, TransferCmd, Knowing, Asking, Initing
<1>2. CASE Begin
  BY <1>1, <1>2 DEF Begin, CourseInv, SubInv, Knowing
<1>3. CASE InitPort \/ Ins
  BY <1>1, <1>3 DEF InitPort, Ins
<1>4. CASE Wp
  <2>1. CASE "NOINIT" \in s
    BY <1>1, <1>4, <2>1 DEF Wp
  <2>2. CASE "NOINIT" \notin s
    <3>1. SendCmd(CMD58, 0) /\ pc' = "ocr"
      BY <1>4, <2>2 DEF Wp
    <3> QED BY <3>1, SentCommand DEF CourseInv, SubInv, OpInv, StatusCmd, TransferCmd, Knowing, Asking, Initing
  <2> QED BY <2>1, <2>2
<1>5. CASE Ocr
  BY <1>1, <1>5 DEF Ocr
<1>6. CASE StatusEnds
  BY <1>6, EndCourse DEF StatusEnds, Return
<1>7. CASE Refused
  BY <1>7, EndCourse DEF Refused, Return
<1> QED BY <1>2, <1>3, <1>4, <1>5, <1>6, <1>7

LEMMA InitializeCourse ==
    ASSUME CourseInv, Idle \/ Cmd0 \/ Cmd8 \/ Hcs \/ Ccs \/ Probe \/ OpCondSent \/ Cmd16
    PROVE  CourseInv'
<1> USE DEF At, Goes
<1>1. UNCHANGED fn /\ sub = "none"
  BY DEF Idle, Cmd0, Cmd8, Hcs, Ccs, Probe, OpCondSent, Cmd16
<1>2. fn.op = "initialize"
  BY DEF Idle, Cmd0, Cmd8, Hcs, Ccs, Probe, OpCondSent, Cmd16, CourseInv, OpInv, Initing
<1>3. ASSUME NEW c, NEW a, NEW p, SendCmd(c, a), pc' = p,
             \/ p = "cmd0" /\ c = CMD0
             \/ p = "cmd8" /\ c = CMD8
             \/ p = "cmd16" /\ c = CMD16
             \/ p = "ccs" /\ c = CMD58
             \/ p = "hcs" /\ c = ACMD41 /\ a = HCS
             \/ p \in {"probe", "opcond"} /\ c = ACMD41 /\ a = 0
      PROVE  CourseInv'
  BY <1>1, <1>2, <1>3, SentCommand DEF CourseInv, SubInv, OpInv, StatusCmd, TransferCmd, Knowing, Asking, Initing
<1>4. ASSUME NEW t, Finish(t) PROVE CourseInv'
  BY <1>1, <1>4, EndCourse DEF Finish, Return
<1>5. CASE Idle
  BY <1>3, <1>5 DEF Idle
<1>6. CASE Cmd0
  BY <1>3, <1>4, <1>6 DEF Cmd0
<1>7. CASE Cmd8
  BY <1>3, <1>4, <1>7 DEF Cmd8, OpConds
<1>8. CASE Hcs
  BY <1>3, <1>4, <1>8 DEF Hcs, OpConds
<1>9. CASE Ccs
  BY <1>4, <1>9 DEF Ccs
<1>10. CASE Probe
  BY <1>3, <1>10 DEF Probe, OpConds
<1>11. CASE OpCondSent
  BY <1>3, <1>4, <1>11 DEF OpCondSent, OpConds
<1>12. CASE Cmd16
  BY <1>4, <1>12 DEF Cmd16
<1> QED BY <1>5, <1>6, <1>7, <1>8, <1>9, <1>10, <1>11, <1>12

LEMMA TransferCourse ==
    ASSUME CourseInv, left \in Nat,
           \/ Start \/ BlockSize \/ Acmd23 \/ Accepted \/ OneDone \/ More
           \/ Stopped \/ Blocks \/ StopTran
    PROVE  CourseInv'
<1> USE DEF At, Goes, Calls
<1>1. UNCHANGED fn /\ sub = "none"
  BY DEF Start, BlockSize, Acmd23, Accepted, OneDone, More, Stopped, Blocks, StopTran
<1>2. CASE Start
  <2>1. UNCHANGED <<left, CardType>> /\ Address' = Address /\ left > 0
    BY <1>1, <1>2 DEF Start, statics, Address
  <2>2. \/ fn.op = "sync" /\ SendCmd(Sync, 0) /\ pc' = "one"
        \/ fn.op = "count" /\ SendCmd(CMD9, 0) /\ pc' = "recv"
        \/ fn.op = "read" /\ left = 1 /\ SendCmd(CMD17, Address) /\ pc' = "recv"
        \/ fn.op = "read" /\ left # 1 /\ SendCmd(CMD18, Address) /\ pc' = "recv"
        \/ fn.op = "write" /\ left = 1 /\ SendCmd(CMD24, Address) /\ pc' = "send"
        \/ fn.op = "write" /\ left > 1 /\ SendCmd(ACMD23, left) /\ pc' = "acmd23"
        \/ fn.op = "write" /\ left > 1 /\ SendCmd(CMD25, Address) /\ pc' = "send"
    BY <1>2 DEF Start
  <2>3. CASE fn.op = "sync" /\ SendCmd(Sync, 0) /\ pc' = "one"
    BY <1>1, <2>3, SentCommand DEF CourseInv, Knowing, Asking, Initing, SubInv, OpInv, StatusCmd, TransferCmd
  <2>4. CASE fn.op = "count" /\ SendCmd(CMD9, 0) /\ pc' = "recv"
    BY <1>1, <2>4, SentCommand DEF CourseInv, Knowing, Asking, Initing, SubInv, OpInv, StatusCmd, TransferCmd
  <2>5. CASE fn.op = "read" /\ pc' = "recv" /\ left = 1 /\ SendCmd(CMD17, Address)
    <3>1. pc' = "recv" /\ sub' = "select" /\ cmd' = CMD17 /\ ~app' /\ arg' = Address' /\ left' = 1
      BY <2>1, <2>5, SentCommand
    <3> QED BY <1>1, <2>5, <3>1, ReadAsked
  <2>6. CASE fn.op = "read" /\ pc' = "recv" /\ left # 1 /\ SendCmd(CMD18, Address)
    <3>1. pc' = "recv" /\ sub' = "select" /\ cmd' = CMD18 /\ ~app' /\ arg' = Address' /\ left' # 1
      BY <2>1, <2>6, SentCommand
    <3> QED BY <1>1, <2>6, <3>1, ReadAsked
  <2>7. CASE fn.op = "write" /\ pc' = "send" /\ left = 1 /\ SendCmd(CMD24, Address)
    <3>1. pc' = "send" /\ sub' = "select" /\ cmd' = CMD24 /\ ~app' /\ arg' = Address' /\ left' = 1
      BY <2>1, <2>7, SentCommand
    <3> QED BY <1>1, <2>7, <3>1, WriteAsked
  <2>8. CASE fn.op = "write" /\ left > 1 /\ SendCmd(ACMD23, left) /\ pc' = "acmd23"
    <3>1. pc' = "acmd23" /\ sub' = "select" /\ cmd' = 23 /\ left' # 1
      BY <2>1, <2>8, SentCommand
    <3> QED BY <1>1, <2>8, <3>1 DEF CourseInv, Knowing, Asking, Initing, SubInv, OpInv,
                 StatusCmd, TransferCmd
  <2>9. CASE fn.op = "write" /\ pc' = "send" /\ left > 1 /\ SendCmd(CMD25, Address)
    <3>1. pc' = "send" /\ sub' = "select" /\ cmd' = CMD25 /\ ~app' /\ arg' = Address' /\ left' # 1
      BY <2>1, <2>9, SentCommand
    <3> QED BY <1>1, <2>9, <3>1, WriteAsked
  <2> QED BY <2>2, <2>3, <2>4, <2>5, <2>6, <2>7, <2>8, <2>9
<1>3. ASSUME NEW n, End(n) PROVE CourseInv'
  BY <1>1, <1>3, EndCourse DEF End, Return
<1>4. CASE BlockSize \/ OneDone \/ Stopped \/ StopTran
  BY <1>3, <1>4 DEF BlockSize, OneDone, Stopped, StopTran
<1>5. CASE Acmd23
  <2>1. pc' = "send" /\ SendCmd(CMD25, Address) /\ fn.op = "write" /\ left # 1
    BY <1>5 DEF Acmd23, CourseInv, OpInv, TransferCmd
  <2>2. left' = left /\ Address' = Address
    BY <1>1, <1>5 DEF Acmd23, statics, Address
  <2>3. pc' = "send" /\ sub' = "select" /\ cmd' = CMD25 /\ ~app' /\ arg' = Address' /\ left' # 1
    BY <2>1, <2>2, SentCommand
  <2> QED BY <1>1, <2>1, <2>3, WriteAsked
<1>6. CASE Accepted
  <2>1. CASE d # 0
    BY <1>3, <1>6, <2>1 DEF Accepted
  <2>2. CASE d = 0 /\ pc = "recv"
    <3>1. sub' = "token" /\ pc' \in {"one", "more"} /\ (pc' = "more" => fn.op = "read")
      BY <1>6, <2>2 DEF Accepted, Recv, One, CourseInv, OpInv, TransferCmd, CMD9, CMD17, CMD18, CMD25
    <3>2. fn.op \in {"read", "count"}
      BY <2>2 DEF CourseInv, OpInv
    <3> QED BY <1>1, <3>1, <3>2 DEF CourseInv, Knowing, Asking, Initing, SubInv, OpInv, StatusCmd, TransferCmd
  <2>3. CASE d = 0 /\ pc = "send"
    <3>1. sub' = "wready" /\ pc' \in {"one", "blocks"} /\ cmd' = 0
      BY <1>6, <2>3 DEF Accepted, Send, One
    <3>2. fn.op = "write"
      BY <2>3 DEF CourseInv, OpInv
    <3> QED BY <1>1, <3>1, <3>2 DEF CourseInv, Knowing, Asking, Initing, SubInv, OpInv, StatusCmd, TransferCmd
  <2> QED BY <1>6, <2>1, <2>2, <2>3 DEF Accepted
<1>7. CASE More
  BY <1>1, <1>7, SentCommand
     DEF More, Recv, CourseInv, SubInv, OpInv, StatusCmd, TransferCmd, Knowing, Asking, Initing, routine
<1>8. CASE Blocks
  BY <1>1, <1>8
     DEF Blocks, Send, CourseInv, SubInv, OpInv, StatusCmd, TransferCmd, Knowing, Asking, Initing
<1> QED BY <1>2, <1>4, <1>5, <1>6, <1>7, <1>8

LEMMA CourseInvHolds == Spec => []CourseInv
<1>1. Init => CourseInv
  BY DEF Init, CourseInv, SubInv, OpInv, StatusCmd, TransferCmd, Knowing, Asking, Initing
<1>2. DiskInv /\ CourseInv /\ [Next]_vars => CourseInv'
  <2> SUFFICES ASSUME DiskInv, CourseInv, [Next]_vars PROVE CourseInv'
    OBVIOUS
  <2>1. CASE UNCHANGED vars \/ CardOut \/ CardIn
    <3>1. UNCHANGED <<pc, sub, fn, cmd, arg, left, CardType>> /\ (app' <=> app)
      BY <2>1 DEF vars, locals, routine, statics, CardOut, CardIn, Swap
    <3>2. Address' = Address
      BY <3>1 DEF Address
    <3>3. SubInv' /\ OpInv' /\ StatusCmd'
      BY <3>1 DEF CourseInv, SubInv, OpInv, StatusCmd
    <3>4. TransferCmd'
      BY <3>1, <3>2 DEF CourseInv, TransferCmd
    <3> QED BY <3>3, <3>4 DEF CourseInv
  <2>2. left \in Nat
    BY DEF DiskInv, FunctionOK
  <2>3. CASE Driver
    BY <2>2, <2>3, StatusCourse, InitializeCourse, TransferCourse, RoutineCourse DEF Driver
  <2> QED BY <2>1, <2>3 DEF Next
<1> QED BY <1>1, <1>2, DiskInvHolds, PTL DEF Spec

-----------------------------------------------------------------------------
(* The blocks still to come and the blocks moved make up the count. *)

Before  == {"port", "ins", "wp", "ocr", "known", "recv", "send", "acmd23"}
Reads   == fn.op \in {"read", "write"}

\* A block that has just been moved is still among those left.
Counted == IF sub = "none" /\ d = 0 THEN 1 ELSE 0

BlocksInv ==
    /\ pc \in Before => moved = <<>> /\ left = fn.count
    /\ pc = "one" => left = 1 /\ fn.count = 1
    /\ pc \in {"one", "more", "blocks"} => Len(moved) + left = fn.count + Counted
    /\ pc \in {"stop", "stoptran"} => Len(moved) + left = fn.count
    /\ pc = "idle" /\ res = "OK" => Len(moved) = fn.count

SyncInv ==
    /\ pc = "one" /\ (sub = "xmit" \/ (sub = "none" /\ d = 0)) => ~Busy
    /\ pc = "idle" /\ res = "OK" => ~Busy

CountInv ==
    /\ moved \in Seq(Nat \cup {None})
    /\ ~Reads /\ pc # "idle" => left = 1
    /\ Reads => BlocksInv
    /\ fn.op = "sync" => SyncInv

LEMMA CountTypes ==
    ASSUME DiskInv PROVE left \in Nat /\ fn.count \in Nat /\ fn.sector \in Nat /\ fn \in Call
BY CallsNat DEF DiskInv, FunctionOK

LEMMA BlockType ==
    ASSUME DiskInv, CountInv
    PROVE  /\ Block \in Seq(Nat \cup {None}) /\ Len(Block) = Len(moved) + 1 /\ Len(moved) \in Nat
<1>1. (IF changed \/ card = None THEN None ELSE card.at) \in Nat \cup {None}
  BY DEF DiskInv, CardOK, Card
<1> QED BY <1>1 DEF CountInv, Block

\* A block is moved when RecvData or SendData returns 0, and only then.
LEMMA RoutineCounts ==
    ASSUME DiskInv, CourseInv, CountInv,
           Select \/ WaitReady \/ Xmit \/ Resp \/ Token \/ RecvData \/ SendData
    PROVE  CountInv'
<1>1. UNCHANGED <<pc, left, fn, res>> /\ pc # "idle" /\ sub # "none"
  BY RoutineFrame DEF CourseInv, SubInv, Knowing
<1>2. /\ left \in Nat /\ fn.count \in Nat /\ Len(moved) \in Nat
      /\ Block \in Seq(Nat \cup {None}) /\ Len(Block) = Len(moved) + 1
  BY CountTypes, BlockType
<1>3. /\ moved' \in {moved, Block}
      /\ moved' = moved => sub' # "none" \/ d' # 0 \/ pc \notin {"one", "more", "blocks"} \/ fn.op = "sync"
      /\ moved' # moved => sub' = "none" /\ d' = 0 /\ pc \in {"one", "more", "blocks"}
  <2>1. CASE Select \/ WaitReady
    <3>1. moved' = moved
      BY <2>1 DEF Select, WaitReady
    <3>2. CASE Select
      BY <3>1, <3>2 DEF Select
    <3>3. CASE WaitReady
      <4>1. sub' # "none" \/ d' = FF
        BY <1>1, <3>3 DEF WaitReady, SeesReady, SeesBusy, Returns
      <4> QED BY <3>1, <4>1 DEF FF
    <3> QED BY <2>1, <3>2, <3>3
  <2>2. CASE Xmit \/ Resp
    BY <2>2 DEF Xmit, Resp, CourseInv, SubInv, Knowing, Asking, Running
  <2>3. CASE Token
    BY <2>3 DEF Token, Returns, FF, Running
  <2>4. CASE RecvData
    <3>1. moved' = Block /\ sub' = "none" /\ d' = 0 /\ pc \in {"one", "more", "blocks"}
      BY <2>4 DEF RecvData, Returns, Running, CourseInv, SubInv, Knowing, Asking
    <3> QED BY <1>2, <3>1
  <2>5. CASE SendData
    <3>1. sub' = "none" /\ pc \in {"one", "blocks", "stoptran"}
      BY <2>5 DEF SendData, Returns, Running, CourseInv, SubInv, Knowing, Asking
    <3>2. \/ cmd = Stop /\ moved' = moved
          \/ cmd # Stop /\ moved' = Block /\ d' = 0
          \/ cmd # Stop /\ moved' = moved /\ d' = FF
      BY <2>5 DEF SendData, Returns
    <3>3. pc \in {"one", "blocks"} => cmd # Stop
      <4>1. pc \in {"one", "blocks"} => fn.op = "write"
        BY <2>5 DEF SendData, Running, CourseInv, SubInv, OpInv
      <4>2. pc \in {"one", "blocks"} /\ fn.op = "write" => cmd = 0
        BY DEF CourseInv, TransferCmd
      <4> QED BY <4>1, <4>2 DEF Stop
    <3>4. pc = "stoptran" => cmd = Stop
      BY DEF CourseInv, TransferCmd
    <3>5. CASE moved' = moved
      <4>1. pc \in {"one", "blocks"} => d' # 0
        BY <1>2, <3>2, <3>3, <3>5 DEF FF
      <4> QED BY <3>1, <3>5, <4>1
    <3>6. CASE moved' # moved
      <4>1. moved' = Block /\ d' = 0 /\ pc # "stoptran"
        BY <3>2, <3>4, <3>6
      <4> QED BY <3>1, <3>6, <4>1
    <3> QED BY <3>5, <3>6
  <2> QED BY <2>1, <2>2, <2>3, <2>4, <2>5
<1>4. moved' \in Seq(Nat \cup {None})
  BY <1>2, <1>3 DEF CountInv
<1>5. ASSUME Reads PROVE BlocksInv'
  <2>1. BlocksInv
    BY <1>5 DEF CountInv
  <2>2. fn.op # "sync" /\ Counted = 0
    BY <1>1, <1>5 DEF Reads, Counted
  <2>3. CASE moved' = moved
    <3>1. pc \in {"one", "more", "blocks"} => Counted' = 0
      BY <1>3, <2>2, <2>3 DEF Counted
    <3> QED BY <1>1, <2>1, <2>2, <2>3, <3>1 DEF BlocksInv
  <2>4. CASE moved' # moved
    <3>1. pc \in {"one", "more", "blocks"} /\ Counted' = 1 /\ Len(moved') = Len(moved) + 1
      BY <1>2, <1>3, <2>4 DEF Counted
    <3>2. pc \notin Before /\ pc \notin {"stop", "stoptran"}
      BY <3>1 DEF Before
    <3>3. Len(moved) + left = fn.count + 0 /\ (pc = "one" => left = 1 /\ fn.count = 1)
      BY <2>1, <2>2, <3>1 DEF BlocksInv
    <3>4. Len(moved') + left = fn.count + Counted'
      BY <1>2, <3>1, <3>3
    <3> QED BY <1>1, <3>2, <3>3, <3>4 DEF BlocksInv
  <2> QED BY <2>3, <2>4
<1>6. ASSUME fn.op = "sync" PROVE SyncInv'
  <2>1. SyncInv
    BY <1>6 DEF CountInv
  <2>2. CASE pc # "one"
    BY <1>1, <2>2 DEF SyncInv
  <2>3. CASE pc = "one"
    <3>1. cmd = Sync /\ sub \in {"select", "ready", "xmit"}
      BY <1>1, <1>6, <2>3 DEF CourseInv, SubInv, TransferCmd
    <3>2. CASE Select
      BY <1>1, <3>2 DEF Select, SyncInv
    <3>3. CASE WaitReady
      <4>1. CASE SeesReady(IF sub = "ready" THEN "xmit" ELSE "wdata")
        <5>1. card' = IF Busy THEN [card EXCEPT !.busy = FALSE] ELSE card
          BY <4>1 DEF SeesReady
        <5>2. ~Busy'
          BY <5>1 DEF Busy, DiskInv, CardOK, Card
        <5> QED BY <1>1, <5>2 DEF SyncInv
      <4>2. CASE SeesBusy
        <5>1. sub' = sub \/ d' = FF
          BY <4>2 DEF SeesBusy, Returns
        <5>2. sub' # "none" => sub' = sub
          BY <4>2 DEF SeesBusy, Returns
        <5>3. sub = "ready"
          BY <3>1, <3>3 DEF WaitReady, Running
        <5> QED BY <1>1, <5>1, <5>2, <5>3 DEF SyncInv, FF
      <4> QED BY <3>3, <4>1, <4>2 DEF WaitReady
    <3>4. CASE Xmit
      <4>1. UNCHANGED card /\ sub = "xmit"
        BY <3>1, <3>4 DEF Xmit, socket, Running
      <4> QED BY <1>1, <2>1, <2>3, <4>1 DEF SyncInv, Busy
    <3> QED BY <3>1, <3>2, <3>3, <3>4 DEF Resp, Token, RecvData, SendData, Running
  <2> QED BY <2>2, <2>3
<1>7. ~Reads' /\ pc' # "idle" => left' = 1
  BY <1>1 DEF CountInv, Reads
<1> QED BY <1>1, <1>4, <1>5, <1>6, <1>7 DEF CountInv, Reads

\* The function's own steps move nothing; what each leaves of the count.
LEMMA CountGoesOn ==
    ASSUME CountInv, UNCHANGED <<moved, fn>>, ~Reads => left' = left,
           pc' # "one" \/ fn.op # "sync" \/ sub' = "select",
           pc # "idle", pc' # "idle",
           Reads => BlocksInv'
    PROVE  CountInv'
BY DEF CountInv, Reads, SyncInv

LEMMA StatusCounts ==
    ASSUME DiskInv, CourseInv, CountInv,
           Begin \/ InitPort \/ Ins \/ Wp \/ Ocr \/ StatusEnds \/ Refused
    PROVE  CountInv'
<1> USE DEF At, Goes
<1>1. CASE Begin
  <2>1. moved' = <<>> /\ moved' \in Seq(Nat \cup {None}) /\ pc' \in {"port", "ins"}
    BY <1>1 DEF Begin
  <2>2. (Reads' => left' = fn'.count) /\ (~Reads' => left' = 1)
    BY <1>1 DEF Begin, Reads
  <2> QED BY <2>1, <2>2 DEF CountInv, BlocksInv, SyncInv, Before
<1>2. CASE InitPort \/ Ins \/ Wp \/ Ocr
  <2>1. /\ UNCHANGED <<moved, fn, left>> /\ pc \in {"port", "ins", "wp", "ocr"}
        /\ pc' \in {"ins", "wp", "ocr", "known"}
    BY <1>2 DEF InitPort, Ins, Wp, Ocr
  <2>2. Reads => BlocksInv'
    BY <2>1 DEF CountInv, BlocksInv, Before
  <2> QED BY <2>1, <2>2, CountGoesOn
<1>3. CASE StatusEnds \/ Refused
  <2>1. UNCHANGED <<moved, fn>> /\ pc' = "idle" /\ res' # "OK"
    BY <1>3 DEF StatusEnds, Refused, Return
  <2> QED BY <2>1 DEF CountInv, BlocksInv, SyncInv, Before, Reads
<1> QED BY <1>1, <1>2, <1>3

LEMMA InitializeCounts ==
    ASSUME CourseInv, CountInv, Idle \/ Cmd0 \/ Cmd8 \/ Hcs \/ Ccs \/ Probe \/ OpCondSent \/ Cmd16
    PROVE  CountInv'
<1> USE DEF At, Goes
<1>1. UNCHANGED <<moved, fn>>
  BY DEF Idle, Cmd0, Cmd8, Hcs, Ccs, Probe, OpCondSent, Cmd16
<1>2. fn.op = "initialize"
  BY DEF Idle, Cmd0, Cmd8, Hcs, Ccs, Probe, OpCondSent, Cmd16, CourseInv, OpInv, Initing
<1>3. pc # "idle" /\ (pc' = "idle" \/ left' = left)
  BY DEF Idle, Cmd0, Cmd8, Hcs, Ccs, Probe, OpCondSent, Cmd16, OpConds, Finish, Return
<1> QED BY <1>1, <1>2, <1>3 DEF CountInv, Reads

\* The end of a transfer, with what is left over as its result.
LEMMA EndCounts ==
    ASSUME CountInv, UNCHANGED <<moved, fn, card>>, NEW n, End(n),
           n = 0 /\ Reads => Len(moved) = fn.count,
           n = 0 /\ fn.op = "sync" => ~Busy
    PROVE  CountInv'
<1>1. pc' = "idle" /\ (res' = "OK" => n = 0)
  BY DEF End, Return
<1> QED BY <1>1 DEF CountInv, BlocksInv, SyncInv, Before, Reads, Busy

LEMMA TransferCounts ==
    ASSUME DiskInv, CourseInv, CountInv,
           \/ Start \/ BlockSize \/ Acmd23 \/ Accepted \/ OneDone \/ More
           \/ Stopped \/ Blocks \/ StopTran
    PROVE  CountInv'
<1> USE DEF At, Goes, Calls
<1>1. UNCHANGED <<moved, fn, card>> /\ sub = "none" /\ pc # "idle"
  BY DEF Start, BlockSize, Acmd23, Accepted, OneDone, More, Stopped, Blocks, StopTran, socket
<1>2. left \in Nat /\ fn.count \in Nat /\ Len(moved) \in Nat
  BY CountTypes, BlockType
<1>3. CASE Start
  <2>1. UNCHANGED left /\ pc = "known" /\ sub' = "select" /\ pc' \in {"one", "recv", "send", "acmd23"}
    BY <1>3 DEF Start, SendCmd
  <2>2. pc' = "one" => fn.op = "sync"
    BY <1>3 DEF Start
  <2>3. Reads => BlocksInv'
    BY <1>1, <2>1, <2>2 DEF CountInv, BlocksInv, Before, Reads
  <2> QED BY <1>1, <2>1, <2>3, CountGoesOn
<1>4. CASE BlockSize
  BY <1>1, <1>4, EndCounts DEF BlockSize, Reads
<1>5. CASE Acmd23
  <2>1. UNCHANGED left /\ pc = "acmd23" /\ pc' = "send"
    BY <1>5 DEF Acmd23
  <2>2. Reads => BlocksInv'
    BY <1>1, <2>1 DEF CountInv, BlocksInv, Before
  <2> QED BY <1>1, <2>1, <2>2, CountGoesOn
<1>6. CASE Accepted
  <2>1. left > 0
    BY <1>6 DEF Accepted, DiskInv, FunctionOK
  <2>2. fn.op \in {"read", "count", "write"}
    BY <1>6 DEF Accepted, CourseInv, OpInv
  <2>3. CASE d # 0
    BY <1>1, <1>6, <2>1, <2>2, <2>3, EndCounts DEF Accepted
  <2>4. CASE d = 0
    <3>1. UNCHANGED left /\ pc \in {"recv", "send"} /\ sub' \in {"token", "wready"}
          /\ pc' \in {"one", "more", "blocks"}
      BY <1>6, <2>4 DEF Accepted, Recv, Send
    <3>2. pc' = "one" /\ Reads => left = 1
      <4>1. pc' = "one" => cmd \notin {CMD18, CMD25}
        BY <1>6, <2>4 DEF Accepted, One
      <4>2. /\ pc = "recv" => cmd \in {CMD9, CMD17, CMD18} /\ (cmd = CMD9 <=> fn.op = "count")
                              /\ (fn.op = "read" => (cmd = CMD17 <=> left = 1))
            /\ pc = "send" => cmd \in {CMD24, CMD25} /\ (cmd = CMD24 <=> left = 1)
        BY DEF CourseInv, TransferCmd
      <4>3. pc = "recv" => fn.op \in {"read", "count"}
        BY DEF CourseInv, OpInv
      <4> QED BY <3>1, <4>1, <4>2, <4>3 DEF Reads
    <3>3. ASSUME Reads PROVE BlocksInv'
      <4>1. moved = <<>> /\ left = fn.count /\ Len(moved) = 0
        BY <3>1, <3>3 DEF CountInv, BlocksInv, Before
      <4>2. Counted' = 0
        BY <3>1 DEF Counted
      <4>3. Len(moved') + left' = fn'.count + Counted'
        BY <1>1, <1>2, <3>1, <4>1, <4>2
      <4>4. pc' = "one" => left' = 1 /\ fn'.count = 1
        BY <1>1, <3>1, <3>2, <3>3, <4>1
      <4> QED BY <3>1, <4>3, <4>4 DEF BlocksInv, Before
    <3> QED BY <1>1, <2>2, <3>1, <3>3, CountGoesOn
  <2> QED BY <2>3, <2>4
<1>7. CASE OneDone
  <2>1. pc = "one" /\ End(IF d = 0 THEN 0 ELSE left)
    BY <1>7 DEF OneDone
  <2>2. Reads \/ fn.op = "sync" => left = 1
    BY <1>1, <2>1 DEF CountInv, BlocksInv, Reads
  <2>3. ASSUME d = 0, Reads PROVE Len(moved) = fn.count
    <3>1. Counted = 1
      BY <1>1, <2>3 DEF Counted
    <3>2. Len(moved) + left = fn.count + 1 /\ left = 1
      BY <2>1, <2>3, <3>1 DEF CountInv, BlocksInv
    <3> QED BY <1>2, <3>2
  <2>4. d = 0 /\ fn.op = "sync" => ~Busy
    BY <1>1, <2>1 DEF CountInv, SyncInv
  <2> QED BY <1>1, <2>1, <2>2, <2>3, <2>4, EndCounts
<1>8. CASE More \/ Blocks
  <2>1. pc \in {"more", "blocks"} /\ left' = (IF d = 0 THEN left - 1 ELSE left) /\ left > 0
    BY <1>8 DEF More, Blocks, Left, DiskInv, FunctionOK
  <2>2. Reads
    BY <1>8 DEF More, Blocks, CourseInv, OpInv, Reads
  <2>3. Len(moved) + left = fn.count + (IF d = 0 THEN 1 ELSE 0)
    BY <1>1, <2>1, <2>2 DEF CountInv, BlocksInv, Counted
  <2>4. sub' # "none" /\ pc' \in {"more", "blocks", "stop", "stoptran"}
    BY <1>8 DEF More, Blocks, Recv, Send, SendCmd
  <2>5. Len(moved) + left' = fn.count + 0
    BY <1>2, <2>1, <2>3
  <2>6. Counted' = 0
    BY <2>4 DEF Counted
  <2>7. Len(moved') + left' = fn'.count + Counted' /\ Len(moved') + left' = fn'.count
    BY <1>1, <1>2, <2>5, <2>6
  <2>8. BlocksInv'
    BY <2>4, <2>7 DEF BlocksInv, Before
  <2> QED BY <1>1, <2>2, <2>4, <2>8, CountGoesOn
<1>9. CASE Stopped \/ StopTran
  <2>1. pc \in {"stop", "stoptran"} /\ \E n : End(n) /\ (n = 0 => left = 0)
    <3>1. CASE Stopped
      BY <3>1 DEF Stopped
    <3>2. CASE StopTran
      <4>1. (IF d # 0 THEN 1 ELSE left) = 0 => left = 0
        OBVIOUS
      <4> QED BY <3>2, <4>1 DEF StopTran
    <3> QED BY <1>9, <3>1, <3>2
  <2>2. Reads /\ fn.op # "sync"
    BY <1>9 DEF Stopped, StopTran, CourseInv, OpInv, Reads
  <2>3. Len(moved) + left = fn.count
    BY <2>1, <2>2 DEF CountInv, BlocksInv
  <2>4. left = 0 => Len(moved) = fn.count
    BY <1>2, <2>3
  <2> QED BY <1>1, <2>1, <2>2, <2>4, EndCounts
<1> QED BY <1>3, <1>4, <1>5, <1>6, <1>7, <1>8, <1>9

LEMMA CountInvHolds == Spec => []CountInv
<1>1. Init => CountInv
  <2> SUFFICES ASSUME Init PROVE CountInv
    OBVIOUS
  <2>1. moved = <<>> /\ moved \in Seq(Nat \cup {None}) /\ pc = "idle" /\ fn.op = "status"
    BY DEF Init
  <2> QED BY <2>1 DEF CountInv, Reads
<1>2. DiskInv /\ CourseInv /\ CountInv /\ [Next]_vars => CountInv'
  <2> SUFFICES ASSUME DiskInv, CourseInv, CountInv, [Next]_vars PROVE CountInv'
    OBVIOUS
  <2>1. CASE UNCHANGED vars
    BY <2>1 DEF vars, socket, locals, CountInv, BlocksInv, SyncInv, Reads, Before, Counted, Busy
  <2>2. CASE CardOut \/ CardIn
    <3>1. UNCHANGED <<pc, sub, fn, left, d, moved, res>>
      BY <2>2 DEF CardOut, CardIn, Swap, locals
    <3>2. ~Busy'
      BY <2>2 DEF CardOut, CardIn, Swap, Busy, Fresh
    <3> QED BY <3>1, <3>2 DEF CountInv, BlocksInv, SyncInv, Reads, Before, Counted
  <2>3. CASE Driver
    BY <2>3, StatusCounts, InitializeCounts, TransferCounts, RoutineCounts DEF Driver
  <2> QED BY <2>1, <2>2, <2>3 DEF Next
<1> QED BY <1>1, <1>2, DiskInvHolds, CourseInvHolds, PTL DEF Spec

\* For every count and however the card behaves: a read or a write that returns RES_OK has
\* moved every block it was asked for, and after CTRL_SYNC nothing is left to program
\* (mmcbb.c:506, 549, 573-578).
THEOREM OkIsCompleteCorrect == Spec => []OkIsComplete
<1>1. CountInv => OkIsComplete
  BY DEF CountInv, BlocksInv, SyncInv, Reads, OkIsComplete
<1> QED BY <1>1, CountInvHolds, PTL

-----------------------------------------------------------------------------
(* What a command does to a card, and what its answer tells of it. *)

\* The card has heard CMD0 since it was pushed in.
Awake == card # None /\ card.phase # "power"

\* The card is in the same state: the one in the socket, and its phase.
CardStill ==
    /\ card' = None <=> card = None
    /\ card # None => /\ card'.kind = card.kind /\ card'.phase = card.phase
                      /\ card'.app <=> card.app

BlockCommand(c) == c \in {CMD9, CMD17, CMD18, CMD24, CMD25}

\* A card that hears command c with argument a.
Obeys(c, a) ==
    /\ card \in Card /\ card' \in Card /\ card'.kind = card.kind
    /\ card'.phase # "power" /\ answer' # FF
    /\ c = CMD0 => card'.phase = "idle" /\ answer' = 1
    /\ \/ c = CMD0
       \/ card'.phase = card.phase
       \/ c = 41 /\ card'.phase = "ready" /\ (card.phase = "ready" \/ card.kind # "SDHC" \/ a = HCS)
    /\ answer' = 0 => card'.phase = "ready"
    /\ \/ card'.doing = "none"
       \/ /\ BlockCommand(c) /\ answer' = 0
          /\ card'.at = IF c = CMD9 THEN 0 ELSE Place(a)

\* The fields of a card that has taken a command.
LEMMA BecomesFields ==
    ASSUME NEW c \in Card, NEW r, Becomes(c, r)
    PROVE  /\ card' \in Card /\ answer' = r /\ ~card'.app
           /\ card'.kind = c.kind /\ card'.phase = c.phase /\ card'.doing = c.doing /\ card'.at = c.at
BY DEF Becomes, Card

LEMMA HeardFields ==
    ASSUME card \in Card
    PROVE  /\ Heard \in Card /\ Heard.kind = card.kind /\ Heard.phase = card.phase
           /\ Heard.doing = "none" /\ Heard.at = card.at /\ (Heard.app <=> card.app)
BY DEF Heard, Card

LEMMA CommandNumbers ==
    /\ CMD0 = 0 /\ CMD8 = 8 /\ CMD9 = 9 /\ CMD12 = 12 /\ CMD16 = 16 /\ CMD17 = 17 /\ CMD18 = 18
    /\ CMD24 = 24 /\ CMD25 = 25 /\ CMD55 = 55 /\ CMD58 = 58
BY DEF CMD0, CMD8, CMD9, CMD12, CMD16, CMD17, CMD18, CMD24, CMD25, CMD55, CMD58

\* One step per command a card knows.
LEMMA CommandObeyed ==
    ASSUME CardOK, NEW c, NEW a \in Nat, CardCommand(c, a), Hears(c)
    PROVE  Obeys(c, a)
<1>1. card \in Card
  BY DEF Hears, CardOK
<1>2. card.phase \in {"power", "idle", "ready"} /\ card.kind \in Kinds /\ card.wp \in BOOLEAN
  BY <1>1 DEF Card
<1>3. c # CMD0 => card.phase # "power"
  BY DEF Hears
<1>4. /\ R1 \in {0, 1} /\ (R1 = 0 <=> card.phase = "ready")
  BY DEF R1, Ready
<1>5. CASE c # CMD0 /\ (Refuses \/ Accepts)
  <2>1. PICK r \in {R1, R1 + 4} : Becomes(Heard, r)
    BY <1>5 DEF Refuses, Accepts
  <2>2. r # FF /\ (r = 0 => card.phase = "ready")
    BY <1>4, <2>1 DEF FF
  <2> QED BY <1>1, <1>3, <1>5, <2>1, <2>2, HeardFields, BecomesFields DEF Obeys
<1>6. CASE GoIdle(c)
  <2> DEFINE New == [Fresh(card.kind, card.wp) EXCEPT !.phase = "idle"]
  <2>1. New \in Card /\ New.kind = card.kind
    BY <1>2, FreshIsCard
  <2>2. New.phase = "idle" /\ New.doing = "none"
    BY DEF Fresh
  <2>3. c = CMD0 /\ Becomes(New, 1)
    BY <1>6 DEF GoIdle
  <2> HIDE DEF New
  <2> QED BY <1>1, <2>1, <2>2, <2>3, BecomesFields DEF Obeys, FF
<1>7. CASE AppCmd(c)
  <2>1. c # CMD0
    BY <1>7, CommandNumbers DEF AppCmd
  <2>2. CASE Refuses
    BY <1>5, <2>1, <2>2
  <2>3. CASE card' = [Heard EXCEPT !.app = TRUE] /\ answer' = R1
    <3>1. /\ card' \in Card /\ card'.kind = card.kind /\ card'.phase = card.phase
          /\ card'.doing = "none"
      BY <1>1, <2>3, HeardFields DEF Card
    <3>2. R1 # FF
      BY <1>4 DEF FF
    <3> QED BY <1>1, <1>3, <1>4, <2>1, <2>3, <3>1, <3>2 DEF Obeys
  <2> QED BY <1>7, <2>2, <2>3 DEF AppCmd
<1>8. CASE OpCond(c, a)
  <2>1. c = 41 /\ c # CMD0
    BY <1>8, CommandNumbers DEF OpCond
  <2>2. CASE Refuses
    BY <1>5, <2>1, <2>2
  <2>3. CASE Becomes(Heard, 1)
    BY <1>1, <1>3, <2>1, <2>3, HeardFields, BecomesFields DEF Obeys, FF
  <2>4. CASE /\ card.phase = "ready" \/ card.kind # "SDHC" \/ a = HCS
             /\ Becomes([Heard EXCEPT !.phase = "ready"], 0)
    <3> DEFINE New == [Heard EXCEPT !.phase = "ready"]
    <3>1. New \in Card /\ New.kind = card.kind /\ New.phase = "ready" /\ New.doing = "none"
      BY <1>1, HeardFields DEF Card
    <3>2. Becomes(New, 0)
      BY <2>4
    <3> HIDE DEF New
    <3> QED BY <1>1, <2>1, <2>4, <3>1, <3>2, BecomesFields DEF Obeys, FF
  <2> QED BY <1>8, <2>2, <2>3, <2>4 DEF OpCond, Ready
<1>9. CASE StopOut(c)
  <2> DEFINE New == [Heard EXCEPT !.busy = card.doing = "out"]
  <2>1. New \in Card /\ New.kind = card.kind /\ New.phase = card.phase /\ New.doing = "none"
    BY <1>1, HeardFields DEF Card
  <2>2. c # CMD0 /\ Becomes(New, R1)
    BY <1>9, CommandNumbers DEF StopOut
  <2>3. R1 # FF
    BY <1>4 DEF FF
  <2> HIDE DEF New
  <2> QED BY <1>1, <1>3, <1>4, <2>1, <2>2, <2>3, BecomesFields DEF Obeys
<1>10. CASE Data(c, a)
  <2> DEFINE In   == IF c \in {CMD24, CMD25} THEN "in" ELSE "out"
             Many == c \in {CMD18, CMD25}
             At0  == IF c = CMD9 THEN 0 ELSE Place(a)
             New  == [card EXCEPT !.doing = In, !.many = Many, !.at = At0]
  <2>1. c # CMD0 /\ BlockCommand(c)
    BY <1>10, CommandNumbers DEF Data, BlockCommand
  <2>2. In \in {"none", "out", "in"} /\ Many \in BOOLEAN /\ At0 \in Nat
    BY DEF Place
  <2>3. New \in Card /\ New.kind = card.kind /\ New.phase = card.phase /\ New.at = At0
    <3> HIDE DEF In, Many, At0
    <3> QED BY <1>1, <2>2 DEF Card
  <2>4. CASE Refuses
    BY <1>5, <2>1, <2>4
  <2>5. CASE card.phase = "ready" /\ Becomes(New, 0)
    <3> HIDE DEF New
    <3> QED BY <1>1, <2>1, <2>3, <2>5, BecomesFields DEF Obeys, FF
  <2>6. CASE Becomes(Heard, 64)
    BY <1>1, <1>3, <2>1, <2>6, HeardFields, BecomesFields DEF Obeys, FF
  <2> QED BY <1>10, <2>4, <2>5, <2>6 DEF Data, Ready
<1>11. CASE IfCond(c) \/ Simple(c)
  <2>1. c # CMD0 /\ (Refuses \/ Accepts)
    BY <1>11, CommandNumbers DEF IfCond, Simple
  <2> QED BY <1>5, <2>1
<1> QED BY <1>6, <1>7, <1>8, <1>9, <1>10, <1>11 DEF CardCommand

-----------------------------------------------------------------------------
(* What the answers a call has had tell of the card in the socket. *)

PhaseInv ==
    /\ card # None /\ card.phase = "power" => card.doing = "none"
    /\ changed /\ fn.op # "initialize" => ~Awake
    /\ sub = "resp" => (answer # FF => Awake) /\ (answer = 0 /\ Awake => card.phase = "ready")
    /\ pc \in Asking /\ sub = "none" =>
          (d # FF /\ ~changed => Awake) /\ (d = 0 /\ Awake => card.phase = "ready")
    /\ pc = "cmd0" /\ Awake =>
          (sub = "resp" => card.phase = "idle") /\ (sub = "none" /\ d = 1 => card.phase = "idle")
    /\ pc = "cmd8" /\ Awake => card.phase = "idle"
    /\ pc \in {"probe", "opcond", "cmd16"} /\ Awake /\ card.kind = "SDHC" => card.phase = "idle"
    /\ pc \in {"ccs", "cmd16"} /\ Awake => card.phase = "ready"
    /\ pc \in {"opcond", "cmd16"} => ty \in {{"SD1"}, {"MMC"}}

\* The command a place sends, and CMD55 before it.
LEMMA CommandSent ==
    ASSUME CourseInv, sub = "xmit", cmd # Sync
    PROVE  /\ pc \in Asking
           /\ Command = CMD0 <=> pc = "cmd0"
           /\ Command = 41 => pc \in {"hcs", "probe", "opcond"}
           /\ pc \in {"probe", "opcond", "cmd16"} => arg # HCS \/ Command # 41
           /\ BlockCommand(Command) <=> pc \in {"recv", "send"}
<1>1. pc \in Asking
  <2>1. pc = "one" /\ fn.op = "sync" => cmd = Sync
    BY DEF CourseInv, TransferCmd
  <2> QED BY <2>1 DEF CourseInv, SubInv, Knowing
<1>2. pc = "probe" \/ pc = "opcond" => arg # HCS
  <2>1. HCS # 0
    BY SMT DEF HCS
  <2> QED BY <2>1 DEF CourseInv, StatusCmd
<1>3. pc \in Initing \cup {"ocr"} =>
         /\ Command = CMD0 <=> pc = "cmd0"
         /\ Command = 41 => pc \in {"hcs", "probe", "opcond"}
         /\ ~BlockCommand(Command)
  <2>1. /\ pc \in {"ocr", "ccs"} => ~app /\ cmd = CMD58
        /\ pc = "cmd0" => ~app /\ cmd = CMD0
        /\ pc = "cmd8" => ~app /\ cmd = CMD8
        /\ pc \in {"hcs", "probe", "opcond"} => cmd = 41
        /\ pc = "cmd16" => ~app /\ cmd = CMD16
    BY DEF CourseInv, StatusCmd
  <2>2. Command \in {cmd, CMD55} /\ (~app => Command = cmd)
    BY DEF Command
  <2>3. /\ pc = "hcs" \/ pc = "probe" \/ pc = "opcond" => Command = 41 \/ Command = 55
        /\ pc = "ocr" \/ pc = "ccs" => Command = 58
        /\ pc = "cmd0" => Command = 0
        /\ pc = "cmd8" => Command = 8
        /\ pc = "cmd16" => Command = 16
    BY <2>1, <2>2, CommandNumbers
  <2>4. ASSUME pc \in Initing \cup {"ocr"} PROVE Command = CMD0 <=> pc = "cmd0"
    BY <2>3, <2>4, CommandNumbers DEF Initing
  <2>5. ASSUME pc \in Initing \cup {"ocr"}, Command = 41 PROVE pc \in {"hcs", "probe", "opcond"}
    BY <2>3, <2>5, CommandNumbers DEF Initing
  <2>6. ASSUME pc \in Initing \cup {"ocr"} PROVE ~BlockCommand(Command)
    BY <2>3, <2>6, CommandNumbers DEF Initing, BlockCommand
  <2> QED BY <2>4, <2>5, <2>6
<1>4. pc \in {"recv", "send", "stop", "acmd23"} =>
         /\ Command # CMD0
         /\ Command # 41
         /\ BlockCommand(Command) <=> pc \in {"recv", "send"}
  <2>1. /\ pc = "acmd23" => cmd = 23
        /\ pc = "recv" => ~app /\ cmd \in {CMD9, CMD17, CMD18}
        /\ pc = "send" => ~app /\ cmd \in {CMD24, CMD25}
        /\ pc = "stop" => ~app /\ cmd = CMD12
    BY DEF CourseInv, TransferCmd
  <2> QED BY <2>1, CommandNumbers DEF Command, BlockCommand
<1>5. pc = "cmd16" => Command # 41
  BY CommandNumbers DEF Command, CourseInv, StatusCmd
<1> QED BY <1>1, <1>2, <1>3, <1>4, <1>5 DEF Asking, Initing

LEMMA AwakeStill == ASSUME CardStill PROVE Awake' <=> Awake
BY DEF CardStill, Awake

\* Every step of a routine but the sending of a command leaves the card's state alone,
\* and so do the disk functions.
LEMMA RoutineStill ==
    ASSUME CardOK, Select \/ WaitReady \/ (Xmit /\ cmd = Sync) \/ Resp \/ Token \/ RecvData \/ SendData
    PROVE  CardStill /\ (card # None /\ card'.doing # "none" => card.doing # "none")
<1>1. ASSUME card' = card PROVE CardStill /\ (card # None /\ card'.doing # "none" => card.doing # "none")
  BY <1>1 DEF CardStill
<1>2. ASSUME card \in Card, card' \in Card, card'.kind = card.kind, card'.phase = card.phase,
             card'.app <=> card.app, card'.doing # "none" => card.doing # "none"
      PROVE  CardStill /\ (card # None /\ card'.doing # "none" => card.doing # "none")
  BY <1>2, NoneAssumption DEF CardStill
<1>3. CASE Select
  <2>1. card' = card \/ (card # None /\ card' = [card EXCEPT !.doing = "none"])
    BY <1>3 DEF Select, Reselected
  <2>2. CASE card # None /\ card' = [card EXCEPT !.doing = "none"]
    <3>1. card \in Card
      BY <2>2 DEF CardOK
    <3>2. /\ card' \in Card /\ card'.kind = card.kind /\ card'.phase = card.phase
          /\ card'.app <=> card.app
          /\ card'.doing = "none"
      BY <2>2, <3>1 DEF Card
    <3> QED BY <1>2, <3>1, <3>2
  <2> QED BY <1>1, <2>1, <2>2
<1>4. CASE WaitReady
  <2>1. card' = card \/ (card # None /\ card' = [card EXCEPT !.busy = FALSE])
    BY <1>4 DEF WaitReady, SeesReady, SeesBusy, Busy
  <2>2. CASE card # None /\ card' = [card EXCEPT !.busy = FALSE]
    <3>1. card \in Card
      BY <2>2 DEF CardOK
    <3>2. /\ card' \in Card /\ card'.kind = card.kind /\ card'.phase = card.phase
          /\ card'.app <=> card.app
          /\ card'.doing = card.doing
      BY <2>2, <3>1 DEF Card
    <3> QED BY <1>2, <3>1, <3>2
  <2> QED BY <1>1, <2>1, <2>2
<1>5. CASE (Xmit /\ cmd = Sync) \/ Resp \/ Token
  BY <1>1, <1>5 DEF Xmit, Resp, Token, socket
<1>6. ASSUME card \in Card, NEW o \in {"none", "out", "in"}, o # "none" => card.doing # "none",
             \/ card' = [card EXCEPT !.at = card.at + 1, !.doing = o]
             \/ card' = [card EXCEPT !.at = card.at + 1, !.busy = TRUE, !.doing = o]
             \/ card' = [card EXCEPT !.doing = o, !.busy = TRUE]
      PROVE  CardStill /\ (card # None /\ card'.doing # "none" => card.doing # "none")
  <2>1. card.at + 1 \in Nat
    BY <1>6 DEF Card
  <2>2. \A n \in Nat, b \in BOOLEAN :
           LET New == [card EXCEPT !.at = n, !.busy = b, !.doing = o]
           IN  /\ New \in Card /\ New.kind = card.kind /\ New.phase = card.phase
               /\ New.app <=> card.app
               /\ New.doing = o
    BY <1>6 DEF Card
  <2>3. \A n \in Nat :
           LET New == [card EXCEPT !.at = n, !.doing = o]
           IN  /\ New \in Card /\ New.kind = card.kind /\ New.phase = card.phase
               /\ New.app <=> card.app
               /\ New.doing = o
    BY <1>6 DEF Card
  <2>4. LET New == [card EXCEPT !.doing = o, !.busy = TRUE]
        IN  /\ New \in Card /\ New.kind = card.kind /\ New.phase = card.phase
            /\ New.app <=> card.app
            /\ New.doing = o
    BY <1>6 DEF Card
  <2>5. /\ card' \in Card /\ card'.kind = card.kind /\ card'.phase = card.phase
        /\ card'.app <=> card.app
        /\ card'.doing = o
    BY <1>6, <2>1, <2>2, <2>3, <2>4
  <2> QED BY <1>2, <1>6, <2>5
<1>7. CASE RecvData
  <2> DEFINE On == IF card.many THEN "out" ELSE "none"
  <2>1. CASE Sending
    <3>1. card \in Card /\ card.doing = "out" /\ card' = [card EXCEPT !.at = card.at + 1, !.doing = On]
      BY <1>7, <2>1 DEF RecvData, Sending, CardOK
    <3>2. On \in {"none", "out", "in"}
      OBVIOUS
    <3> HIDE DEF On
    <3> QED BY <1>6, <3>1, <3>2
  <2> QED BY <1>1, <1>7, <2>1 DEF RecvData
<1>8. CASE SendData
  <2> DEFINE On == IF card.many THEN "in" ELSE "none"
  <2>1. \/ card' = card
        \/ Taking /\ card' = [card EXCEPT !.doing = "none", !.busy = TRUE]
        \/ Taking /\ card' = [card EXCEPT !.at = card.at + 1, !.busy = TRUE, !.doing = On]
    BY <1>8 DEF SendData
  <2>2. Taking => card \in Card /\ card.doing = "in"
    BY DEF Taking, CardOK
  <2>3. On \in {"none", "out", "in"} /\ "none" \in {"none", "out", "in"}
    OBVIOUS
  <2>4. CASE Taking /\ card' = [card EXCEPT !.at = card.at + 1, !.busy = TRUE, !.doing = On]
    <3> HIDE DEF On
    <3> QED BY <1>6, <2>2, <2>3, <2>4
  <2>5. CASE Taking /\ card' = [card EXCEPT !.doing = "none", !.busy = TRUE]
    BY <1>6, <2>2, <2>3, <2>5
  <2> QED BY <1>1, <2>1, <2>4, <2>5
<1> QED BY <1>3, <1>4, <1>5, <1>7, <1>8

\* A step of a routine that sends no command tells nothing new.
LEMMA RoutinePhase ==
    ASSUME DiskInv, CourseInv, PhaseInv,
           Select \/ WaitReady \/ (Xmit /\ cmd = Sync) \/ Resp \/ Token \/ RecvData \/ SendData
    PROVE  PhaseInv'
<1>1. CardStill /\ (card # None /\ card'.doing # "none" => card.doing # "none")
  BY RoutineStill DEF DiskInv
<1>2. (Awake' <=> Awake) /\ (Awake => card'.kind = card.kind /\ card'.phase = card.phase)
  BY <1>1, AwakeStill DEF CardStill, Awake
<1>3. UNCHANGED <<pc, fn, ty, changed>> /\ sub # "none"
  BY RoutineFrame
<1>4. sub' # "resp"
  BY RoutineFrame DEF Select, WaitReady, Xmit, Resp, Token, RecvData, SendData, Running
<1>5. pc \in Asking /\ sub' = "none" => \/ sub = "resp" /\ d' = answer
                                        \/ d' = FF
  <2>1. CASE Resp
    BY <2>1 DEF Resp, Returns, Running
  <2>2. CASE WaitReady
    BY <2>2 DEF WaitReady, SeesReady, SeesBusy, Returns, Running
  <2>3. CASE Select
    BY <2>3 DEF Select
  <2>4. CASE (Xmit /\ cmd = Sync) \/ Token \/ RecvData \/ SendData
    <3>1. pc \in Asking => ~(Token \/ RecvData \/ SendData)
      BY DEF Token, RecvData, SendData, Running, CourseInv, SubInv
    <3>2. pc \in Asking => ~(Xmit /\ cmd = Sync)
      BY DEF CourseInv, StatusCmd, TransferCmd, Asking, Sync, CMD58, CMD0, CMD8, CMD16, CMD9, CMD17,
             CMD18, CMD24, CMD25, CMD12
    <3> QED BY <2>4, <3>1, <3>2
  <2> QED BY <2>1, <2>2, <2>3, <2>4
<1>6. FF # 0 /\ FF # 1
  BY DEF FF
<1>7. card' # None /\ card'.phase = "power" => card'.doing = "none"
  BY <1>1 DEF PhaseInv, CardStill
<1>8. "cmd0" \in Asking
  BY DEF Asking
<1> QED BY <1>2, <1>3, <1>4, <1>5, <1>6, <1>7, <1>8 DEF PhaseInv

\* A command's answer tells of the card that heard it.
LEMMA XmitPhase ==
    ASSUME DiskInv, CourseInv, PhaseInv, Xmit, cmd # Sync
    PROVE  PhaseInv'
<1> DEFINE c == Command
<1>1. CardCommand(c, arg) /\ sub' = "resp" /\ UNCHANGED <<pc, fn, ty, changed, d>> /\ sub = "xmit"
  BY RoutineFrame DEF Xmit, Running
<1>2. /\ pc \in Asking
      /\ c = CMD0 <=> pc = "cmd0"
      /\ c = 41 => pc \in {"hcs", "probe", "opcond"}
      /\ pc \in {"probe", "opcond", "cmd16"} => arg # HCS \/ c # 41
  BY <1>1, CommandSent
<1>3. pc = "cmd0" => fn.op = "initialize"
  BY DEF CourseInv, OpInv, Initing
<1>4. CASE ~Hears(c)
  <2>1. card' = card /\ answer' = FF /\ (pc = "cmd0" => ~Awake)
    BY <1>1, <1>2, <1>4 DEF CardCommand, Hears, Awake
  <2>2. Awake' = Awake /\ FF # 0
    BY <2>1 DEF Awake, FF
  <2> QED BY <1>1, <2>1, <2>2 DEF PhaseInv
<1>5. CASE Hears(c)
  <2>1. Obeys(c, arg)
    BY <1>1, <1>5, CommandObeyed DEF DiskInv, RoutineOK
  <2>2. Awake' /\ card' # None /\ card # None
    BY <2>1, NoneAssumption DEF Awake, Obeys
  <2>3. pc # "cmd0" => Awake
    BY <1>2, <1>5 DEF Hears, Awake
  <2>4. /\ card'.phase # "power" /\ answer' # FF
        /\ answer' = 0 => card'.phase = "ready"
        /\ card'.kind = card.kind
    BY <2>1 DEF Obeys
  <2>5. pc = "cmd0" => card'.phase = "idle"
    BY <1>2, <2>1 DEF Obeys
  <2>6. pc \notin {"cmd0", "hcs", "probe", "opcond"} => card'.phase = card.phase
    BY <1>2, <2>1 DEF Obeys
  <2>7. /\ pc \in {"probe", "opcond"} /\ card.kind = "SDHC" /\ card.phase = "idle"
        => card'.phase = "idle"
    BY <1>2, <2>1, CommandNumbers DEF Obeys
  <2> HIDE DEF c
  <2> QED BY <1>1, <1>3, <2>2, <2>3, <2>4, <2>5, <2>6, <2>7 DEF PhaseInv
<1> QED BY <1>4, <1>5

\* The next place of a disk function, once an answer is in.
LEMMA FunctionPhase ==
    ASSUME CourseInv, PhaseInv, FunctionStep
    PROVE  PhaseInv'
<1> USE DEF At, Goes, NoCall, Calls
<1>1. sub = "none" /\ UNCHANGED <<card, answer, fn, changed>> /\ Awake' = Awake
  BY FunctionFrame DEF Awake
<1>2. ASSUME sub' # "resp", pc' \in Asking => sub' = "select",
             pc' \notin {"cmd8", "probe", "opcond", "cmd16", "ccs"}
      PROVE  PhaseInv'
  BY <1>1, <1>2 DEF PhaseInv, Asking
<1>3. ASSUME NEW c, NEW a, SendCmd(c, a) PROVE sub' = "select"
  BY <1>3 DEF SendCmd
<1>4. CASE InitPort \/ Ins \/ Wp \/ Ocr \/ StatusEnds \/ Refused
  BY <1>1, <1>2, <1>3, <1>4 DEF InitPort, Ins, Wp, Ocr, StatusEnds, Refused, Return, Asking
<1>5. CASE Start \/ BlockSize \/ Acmd23 \/ Accepted \/ OneDone \/ More \/ Stopped \/ Blocks \/ StopTran
  <2>1. /\ pc' \in Asking => sub' = "select"
        /\ sub' # "resp" /\ pc' \notin {"cmd8", "probe", "opcond", "cmd16", "ccs"}
    BY <1>1, <1>3, <1>5
       DEF Start, BlockSize, Acmd23, Accepted, OneDone, More, Stopped, Blocks, StopTran, End, Return,
           Recv, Send, Asking
  <2> QED BY <1>2, <2>1
<1>6. ASSUME NEW t, Finish(t) PROVE PhaseInv'
  BY <1>1, <1>2, <1>6 DEF Finish, Return, Asking
<1>7. CASE Idle
  BY <1>2, <1>3, <1>7 DEF Idle
<1>8. CASE Cmd0
  <2>1. CASE d = 1
    <3>1. pc = "cmd0" /\ pc' = "cmd8" /\ sub' = "select"
      BY <1>3, <1>8, <2>1 DEF Cmd0
    <3> QED BY <1>1, <2>1, <3>1 DEF PhaseInv
  <2>2. CASE d # 1
    BY <1>6, <1>8, <2>2 DEF Cmd0
  <2> QED BY <2>1, <2>2
<1>9. CASE Cmd8
  <2>1. \/ \E t : Finish(t)
        \/ pc = "cmd8" /\ sub' = "select" /\ pc' \in {"hcs", "probe"}
    BY <1>3, <1>9 DEF Cmd8, OpConds
  <2>2. CASE pc = "cmd8" /\ sub' = "select" /\ pc' \in {"hcs", "probe"}
    BY <1>1, <2>2 DEF PhaseInv
  <2> QED BY <1>6, <2>1, <2>2
<1>10. CASE Hcs
  <2>1. \/ \E t : Finish(t)
        \/ pc = "hcs" /\ sub' = "select" /\ (pc' = "hcs" \/ (pc' = "ccs" /\ d = 0))
    BY <1>3, <1>10 DEF Hcs, OpConds
  <2>2. CASE pc = "hcs" /\ sub' = "select" /\ (pc' = "hcs" \/ (pc' = "ccs" /\ d = 0))
    <3>1. pc \in Asking
      BY <2>2 DEF Asking
    <3> QED BY <1>1, <2>2, <3>1 DEF PhaseInv
  <2> QED BY <1>6, <2>1, <2>2
<1>11. CASE Ccs \/ Cmd16
  BY <1>6, <1>11 DEF Ccs, Cmd16
<1>12. CASE Probe
  <2>1. pc = "probe" /\ sub' = "select" /\ pc' = "opcond" /\ ty' \in {{"SD1"}, {"MMC"}}
    BY <1>3, <1>12 DEF Probe, OpConds
  <2> QED BY <1>1, <2>1 DEF PhaseInv
<1>13. CASE OpCondSent
  <2>1. \/ \E t : Finish(t)
        \/ pc = "opcond" /\ sub' = "select" /\ ty' = ty /\ (pc' = "opcond" \/ (pc' = "cmd16" /\ d = 0))
    BY <1>3, <1>13 DEF OpCondSent, OpConds
  <2>2. CASE pc = "opcond" /\ sub' = "select" /\ ty' = ty /\ (pc' = "opcond" \/ (pc' = "cmd16" /\ d = 0))
    <3>1. pc \in Asking
      BY <2>2 DEF Asking
    <3> QED BY <1>1, <2>2, <3>1 DEF PhaseInv
  <2> QED BY <1>6, <2>1, <2>2
<1> QED BY <1>4, <1>5, <1>7, <1>8, <1>9, <1>10, <1>11, <1>12, <1>13 DEF FunctionStep

LEMMA PhaseInvHolds == Spec => []PhaseInv
<1>1. Init => PhaseInv
  <2> SUFFICES ASSUME Init PROVE PhaseInv
    OBVIOUS
  <2>1. card # None => card.doing = "none"
    BY DEF Init, Fresh
  <2> QED BY <2>1 DEF Init, PhaseInv, Asking
<1>2. DiskInv /\ CourseInv /\ PhaseInv /\ [Next]_vars => PhaseInv'
  <2> SUFFICES ASSUME DiskInv, CourseInv, PhaseInv, [Next]_vars PROVE PhaseInv'
    OBVIOUS
  <2>1. CASE UNCHANGED vars
    BY <2>1 DEF vars, socket, locals, PhaseInv, Awake
  <2>2. CASE CardOut \/ CardIn
    <3>1. UNCHANGED <<pc, sub, fn, d, ty>> /\ answer' = FF /\ changed' = TRUE
      BY <2>2 DEF CardOut, CardIn, Swap, locals
    <3>2. card' # None => card'.phase = "power" /\ card'.doing = "none"
      BY <2>2 DEF CardOut, CardIn, Swap, Fresh
    <3>3. ~Awake'
      BY <3>2 DEF Awake
    <3> QED BY <3>1, <3>2, <3>3 DEF PhaseInv
  <2>3. CASE Begin
    <3>1. UNCHANGED card /\ sub' = sub /\ pc' \in {"port", "ins"} /\ changed' = FALSE
      BY <2>3 DEF Begin, socket
    <3>2. sub = "none"
      BY <2>3 DEF Begin, CourseInv, SubInv, Knowing
    <3> QED BY <3>1, <3>2 DEF PhaseInv, Asking
  <2>4. CASE Driver
    <3>1. \/ Begin \/ FunctionStep \/ Xmit
          \/ Select \/ WaitReady \/ Resp \/ Token \/ RecvData \/ SendData
      BY <2>4 DEF Driver, FunctionStep
    <3> QED BY <2>3, <3>1, FunctionPhase, RoutinePhase, XmitPhase
  <2> QED BY <2>1, <2>2, <2>4 DEF Next
<1> QED BY <1>1, <1>2, DiskInvHolds, CourseInvHolds, PTL DEF Spec

-----------------------------------------------------------------------------
(* What Stat and s say of the card in the socket. *)

AddressedRight == "BLOCK" \in CardType <=> card.kind = "SDHC"
SwitchIn(f)    == "PROTECT" \in f <=> card.wp

StatInv ==
    /\ pc \in {"wp", "ocr"} => ("NOINIT" \in s <=> "NOINIT" \in Stat) /\ "NODISK" \notin s
    /\ pc = "ocr" => "NOINIT" \notin s
    /\ pc = "known" => s = Stat
    /\ pc \in Moving => "NOINIT" \notin Stat
    /\ pc \notin Initing /\ "NOINIT" \notin Stat /\ Awake => card.phase = "ready" /\ AddressedRight
    /\ ~changed =>
          /\ pc = "wp" => card # None
          /\ pc \in Initing \cup {"ocr"} => card # None /\ SwitchIn(s)
          /\ pc = "known" => \/ card = None /\ {"NODISK", "NOINIT"} \subseteq s
                             \/ card # None /\ SwitchIn(s) /\ "NODISK" \notin s
          /\ pc = "known" /\ "NOINIT" \notin s => Awake
          /\ pc \in Moving \cup {"idle"} /\ "NOINIT" \notin Stat => Awake /\ SwitchIn(Stat)

\* What a routine may do to the card in the socket.
LEMMA RoutineAwake ==
    ASSUME DiskInv, CourseInv,
           Select \/ WaitReady \/ Xmit \/ Resp \/ Token \/ RecvData \/ SendData
    PROVE  /\ card' = None <=> card = None
           /\ card # None => (card'.wp <=> card.wp) /\ card'.kind = card.kind
           /\ Awake => Awake'
           /\ pc \notin Initing => (Awake' <=> Awake) /\ (Awake => card'.phase = card.phase)
<1>1. SameCard
  BY RoutineKeepsCard DEF DiskInv, RoutineOK
<1>2. /\ card' = None <=> card = None
      /\ card # None => (card'.wp <=> card.wp) /\ card'.kind = card.kind
  BY <1>1, Zenon DEF SameCard
<1>3. CASE Select \/ WaitReady \/ (Xmit /\ cmd = Sync) \/ Resp \/ Token \/ RecvData \/ SendData
  BY <1>2, <1>3, RoutineStill, AwakeStill DEF DiskInv, CardStill, Awake
<1>4. CASE Xmit /\ cmd # Sync
  <2> DEFINE c == Command
  <2>1. CardCommand(c, arg) /\ sub = "xmit"
    BY <1>4 DEF Xmit, Running
  <2>2. pc \notin Initing => c # CMD0 /\ c # 41
    BY <1>4, <2>1, CommandSent DEF Initing
  <2>3. CASE Hears(c)
    <3>1. Obeys(c, arg) /\ card # None
      BY <2>1, <2>3, CommandObeyed DEF DiskInv, RoutineOK, Hears
    <3>2. Awake' /\ (c # CMD0 => Awake)
      BY <1>2, <2>3, <3>1 DEF Obeys, Awake, Hears
    <3>3. c # CMD0 /\ c # 41 => card'.phase = card.phase
      BY <3>1 DEF Obeys
    <3> QED BY <1>2, <2>2, <3>2, <3>3
  <2>4. CASE ~Hears(c)
    BY <1>2, <2>1, <2>4 DEF CardCommand, Awake
  <2> QED BY <2>3, <2>4
<1> QED BY <1>3, <1>4

LEMMA RoutineStat ==
    ASSUME DiskInv, CourseInv, StatInv,
           Select \/ WaitReady \/ Xmit \/ Resp \/ Token \/ RecvData \/ SendData
    PROVE  StatInv'
<1>1. UNCHANGED <<pc, s, Stat, CardType, changed>> /\ pc # "idle"
  BY RoutineFrame DEF CourseInv, SubInv, Knowing
<1>2. card # None => (SwitchIn(s)' <=> SwitchIn(s)) /\ (SwitchIn(Stat)' <=> SwitchIn(Stat))
                     /\ (AddressedRight' <=> AddressedRight)
  BY <1>1, RoutineAwake DEF SwitchIn, AddressedRight
<1>3. Awake => card # None
  BY DEF Awake
<1> QED BY <1>1, <1>2, <1>3, RoutineAwake DEF StatInv

\* A step of a disk function that leaves Stat alone, or marks it uninitialised.
LEMMA StatGoesOn ==
    ASSUME StatInv, UNCHANGED <<card, CardType, changed>>, Stat' = Stat \/ "NOINIT" \in Stat',
           pc \in Initing => "NOINIT" \in Stat' \/ pc' \in Initing,
           pc' \in {"ins", "idle"} \cup Initing \cup Moving,
           pc' = "idle" => pc \in Moving \cup {"known"} \/ "NOINIT" \in Stat',
           pc' \in Moving => \/ pc \in Moving /\ Stat' = Stat
                             \/ pc = "known" /\ Stat' = Stat /\ "NOINIT" \notin s,
           pc' \in Initing => /\ s' = s
                              /\ pc \in Initing \/ (pc = "known" /\ "NODISK" \notin s)
    PROVE  StatInv'
<1>1. Awake' <=> Awake
  BY DEF Awake
<1>2. AddressedRight' <=> AddressedRight
  BY DEF AddressedRight
<1>3. SwitchIn(Stat)' <=> IF Stat' = Stat THEN SwitchIn(Stat) ELSE SwitchIn(Stat)'
  BY DEF SwitchIn
<1>4. s' = s => (SwitchIn(s)' <=> SwitchIn(s))
  BY DEF SwitchIn
<1>5. s = Stat => (SwitchIn(s) <=> SwitchIn(Stat))
  BY DEF SwitchIn
<1>6. {"ins", "idle"} \cap (Initing \cup Moving) = {} /\ Initing \cap Moving = {}
      /\ {"wp", "ocr", "known"} \cap ({"ins", "idle"} \cup Initing \cup Moving) = {}
  BY DEF Initing, Moving
<1> QED BY <1>1, <1>2, <1>3, <1>4, <1>5, <1>6 DEF StatInv

\* disk_status, disk_initialize and the transfers, one after the other.
LEMMA StatusStat ==
    ASSUME CourseInv, PhaseInv, StatInv,
           Begin \/ InitPort \/ Ins \/ Wp \/ Ocr \/ StatusEnds \/ Refused
    PROVE  StatInv'
<1> USE DEF At, Goes, NoCall, socket, statics
<1>1. CASE Begin \/ InitPort
  <2>1. /\ UNCHANGED <<card, Stat, CardType>> /\ pc \in {"idle", "port"}
        /\ pc' \in {"port", "ins"}
    BY <1>1 DEF Begin, InitPort
  <2>2. (Awake' <=> Awake) /\ (AddressedRight' <=> AddressedRight)
    BY <2>1 DEF Awake, AddressedRight
  <2> QED BY <2>1, <2>2 DEF StatInv, Initing, Moving
<1>2. UNCHANGED <<card, CardType, changed>> \/ Begin
  BY FunctionFrame DEF FunctionStep, InitPort, Ins, Wp, Ocr, StatusEnds, Refused
<1>3. ~Begin => /\ Awake' <=> Awake
                /\ AddressedRight' <=> AddressedRight
  BY <1>2 DEF Awake, AddressedRight
<1>4. CASE Ins
  <2>1. CASE card = None
    <3>1. s' = {"NODISK", "NOINIT"} /\ Stat' = s' /\ pc' = "known" /\ UNCHANGED <<card, changed>>
      BY <1>4, <2>1 DEF Ins
    <3> QED BY <2>1, <3>1 DEF StatInv, Initing, Moving
  <2>2. CASE card # None
    <3>1. s' = Stat \ {"NODISK"} /\ Stat' = Stat /\ pc = "ins" /\ pc' = "wp"
          /\ UNCHANGED <<card, changed, CardType>>
      BY <1>4, <2>2 DEF Ins
    <3>2. (Awake' <=> Awake) /\ (AddressedRight' <=> AddressedRight)
      BY <3>1 DEF Awake, AddressedRight
    <3> QED BY <2>2, <3>1, <3>2 DEF StatInv, Initing, Moving
  <2> QED BY <2>1, <2>2
<1>5. CASE Wp
  <2>1. /\ UNCHANGED <<card, changed, CardType>> /\ pc = "wp"
        /\ s' = IF card = None \/ card.wp THEN s \cup {"PROTECT"} ELSE s \ {"PROTECT"}
        /\ \/ "NOINIT" \in s /\ Stat' = s' /\ pc' = "known"
           \/ "NOINIT" \notin s /\ Stat' = Stat /\ pc' = "ocr"
    BY <1>5 DEF Wp
  <2>2. (Awake' <=> Awake) /\ (AddressedRight' <=> AddressedRight)
    BY <2>1 DEF Awake, AddressedRight
  <2>3. card # None => SwitchIn(s)'
    BY <2>1 DEF SwitchIn
  <2>4. ~changed => card # None /\ "NODISK" \notin s'
    <3>1. "NODISK" \notin s
      BY <2>1 DEF StatInv
    <3> QED BY <2>1, <3>1 DEF StatInv
  <2>5. "NOINIT" \in s <=> "NOINIT" \in s'
    BY <2>1
  <2> QED BY <2>1, <2>2, <2>3, <2>4, <2>5 DEF StatInv, Initing, Moving
<1>6. CASE Ocr
  <2>1. /\ UNCHANGED <<card, changed, CardType>> /\ pc = "ocr" /\ pc' = "known"
        /\ s' = s \cup NotInitialized /\ Stat' = s' /\ sub = "none"
    BY <1>6 DEF Ocr
  <2>2. (Awake' <=> Awake) /\ (AddressedRight' <=> AddressedRight)
    BY <2>1 DEF Awake, AddressedRight
  <2>3. "NOINIT" \in s' <=> d # 0
    BY <2>1 DEF StatInv, NotInitialized
  <2>4. (SwitchIn(s)' <=> SwitchIn(s)) /\ ("NODISK" \in s' <=> "NODISK" \in s)
    BY <2>1 DEF SwitchIn, NotInitialized
  <2>5. d = 0 /\ ~changed => Awake
    BY <2>1 DEF PhaseInv, Asking, FF
  <2> QED BY <2>1, <2>2, <2>3, <2>4, <2>5 DEF StatInv, Initing, Moving
<1>7. CASE StatusEnds \/ Refused
  <2>1. UNCHANGED <<card, Stat, CardType, changed>> /\ pc = "known" /\ pc' = "idle"
    BY <1>2, <1>7 DEF StatusEnds, Refused, Return
  <2> QED BY <2>1, StatGoesOn DEF Initing, Moving
<1> QED BY <1>1, <1>4, <1>5, <1>6, <1>7

LEMMA InitializeStat ==
    ASSUME CourseInv, PhaseInv, StatInv,
           Idle \/ Cmd0 \/ Cmd8 \/ Hcs \/ Ccs \/ Probe \/ OpCondSent \/ Cmd16
    PROVE  StatInv'
<1> USE DEF At, Goes, Calls, statics
<1>1. UNCHANGED <<card, changed>> /\ sub = "none" /\ pc # "idle"
  BY FunctionFrame DEF FunctionStep
<1>2. (Awake' <=> Awake)
  BY <1>1 DEF Awake
<1>3. ASSUME UNCHANGED <<Stat, CardType, s>>, pc' \in Initing,
             pc \in Initing \/ (pc = "known" /\ "NODISK" \notin s)
      PROVE  StatInv'
  <2>1. pc' \notin Moving /\ pc' # "idle"
    BY <1>3 DEF Initing, Moving
  <2> QED BY <1>1, <1>3, <2>1, StatGoesOn
<1>4. ASSUME NEW t, Finish(t), pc \in Initing,
             t # {} => /\ ~changed => Awake
                       /\ Awake => card.phase = "ready"
                       /\ Awake => ("BLOCK" \in t <=> card.kind = "SDHC")
      PROVE  StatInv'
  <2>1. /\ "NOINIT" \in Stat' <=> t = {}
        /\ "PROTECT" \in Stat' <=> "PROTECT" \in s
    BY <1>4 DEF Finish, Return
  <2>2. SwitchIn(Stat)' <=> SwitchIn(s)
    BY <1>1, <2>1 DEF SwitchIn
  <2>3. AddressedRight' <=> ("BLOCK" \in t <=> card.kind = "SDHC")
    BY <1>1, <1>4 DEF AddressedRight, Finish
  <2>4. pc' = "idle"
    BY <1>4 DEF Finish, Return
  <2> QED BY <1>1, <1>2, <1>4, <2>1, <2>2, <2>3, <2>4 DEF StatInv, Moving, Initing
<1>5. ASSUME NEW t, Finish(t), pc \in Initing, t = {} PROVE StatInv'
  BY <1>4, <1>5
<1>6. CASE Idle
  BY <1>3, <1>6 DEF Idle, Initing
<1>7. CASE Cmd0
  BY <1>3, <1>5, <1>7 DEF Cmd0, Initing
<1>8. CASE Cmd8
  BY <1>3, <1>5, <1>8 DEF Cmd8, OpConds, Initing
<1>9. CASE Hcs
  BY <1>3, <1>5, <1>9 DEF Hcs, OpConds, Initing
<1>10. CASE Probe
  BY <1>3, <1>10 DEF Probe, OpConds, Initing
<1>11. CASE OpCondSent
  BY <1>3, <1>5, <1>11 DEF OpCondSent, OpConds, Initing
<1>12. CASE Ccs
  <2> DEFINE t == IF d # 0 THEN {} ELSE IF CCS THEN {"SD2", "BLOCK"} ELSE {"SD2"}
  <2>1. pc = "ccs" /\ Finish(t)
    BY <1>12 DEF Ccs
  <2>2. pc \in Initing /\ pc \in Asking
    BY <2>1 DEF Initing, Asking
  <2>3. t # {} => d = 0
    OBVIOUS
  <2>4. d = 0 /\ ~changed => Awake
    BY <1>1, <2>2 DEF PhaseInv, FF
  <2>5. Awake => card.phase = "ready"
    BY <2>1 DEF PhaseInv
  <2>6. Awake /\ t # {} => ("BLOCK" \in t <=> card.kind = "SDHC")
    BY DEF CCS, Echoed, Awake
  <2> HIDE DEF t
  <2> QED BY <1>4, <2>1, <2>2, <2>3, <2>4, <2>5, <2>6
<1>13. CASE Cmd16
  <2> DEFINE t == IF d = 0 THEN ty ELSE {}
  <2>1. pc = "cmd16" /\ Finish(t)
    BY <1>13 DEF Cmd16
  <2>2. pc \in Initing /\ pc \in Asking
    BY <2>1 DEF Initing, Asking
  <2>3. t # {} => d = 0
    OBVIOUS
  <2>4. d = 0 /\ ~changed => Awake
    BY <1>1, <2>2 DEF PhaseInv, FF
  <2>5. Awake => card.phase = "ready" /\ card.kind # "SDHC"
    BY <2>1 DEF PhaseInv
  <2>6. "BLOCK" \notin t
    BY <2>1 DEF PhaseInv
  <2> HIDE DEF t
  <2> QED BY <1>4, <2>1, <2>2, <2>3, <2>4, <2>5, <2>6
<1> QED BY <1>6, <1>7, <1>8, <1>9, <1>10, <1>11, <1>12, <1>13

LEMMA TransferStat ==
    ASSUME CourseInv, StatInv,
           \/ Start \/ BlockSize \/ Acmd23 \/ Accepted \/ OneDone \/ More
           \/ Stopped \/ Blocks \/ StopTran
    PROVE  StatInv'
<1> USE DEF At, Goes, Calls, statics
<1>1. UNCHANGED <<card, changed, Stat, CardType>>
  BY DEF Start, BlockSize, Acmd23, Accepted, OneDone, More, Stopped, Blocks, StopTran, End, socket
<1>2. CASE Start \/ BlockSize
  <2>1. pc = "known" /\ "NOINIT" \notin s /\ pc' \in Moving \cup {"idle"}
    BY <1>2 DEF Start, BlockSize, End, Return, Moving
  <2> QED BY <1>1, <2>1, StatGoesOn DEF Initing, Moving
<1>3. CASE Acmd23 \/ Accepted \/ OneDone \/ More \/ Stopped \/ Blocks \/ StopTran
  <2>1. pc \in Moving /\ pc' \in Moving \cup {"idle"}
    BY <1>3 DEF Acmd23, Accepted, OneDone, More, Stopped, Blocks, StopTran, End, Return, Moving
  <2> QED BY <1>1, <2>1, StatGoesOn DEF Initing, Moving
<1> QED BY <1>2, <1>3

LEMMA StatInvHolds == Spec => []StatInv
<1>1. Init => StatInv
  BY DEF Init, StatInv, Initing, Moving
<1>2. DiskInv /\ CourseInv /\ PhaseInv /\ StatInv /\ [Next]_vars => StatInv'
  <2> SUFFICES ASSUME DiskInv, CourseInv, PhaseInv, StatInv, [Next]_vars PROVE StatInv'
    OBVIOUS
  <2>1. CASE UNCHANGED vars
    <3>1. UNCHANGED <<pc, s, Stat, CardType, card, changed>>
      BY <2>1 DEF vars, socket, locals, statics
    <3> QED BY <3>1 DEF StatInv, Awake, AddressedRight, SwitchIn
  <2>2. CASE CardOut \/ CardIn
    <3>1. UNCHANGED <<pc, s, Stat>> /\ changed' = TRUE
      BY <2>2 DEF CardOut, CardIn, Swap, locals, statics
    <3>2. ~Awake'
      BY <2>2 DEF CardOut, CardIn, Swap, Fresh, Awake
    <3> QED BY <3>1, <3>2 DEF StatInv
  <2>3. CASE Driver
    BY <2>3, StatusStat, InitializeStat, TransferStat, RoutineStat DEF Driver
  <2> QED BY <2>1, <2>2, <2>3 DEF Next
<1> QED BY <1>1, <1>2, DiskInvHolds, CourseInvHolds, PhaseInvHolds, PTL DEF Spec

-----------------------------------------------------------------------------
(* An SD card that stays in the socket and does nothing wrong. *)

Healthy == ~changed /\ ~fault /\ card # None /\ card.kind # "MMC"

\* What such a card says to CMD8.
Echo == IF card.kind \in {"SD2", "SDHC"} THEN 1 ELSE 5

\* ACMD41 is sent to a card that expects it, and the last try is answered with 0.
AppInv ==
    /\ app /\ sub = "resp" => answer \in {0, 1} /\ card.app
    /\ ~app /\ sub \in {"select", "ready", "xmit"} => card.app
    /\ ~app /\ sub = "resp" => answer = 0 \/ (answer = 1 /\ tries # 1)
    /\ sub = "none" => d = 0 \/ (d = 1 /\ tries # 1)

Says(x) == (sub = "resp" => answer = x) /\ (sub = "none" => d = x)

TriesInv == /\ pc \notin {"hcs", "opcond", "ccs", "cmd16"} => tries = 0
            /\ pc \in {"hcs", "opcond"} => tries >= 1

HealthInv ==
    /\ pc = "idle" /\ fn.op = "initialize" => "NOINIT" \notin Stat
    /\ pc \in Initing \ {"cmd0"} => Awake
    /\ pc = "cmd0" => Says(1)
    /\ pc = "cmd8" => Says(Echo)
    /\ pc = "hcs" => card.kind \in {"SD2", "SDHC"}
    /\ pc \in {"probe", "opcond"} => card.kind = "SD1"
    /\ pc \in {"hcs", "probe", "opcond"} => AppInv
    /\ pc \in {"ccs", "cmd16"} => Says(0)

\* A try of ACMD41 is counted from InitTries down to 1.
LEMMA TriesKept ==
    ASSUME DiskInv, CourseInv, TriesInv, Driver PROVE TriesInv'
<1>1. CASE Begin \/ Select \/ WaitReady \/ Xmit \/ Resp \/ Token \/ RecvData \/ SendData
  <2>1. UNCHANGED <<pc, tries>> \/ Begin
    BY <1>1, RoutineFrame
  <2> QED BY <2>1 DEF Begin, TriesInv
<1>2. CASE \/ InitPort \/ Ins \/ Wp \/ Ocr \/ StatusEnds \/ Refused
           \/ Start \/ BlockSize \/ Acmd23 \/ Accepted \/ OneDone \/ More \/ Stopped \/ Blocks \/ StopTran
  <2>1. /\ tries' = tries \/ (pc' = "idle" /\ tries' = 0)
        /\ pc \notin {"hcs", "opcond", "ccs", "cmd16"} /\ pc' \notin {"hcs", "opcond", "ccs", "cmd16"}
    BY <1>2 DEF InitPort, Ins, Wp, Ocr, StatusEnds, Refused, Start, BlockSize, Acmd23, Accepted,
                OneDone, More, Stopped, Blocks, StopTran, End, Return, At, Goes, Calls
  <2> QED BY <2>1 DEF TriesInv
<1>3. ASSUME NEW t, Finish(t) PROVE TriesInv'
  BY <1>3 DEF Finish, Return, TriesInv
<1>4. ASSUME NEW a, NEW p, OpConds(a, p), pc' \in {"hcs", "opcond"},
             tries = 0 \/ tries > 1
      PROVE  TriesInv'
  <2>1. tries \in Nat /\ InitTries \in Nat /\ InitTries > 0
    BY Tries DEF DiskInv, FunctionOK
  <2>2. tries' >= 1
    BY <1>4, <2>1 DEF OpConds
  <2> QED BY <1>4, <2>2 DEF TriesInv
<1>5. CASE Idle \/ Cmd0 \/ Cmd8 \/ Probe
  <2>1. tries = 0
    BY <1>5 DEF Idle, Cmd0, Cmd8, Probe, At, TriesInv
  <2>2. \/ \E t : Finish(t)
        \/ \E a, p : OpConds(a, p) /\ pc' \in {"hcs", "opcond"}
        \/ tries' = tries /\ pc' \in {"cmd0", "cmd8", "probe"}
    BY <1>5 DEF Idle, Cmd0, Cmd8, Probe, Goes, OpConds
  <2> QED BY <1>3, <1>4, <2>1, <2>2 DEF TriesInv
<1>6. CASE Hcs \/ OpCondSent
  <2>1. \/ \E t : Finish(t)
        \/ \E a, p : OpConds(a, p) /\ pc' \in {"hcs", "opcond"} /\ tries > 1
        \/ pc' \in {"ccs", "cmd16"}
    BY <1>6 DEF Hcs, OpCondSent, Goes, OpConds
  <2> QED BY <1>3, <1>4, <2>1 DEF TriesInv
<1>7. CASE Ccs \/ Cmd16
  BY <1>3, <1>7 DEF Ccs, Cmd16
<1> QED BY <1>1, <1>2, <1>5, <1>6, <1>7 DEF Driver

\* What the card did wrong in a call is not forgotten in it.
LEMMA FaultStays ==
    ASSUME DiskInv, Select \/ WaitReady \/ Xmit \/ Resp \/ Token \/ RecvData \/ SendData
    PROVE  fault => fault'
<1>1. CASE Select \/ RecvData \/ Resp
  <2>1. UNCHANGED fault
    BY <1>1 DEF Select, RecvData, Resp
  <2> QED BY <2>1, Zenon
<1>2. CASE WaitReady \/ SendData
  <2>1. UNCHANGED fault \/ fault' = TRUE
    BY <1>2 DEF WaitReady, SeesReady, SeesBusy, SendData
  <2> QED BY <2>1, Zenon
<1>3. CASE Token
  <2>1. UNCHANGED fault \/ fault' = TRUE \/ fault' = (fault \/ Sending)
    BY <1>3, Zenon DEF Token
  <2> QED BY <2>1, Zenon
<1>4. CASE Xmit
  <2>1. UNCHANGED fault \/ CardCommand(Command, arg)
    BY <1>4, Zenon DEF Xmit
  <2>2. ASSUME NEW c, NEW a, CardCommand(c, a) PROVE fault => fault'
    <3>1. UNCHANGED fault \/ OpCond(c, a) \/ Data(c, a)
      BY <2>2 DEF CardCommand, GoIdle, IfCond, AppCmd, Simple, StopOut, Accepts, Refuses
    <3>2. ASSUME OpCond(c, a) PROVE fault => fault'
      <4> DEFINE Late == (Ready \/ card.kind # "SDHC" \/ a = HCS) /\ tries = 1
      <4>1. UNCHANGED fault \/ fault' = (fault \/ Late)
        BY <3>2, Zenon DEF OpCond, Refuses
      <4> QED BY <4>1, Zenon
    <3>3. ASSUME Data(c, a) PROVE fault => fault'
      <4>1. UNCHANGED fault \/ fault' = TRUE
        BY <3>3 DEF Data, Refuses
      <4> QED BY <4>1, Zenon
    <3> QED BY <3>1, <3>2, <3>3, Zenon
  <2> QED BY <2>1, <2>2, Zenon
<1> QED BY <1>1, <1>2, <1>3, <1>4

\* A card that was healthy until now.
LEMMA HealthyBefore ==
    ASSUME DiskInv, CourseInv,
           Select \/ WaitReady \/ Xmit \/ Resp \/ Token \/ RecvData \/ SendData, Healthy'
    PROVE  Healthy
<1>1. ~changed /\ ~fault
  BY RoutineFrame, FaultStays DEF Healthy
<1> QED BY <1>1, RoutineAwake DEF Healthy

\* A place that awaits a command's answer, when nothing times out.
LEMMA AskingStep ==
    ASSUME CourseInv, pc \in Initing, ~fault',
           Select \/ WaitReady \/ (Xmit /\ cmd = Sync) \/ Resp \/ Token \/ RecvData \/ SendData
    PROVE  \/ sub \in {"select", "ready"} /\ sub' \in {"ready", "xmit"} /\ (app' <=> app)
           \/ sub = "resp" /\ app /\ answer <= 1 /\ sub' = "select" /\ ~app'
           \/ sub = "resp" /\ ~(app /\ answer <= 1) /\ sub' = "none" /\ d' = answer
<1>1. pc \in Asking
  BY DEF Initing, Asking
<1>2. CASE Select
  BY <1>2 DEF Select, Running, routine
<1>3. CASE WaitReady
  <2>1. sub = "ready"
    BY <1>1, <1>3 DEF WaitReady, Running, CourseInv, SubInv
  <2>2. sub' \in {"ready", "xmit"}
    BY <1>3, <2>1 DEF WaitReady, SeesReady, SeesBusy
  <2> QED BY <1>3, <2>1, <2>2 DEF WaitReady, routine
<1>4. CASE Resp
  <2>1. CASE app /\ answer <= 1
    BY <1>4, <2>1 DEF Resp, Running
  <2>2. CASE ~(app /\ answer <= 1)
    BY <1>4, <2>2 DEF Resp, Running, Returns
  <2> QED BY <2>1, <2>2
<1>5. ~(Token \/ RecvData \/ SendData)
  BY <1>1 DEF Token, RecvData, SendData, Running, CourseInv, SubInv
<1>6. ~(Xmit /\ cmd = Sync)
  BY DEF CourseInv, StatusCmd, Initing, Sync, CMD58, CMD0, CMD8, CMD16
<1> QED BY <1>2, <1>3, <1>4, <1>5, <1>6

LEMMA RoutineHealth ==
    ASSUME DiskInv, CourseInv, HealthInv, Healthy, ~fault',
           Select \/ WaitReady \/ (Xmit /\ cmd = Sync) \/ Resp \/ Token \/ RecvData \/ SendData
    PROVE  HealthInv'
<1>1. UNCHANGED <<pc, fn, Stat, tries>> /\ pc # "idle"
  BY RoutineFrame DEF CourseInv, SubInv, Knowing
<1>2. card # None /\ card'.kind = card.kind /\ (Awake => Awake') /\ (card'.app <=> card.app)
  BY RoutineAwake, RoutineStill DEF Healthy, CardStill, DiskInv
<1>3. CASE pc \notin Initing
  BY <1>1, <1>3 DEF HealthInv, Initing
<1>4. CASE pc \in Initing
  <2>1. \/ sub \in {"select", "ready"} /\ sub' \in {"ready", "xmit"} /\ (app' <=> app)
        \/ sub = "resp" /\ app /\ answer <= 1 /\ sub' = "select" /\ ~app'
        \/ sub = "resp" /\ ~(app /\ answer <= 1) /\ sub' = "none" /\ d' = answer
    BY <1>4, AskingStep
  <2>2. ASSUME NEW x, Says(x), sub' = "none" => sub = "resp" /\ d' = answer, sub' # "resp"
        PROVE  sub' = "none" => d' = x
    BY <2>2 DEF Says
  <2>3. /\ pc = "cmd0" => Says(1)'
        /\ pc \in {"ccs", "cmd16"} => Says(0)'
    BY <2>1 DEF Says, HealthInv
  <2>4. pc = "cmd8" => (Says(Echo))'
    <3>1. Echo' = Echo
      BY <1>2 DEF Echo
    <3> QED BY <2>1, <3>1 DEF Says, HealthInv
  <2>5. pc \in {"hcs", "probe", "opcond"} => AppInv'
    <3>1. SUFFICES ASSUME AppInv PROVE AppInv'
      BY DEF HealthInv
    <3>2. CASE sub \in {"select", "ready"} /\ sub' \in {"ready", "xmit"} /\ (app' <=> app)
      BY <1>2, <3>1, <3>2 DEF AppInv
    <3>3. CASE sub = "resp" /\ app /\ answer <= 1 /\ sub' = "select" /\ ~app'
      BY <1>2, <3>1, <3>3 DEF AppInv
    <3>4. CASE sub = "resp" /\ ~(app /\ answer <= 1) /\ sub' = "none" /\ d' = answer
      <4>1. ~app
        BY <3>1, <3>4 DEF AppInv
      <4> QED BY <1>1, <3>1, <3>4, <4>1 DEF AppInv
    <3> QED BY <2>1, <3>2, <3>3, <3>4
  <2> QED BY <1>1, <1>2, <1>4, <2>3, <2>4, <2>5 DEF HealthInv
<1> QED BY <1>3, <1>4

\* Which of its actions a card that hears command c takes.
LEMMA CommandTaken ==
    ASSUME NEW c, NEW a, CardCommand(c, a), Hears(c)
    PROVE  /\ c = 8 => IfCond(c)
           /\ c = 55 => AppCmd(c)
           /\ c = 41 => OpCond(c, a)
           /\ c \in {16, 58} => Simple(c)
BY CommandNumbers DEF CardCommand, GoIdle, IfCond, AppCmd, OpCond, Simple, StopOut, Data

LEMMA XmitHealth ==
    ASSUME DiskInv, CourseInv, PhaseInv, TriesInv, HealthInv, Healthy, ~fault', Xmit, cmd # Sync
    PROVE  HealthInv'
<1> DEFINE c == Command
<1>1. CardCommand(c, arg) /\ sub = "xmit" /\ sub' = "resp" /\ (app' <=> app)
  BY DEF Xmit, Running, routine
<1>2. UNCHANGED <<pc, fn, Stat, tries>> /\ pc # "idle"
  BY RoutineFrame DEF CourseInv, SubInv, Knowing
<1>3. card # None /\ card'.kind = card.kind /\ (Awake => Awake') /\ card \in Card /\ card.kind # "MMC"
  BY RoutineAwake DEF Healthy, DiskInv, CardOK
<1>4. (pc = "cmd0" => c = CMD0) /\ (Awake => Hears(c))
  BY <1>1, CommandSent DEF Hears, Awake
<1>5. R1 = IF card.phase = "ready" THEN 0 ELSE 1
  BY DEF R1, Ready
<1>6. pc = "cmd0" => answer' = 1
  <2>1. pc = "cmd0" => Hears(c)
    BY <1>3, <1>4 DEF Hears
  <2>2. Hears(c) => Obeys(c, arg)
    BY <1>1, CommandObeyed DEF DiskInv, RoutineOK
  <2> QED BY <1>4, <2>1, <2>2 DEF Obeys
<1>7. ASSUME pc = "cmd8" PROVE answer' = Echo
  <2>1. Awake /\ card.phase = "idle" /\ c = 8
    BY <1>7, CommandNumbers DEF HealthInv, Initing, PhaseInv, CourseInv, StatusCmd, Command
  <2>2. IfCond(c)
    BY <1>1, <1>4, <2>1, CommandTaken
  <2> QED BY <1>5, <2>1, <2>2 DEF IfCond, Accepts, Refuses, Becomes, Echo
<1>8. ASSUME pc \in {"hcs", "probe", "opcond"} PROVE AppInv'
  <2>1. Awake /\ AppInv /\ cmd = 41 /\ (pc # "hcs" => card.kind = "SD1") /\ (pc = "hcs" => arg = HCS)
    BY <1>8 DEF HealthInv, Initing, CourseInv, StatusCmd
  <2>2. CASE app
    <3>1. AppCmd(c)
      BY <1>1, <1>4, <2>1, <2>2, CommandTaken, CommandNumbers DEF Command
    <3>2. card' = [Heard EXCEPT !.app = TRUE] /\ answer' = R1
      BY <1>3, <3>1 DEF AppCmd
    <3>3. card'.app
      BY <1>3, <3>2 DEF Heard, Card
    <3> QED BY <1>1, <1>5, <2>2, <3>2, <3>3 DEF AppInv
  <2>3. CASE ~app
    <3>1. card.app /\ OpCond(c, arg)
      BY <1>1, <1>4, <2>1, <2>3, CommandTaken DEF Command, AppInv
    <3>2. Ready \/ card.kind # "SDHC" \/ arg = HCS
      BY <1>8, <2>1
    <3>3. answer' = 0 \/ (answer' = 1 /\ tries # 1)
      <4> DEFINE Late == (Ready \/ card.kind # "SDHC" \/ arg = HCS) /\ tries = 1
      <4>1. answer' = 0 \/ (answer' = 1 /\ fault' = (fault \/ Late))
        BY <3>1, Zenon DEF OpCond, Becomes
      <4>2. fault' = (fault \/ Late) => ~Late
        BY Zenon
      <4>3. Late \/ tries # 1
        BY <3>2
      <4> QED BY <4>1, <4>2, <4>3, Zenon
    <3> QED BY <1>1, <1>2, <2>3, <3>3 DEF AppInv
  <2> QED BY <2>2, <2>3
<1>9. ASSUME pc \in {"ccs", "cmd16"} PROVE answer' = 0
  <2>1. Awake /\ card.phase = "ready" /\ c \in {16, 58}
    BY <1>9, CommandNumbers DEF HealthInv, Initing, PhaseInv, CourseInv, StatusCmd, Command
  <2>2. Simple(c) /\ R1 = 0 /\ Ready
    BY <1>1, <1>4, <1>5, <2>1, CommandTaken DEF Ready
  <2> QED BY <2>2 DEF Simple, Accepts, Becomes
<1>10. /\ pc = "cmd0" => Says(1)'
       /\ pc = "cmd8" => (Says(Echo))'
       /\ pc \in {"ccs", "cmd16"} => Says(0)'
  <2>1. Echo' = Echo
    BY <1>3 DEF Echo
  <2> QED BY <1>1, <1>6, <1>7, <1>9, <2>1 DEF Says
<1> HIDE DEF c
<1> QED BY <1>2, <1>3, <1>8, <1>10 DEF HealthInv

LEMMA FunctionHealth ==
    ASSUME DiskInv, CourseInv, PhaseInv, StatInv, TriesInv, HealthInv, Healthy, FunctionStep
    PROVE  HealthInv'
<1> USE DEF At, Goes, NoCall, Calls
<1>1. sub = "none" /\ UNCHANGED <<card, fn, changed, fault>> /\ pc # "idle"
  BY FunctionFrame
<1>2. (Awake' <=> Awake) /\ card # None /\ ~changed
  BY <1>1 DEF Awake, Healthy
<1>3. ASSUME pc' \notin Initing, pc' = "idle" => fn.op # "initialize" \/ "NOINIT" \notin Stat'
      PROVE  HealthInv'
  BY <1>1, <1>3 DEF HealthInv, Initing
<1>4. ASSUME NEW c, NEW a, SendCmd(c, a) PROVE sub' = "select"
  BY <1>4 DEF SendCmd
<1>5. CASE InitPort \/ Ins \/ Wp \/ Ocr
  BY <1>3, <1>5 DEF InitPort, Ins, Wp, Ocr, Initing
<1>6. CASE StatusEnds \/ Refused
  <2>1. pc = "known" /\ pc' = "idle" /\ (fn.op = "initialize" => "NODISK" \in s)
    BY <1>6 DEF StatusEnds, Refused, Return, Transfer
  <2>2. "NODISK" \notin s
    BY <1>2, <2>1 DEF StatInv
  <2> QED BY <1>3, <2>1, <2>2 DEF Initing
<1>7. CASE Start \/ BlockSize \/ Acmd23 \/ Accepted \/ OneDone \/ More \/ Stopped \/ Blocks \/ StopTran
  <2>1. pc' \notin Initing
    BY <1>7
       DEF Start, BlockSize, Acmd23, Accepted, OneDone, More, Stopped, Blocks, StopTran, End, Return, Initing
  <2>2. fn.op # "initialize"
    BY <1>1, <1>7
       DEF Start, BlockSize, Acmd23, Accepted, OneDone, More, Stopped, Blocks, StopTran, Transfer,
           CourseInv, SubInv, OpInv
  <2> QED BY <1>3, <2>1, <2>2
<1>8. CASE Idle
  <2>1. pc' = "cmd0" /\ sub' = "select"
    BY <1>4, <1>8 DEF Idle
  <2> QED BY <2>1 DEF HealthInv, Says
<1>9. CASE Cmd0
  <2>1. d = 1 /\ pc \in Asking
    BY <1>1, <1>9 DEF Cmd0, HealthInv, Says, Asking
  <2>2. pc' = "cmd8" /\ sub' = "select"
    BY <1>4, <1>9, <2>1 DEF Cmd0
  <2>3. Awake'
    BY <1>1, <1>2, <2>1 DEF PhaseInv, FF
  <2> QED BY <2>2, <2>3 DEF HealthInv, Says
<1>10. ASSUME pc' \in {"hcs", "probe", "opcond"}, Awake, sub' = "select", app',
              card.kind \in IF pc' = "hcs" THEN {"SD2", "SDHC"} ELSE {"SD1"}
       PROVE  HealthInv'
  BY <1>1, <1>2, <1>10 DEF HealthInv, AppInv
<1>11. ASSUME NEW a, SendCmd(ACMD41, a) PROVE sub' = "select" /\ app'
  BY <1>11, SentCommand
<1>12. CASE Cmd8
  <2>1. d = Echo /\ Awake /\ Echoed
    BY <1>1, <1>12 DEF Cmd8, HealthInv, Says, Initing, Echoed, Awake
  <2>2. card.kind \in {"SD1", "SD2", "SDHC"}
    BY <1>2, KindAssumption DEF DiskInv, CardOK, Card, Healthy
  <2>3. CASE d = 1
    <3>1. pc' = "hcs" /\ SendCmd(ACMD41, HCS) /\ card.kind \in {"SD2", "SDHC"}
      BY <1>12, <2>1, <2>3 DEF Cmd8, OpConds, Echo
    <3> QED BY <1>10, <1>11, <2>1, <3>1
  <2>4. CASE d # 1
    <3>1. pc' = "probe" /\ SendCmd(ACMD41, 0) /\ card.kind = "SD1"
      BY <1>12, <2>1, <2>2, <2>4 DEF Cmd8, Echo
    <3> QED BY <1>10, <1>11, <2>1, <3>1
  <2> QED BY <2>3, <2>4
<1>13. CASE Probe
  <2>1. pc = "probe" /\ pc' = "opcond" /\ SendCmd(ACMD41, 0)
    BY <1>13 DEF Probe, OpConds
  <2>2. Awake /\ card.kind = "SD1"
    BY <2>1 DEF HealthInv, Initing
  <2> QED BY <1>10, <1>11, <2>1, <2>2
<1>14. CASE Hcs \/ OpCondSent
  <2>1. /\ pc \in {"hcs", "opcond"} /\ tries >= 1 /\ Awake /\ (d = 0 \/ tries # 1)
        /\ card.kind \in IF pc = "hcs" THEN {"SD2", "SDHC"} ELSE {"SD1"}
    BY <1>1, <1>14 DEF Hcs, OpCondSent, HealthInv, TriesInv, Initing, AppInv
  <2>2. CASE d # 0
    <3>1. pc' = pc /\ \E a : SendCmd(ACMD41, a)
      BY <1>14, <2>1, <2>2 DEF Hcs, OpCondSent, OpConds
    <3> QED BY <1>10, <1>11, <2>1, <3>1
  <2>3. CASE d = 0
    <3>1. pc' \in {"ccs", "cmd16"} /\ sub' = "select"
      BY <1>4, <1>14, <2>3 DEF Hcs, OpCondSent
    <3> QED BY <1>2, <2>1, <3>1 DEF HealthInv, Says
  <2> QED BY <2>2, <2>3
<1>15. ASSUME NEW t, Finish(t), t # {} PROVE HealthInv'
  <2>1. pc' = "idle" /\ "NOINIT" \notin Stat'
    BY <1>15 DEF Finish, Return
  <2> QED BY <1>3, <2>1 DEF Initing
<1>16. CASE Ccs
  <2>1. d = 0 /\ pc = "ccs"
    BY <1>1, <1>16 DEF Ccs, HealthInv, Says
  <2> QED BY <1>15, <1>16, <2>1 DEF Ccs
<1>17. CASE Cmd16
  <2>1. d = 0 /\ ty # {}
    BY <1>1, <1>17 DEF Cmd16, HealthInv, Says, PhaseInv
  <2> QED BY <1>15, <1>17, <2>1 DEF Cmd16
<1> QED BY <1>5, <1>6, <1>7, <1>8, <1>9, <1>12, <1>13, <1>14, <1>16, <1>17 DEF FunctionStep

LEMMA HealthHolds == Spec => [](TriesInv /\ (Healthy => HealthInv))
<1>1. Init => TriesInv /\ HealthInv
  BY DEF Init, TriesInv, HealthInv, Initing
<1>2. DiskInv /\ CourseInv /\ PhaseInv /\ StatInv /\ TriesInv /\ (Healthy => HealthInv) /\ [Next]_vars
      => TriesInv' /\ (Healthy' => HealthInv')
  <2> SUFFICES ASSUME DiskInv, CourseInv, PhaseInv, StatInv, TriesInv, Healthy => HealthInv, [Next]_vars
               PROVE  TriesInv' /\ (Healthy' => HealthInv')
    OBVIOUS
  <2>1. CASE UNCHANGED vars
    <3>1. UNCHANGED <<card, answer, Stat, pc, fn, sub, app, tries, d, changed, fault>>
      BY <2>1 DEF vars, socket, locals, routine, statics
    <3>2. Echo' = Echo /\ (AppInv' <=> AppInv) /\ (TriesInv' <=> TriesInv)
      BY <3>1 DEF Echo, AppInv, TriesInv
    <3>3. (HealthInv' <=> HealthInv) /\ (Healthy' <=> Healthy)
      BY <3>1, <3>2 DEF HealthInv, Healthy, Says, Awake
    <3> QED BY <3>2, <3>3
  <2>2. CASE CardOut \/ CardIn
    <3>1. UNCHANGED <<pc, tries>> /\ changed'
      BY <2>2 DEF CardOut, CardIn, Swap, locals
    <3> QED BY <3>1 DEF TriesInv, Healthy
  <2>3. CASE Driver
    <3>1. TriesInv'
      BY <2>3, TriesKept
    <3>2. CASE Begin
      <4>1. pc' \in {"port", "ins"}
        BY <3>2 DEF Begin
      <4>2. HealthInv'
        BY <4>1 DEF HealthInv, Initing
      <4> QED BY <3>1, <4>2
    <3>3. CASE FunctionStep
      <4>1. Healthy' <=> Healthy
        BY <3>3, FunctionFrame DEF Healthy
      <4> QED BY <3>1, <3>3, <4>1, FunctionHealth
    <3>4. CASE Select \/ WaitReady \/ Xmit \/ Resp \/ Token \/ RecvData \/ SendData
      <4>1. Healthy' => Healthy /\ ~fault'
        BY <3>4, HealthyBefore DEF Healthy
      <4> QED BY <3>1, <3>4, <4>1, RoutineHealth, XmitHealth
    <3> QED BY <2>3, <3>2, <3>3, <3>4 DEF Driver, FunctionStep
  <2> QED BY <2>1, <2>2, <2>3 DEF Next
<1> QED BY <1>1, <1>2, DiskInvHolds, CourseInvHolds, PhaseInvHolds, StatInvHolds, PTL DEF Spec

\* For every kind of card and however it answers: a disk that counts as initialised is the
\* card in the socket, ready and addressed as its kind wants it; and an SD card that does
\* nothing wrong is initialised within the tries it is given (mmcbb.c:372-398, 425-460).
THEOREM StatIsTrueCorrect == Spec => []StatIsTrue
<1>1. StatInv /\ TriesInv /\ (Healthy => HealthInv) => StatIsTrue
  <2> SUFFICES ASSUME StatInv, Healthy => HealthInv, pc = "idle", ~changed
               PROVE  /\ "NOINIT" \notin Stat =>
                            /\ card # None /\ card.phase = "ready"
                            /\ "BLOCK" \in CardType <=> card.kind = "SDHC"
                            /\ "PROTECT" \in Stat <=> card.wp
                      /\ fn.op = "initialize" /\ ~fault /\ card # None =>
                            card.kind = "MMC" \/ "NOINIT" \notin Stat
    BY DEF StatIsTrue
  <2>1. ASSUME "NOINIT" \notin Stat
        PROVE  /\ card # None /\ card.phase = "ready"
               /\ "BLOCK" \in CardType <=> card.kind = "SDHC"
               /\ "PROTECT" \in Stat <=> card.wp
    BY <2>1 DEF StatInv, Initing, Moving, Awake, AddressedRight, SwitchIn
  <2>2. fn.op = "initialize" /\ ~fault /\ card # None => card.kind = "MMC" \/ "NOINIT" \notin Stat
    BY DEF Healthy, HealthInv
  <2> QED BY <2>1, <2>2
<1> QED BY <1>1, StatInvHolds, HealthHolds, PTL

-----------------------------------------------------------------------------
(* Where the card is among the sectors asked for. *)

AllGood == \A i \in 1 .. Len(moved) : moved[i] = fn.sector + i - 1

\* The card has taken the command of a transfer.
OnItsWay ==
    \/ pc \in {"recv", "send"} /\ ((sub = "resp" /\ answer = 0) \/ (sub = "none" /\ d = 0))
    \/ pc \in {"one", "more", "blocks"} /\ fn.op # "sync"

Positioned == card # None /\ card.doing # "none" => card.at = fn.sector + Len(moved)

OrderInv ==
    /\ pc \in Before => moved = <<>>
    /\ ~changed \/ sub = "data" \/ fn.op = "write" => AllGood
    /\ InOrder
    /\ sub = "data" /\ ~changed => Sending
    /\ ~changed /\ OnItsWay => Positioned

LEMMA OneMore ==
    ASSUME CountInv, NEW x \in Nat \cup {None}, moved' = Append(moved, x)
    PROVE  /\ Len(moved) \in Nat /\ Len(moved') = Len(moved) + 1 /\ DOMAIN moved' = 1 .. Len(moved) + 1
           /\ \A i \in 1 .. Len(moved) : moved'[i] = moved[i]
           /\ moved'[Len(moved) + 1] = x
BY DEF CountInv

\* The next block is the next sector's.
LEMMA GoodBlock ==
    ASSUME DiskInv, CountInv, AllGood, UNCHANGED fn, moved' = Append(moved, fn.sector + Len(moved))
    PROVE  AllGood' /\ InOrder' /\ Len(moved') = Len(moved) + 1
<1>1. fn.sector \in Nat /\ Len(moved) \in Nat
  BY CountTypes DEF CountInv
<1>2. fn.sector + Len(moved) \in Nat \cup {None}
  BY <1>1
<1>3. /\ Len(moved') = Len(moved) + 1 /\ DOMAIN moved' = 1 .. Len(moved) + 1
      /\ \A i \in 1 .. Len(moved) : moved'[i] = moved[i]
      /\ moved'[Len(moved) + 1] = fn.sector + Len(moved)
  BY <1>2, OneMore
<1>4. \A i \in 1 .. Len(moved) + 1 : moved'[i] = fn.sector + i - 1
  BY <1>1, <1>3 DEF AllGood
<1> QED BY <1>3, <1>4 DEF AllGood, InOrder

\* A block of a card that has been changed.
LEMMA LostBlock ==
    ASSUME DiskInv, CountInv, AllGood, UNCHANGED fn, fn.op # "write", moved' = Append(moved, None)
    PROVE  InOrder'
<1>1. fn.sector \in Nat /\ Len(moved) \in Nat
  BY CountTypes DEF CountInv
<1>2. /\ Len(moved') = Len(moved) + 1 /\ DOMAIN moved' = 1 .. Len(moved) + 1
      /\ \A i \in 1 .. Len(moved) : moved'[i] = moved[i]
      /\ moved'[Len(moved) + 1] = None
  BY OneMore
<1>3. ASSUME NEW i \in 1 .. Len(moved) + 1
      PROVE  moved'[i] = fn.sector + i - 1 \/ (moved'[i] = None /\ i = Len(moved'))
  <2>1. CASE i = Len(moved) + 1
    BY <1>2, <2>1
  <2>2. CASE i # Len(moved) + 1
    BY <1>1, <1>2, <2>2 DEF AllGood
  <2> QED BY <2>1, <2>2
<1> QED BY <1>2, <1>3 DEF InOrder

\* A card at work is the card that was there when the call began.
LEMMA WorkingCard ==
    ASSUME DiskInv, PhaseInv, card # None, card.doing # "none"
    PROVE  Awake /\ (fn.op # "initialize" => ~changed)
BY DEF PhaseInv, Awake

\* A step that moves no block leaves the card where it was.
LEMMA StaysPut ==
    ASSUME CardOK, Select \/ WaitReady \/ (Xmit /\ cmd = Sync) \/ Resp \/ Token
    PROVE  /\ moved' = moved
           /\ card' # None => card # None /\ card'.at = card.at
                              /\ (card'.doing # "none" => card'.doing = card.doing)
<1>1. CASE (Xmit /\ cmd = Sync) \/ Resp \/ Token
  BY <1>1 DEF Xmit, Resp, Token, socket
<1>2. card # None => card \in Card
  BY DEF CardOK
<1>3. CASE Select
  <2>1. moved' = moved /\ (card' = card \/ (card # None /\ card' = [card EXCEPT !.doing = "none"]))
    BY <1>3 DEF Select, Reselected
  <2> QED BY <1>2, <2>1 DEF Card
<1>4. CASE WaitReady
  <2>1. moved' = moved /\ (card' = card \/ (card # None /\ card' = [card EXCEPT !.busy = FALSE]))
    BY <1>4 DEF WaitReady, SeesReady, SeesBusy, Busy
  <2> QED BY <1>2, <2>1 DEF Card
<1> QED BY <1>1, <1>3, <1>4

\* The routine's steps but the command's and the blocks'.
LEMMA QuietOrder ==
    ASSUME DiskInv, CourseInv, PhaseInv, CountInv, OrderInv,
           Select \/ WaitReady \/ (Xmit /\ cmd = Sync) \/ Resp \/ Token
    PROVE  OrderInv'
<1>1. UNCHANGED <<pc, fn, changed>> /\ sub # "none"
  BY RoutineFrame
<1>2. /\ moved' = moved
      /\ card' # None => card # None /\ card'.at = card.at
                         /\ (card'.doing # "none" => card'.doing = card.doing)
  BY StaysPut DEF DiskInv
<1>3. (AllGood' <=> AllGood) /\ (InOrder' <=> InOrder)
  BY <1>1, <1>2 DEF AllGood, InOrder
<1>4. sub' = "data" => Sending /\ card' = card /\ fn.op # "initialize"
  <2>1. sub' = "data" => Token
    BY RoutineFrame DEF Select, WaitReady, Xmit, Resp, Running
  <2>2. Token /\ sub' = "data" => Sending /\ card' = card /\ pc \in {"one", "more"}
    BY DEF Token, Returns, Running, socket, CourseInv, SubInv, Knowing, Asking
  <2>3. pc \in {"one", "more"} => fn.op # "initialize"
    BY DEF CourseInv, SubInv, OpInv
  <2> QED BY <2>1, <2>2, <2>3
<1>5. sub' = "data" => ~changed /\ Sending'
  BY <1>1, <1>4, WorkingCard DEF Sending
<1>6. OnItsWay' => OnItsWay
  <2>1. CASE pc \in {"one", "more", "blocks"}
    BY <1>1, <2>1 DEF OnItsWay
  <2>2. CASE pc \in {"recv", "send"}
    <3>1. sub' = "none" /\ d' = 0 => Resp /\ sub = "resp" /\ answer = 0
      <4>1. WaitReady /\ sub' = "none" => d' # 0
        BY <1>1 DEF WaitReady, SeesReady, SeesBusy, Returns, FF
      <4>2. ~Token
        BY <2>2 DEF Token, Running, CourseInv, SubInv, Asking
      <4>3. Resp /\ sub' = "none" => sub = "resp" /\ d' = answer
        BY DEF Resp, Returns, Running
      <4>4. ~(Xmit /\ cmd = Sync)
        BY <2>2, CommandNumbers DEF CourseInv, TransferCmd, Sync
      <4>5. Select => sub' = "ready"
        BY DEF Select
      <4> QED BY <4>1, <4>2, <4>3, <4>4, <4>5
    <3>2. sub' # "resp"
      BY RoutineFrame DEF Select, WaitReady, Xmit, Resp, Token, Running
    <3> QED BY <1>1, <2>2, <3>1, <3>2 DEF OnItsWay
  <2> QED BY <1>1, <2>1, <2>2 DEF OnItsWay
<1>7. Positioned => Positioned'
  BY <1>1, <1>2 DEF Positioned
<1> QED BY <1>1, <1>2, <1>3, <1>5, <1>6, <1>7 DEF OrderInv

\* The command of a transfer sends the card to the sector asked for.
LEMMA PlaceRight ==
    ASSUME DiskInv, card \in Card, AddressedRight, arg = Address
    PROVE  Place(arg) = fn.sector
<1>1. fn.sector \in Nat
  BY CountTypes
<1>2. (fn.sector * 512) \div 512 = fn.sector
  BY <1>1
<1> QED BY <1>2 DEF AddressedRight, Address, Place

\* After its command a card is where it was sent, or at rest.
LEMMA XmitOrder ==
    ASSUME DiskInv, CourseInv, StatInv, CountInv, OrderInv, Xmit, cmd # Sync
    PROVE  OrderInv'
<1> DEFINE c == Command
<1>1. CardCommand(c, arg) /\ sub = "xmit" /\ sub' = "resp" /\ moved' = moved
  BY DEF Xmit, Running
<1>2. UNCHANGED <<pc, fn, changed>>
  BY RoutineFrame
<1>3. (AllGood' <=> AllGood) /\ (InOrder' <=> InOrder)
  BY <1>1, <1>2 DEF AllGood, InOrder
<1>4. pc \in Asking /\ (BlockCommand(c) <=> pc \in {"recv", "send"})
  BY <1>1, CommandSent
<1>5. ASSUME pc \in {"recv", "send"}, answer' = 0, card' # None, card'.doing # "none"
      PROVE  card'.at = fn'.sector + Len(moved')
  <2>1. Hears(c)
    BY <1>1, <1>5 DEF CardCommand, FF
  <2>2. Obeys(c, arg) /\ card \in Card
    BY <1>1, <2>1, CommandObeyed DEF DiskInv, RoutineOK, Hears, CardOK
  <2>3. card'.at = IF c = CMD9 THEN 0 ELSE Place(arg)
    BY <1>5, <2>2 DEF Obeys
  <2>4. Len(moved') = 0 /\ fn.sector \in Nat
    BY <1>1, <1>5, CountTypes DEF OrderInv, Before
  <2>5. c = cmd
    BY <1>5 DEF Command, CourseInv, TransferCmd
  <2>6. CASE c = CMD9
    <3>1. fn.op = "count"
      BY <1>5, <2>5, <2>6, CommandNumbers DEF CourseInv, TransferCmd
    <3>2. fn.sector = 0
      BY <3>1 DEF DiskInv, FunctionOK, Call
    <3> QED BY <1>2, <2>3, <2>4, <2>6, <3>2
  <2>7. CASE c # CMD9
    <3>1. arg = Address
      BY <1>5, <2>5, <2>7 DEF CourseInv, OpInv, TransferCmd
    <3>2. Awake
      BY <1>5, <2>1, <2>5, CommandNumbers DEF Hears, Awake, CourseInv, TransferCmd
    <3>3. AddressedRight
      BY <1>5, <3>2 DEF StatInv, Moving, Initing
    <3> QED BY <1>2, <2>2, <2>3, <2>4, <2>7, <3>1, <3>3, PlaceRight
  <2> QED BY <2>6, <2>7
<1>6. OnItsWay' => pc \in {"recv", "send"} /\ answer' = 0
  BY <1>1, <1>2, <1>4 DEF OnItsWay, Asking
<1> HIDE DEF c
<1> QED BY <1>1, <1>2, <1>3, <1>5, <1>6 DEF OrderInv, Positioned

\* A block comes in, from the card or, if it has been changed, from nobody.
LEMMA RecvOrder ==
    ASSUME DiskInv, CourseInv, CountInv, OrderInv, RecvData
    PROVE  OrderInv'
<1>1. sub = "data" /\ sub' = "none" /\ moved' = Block /\ UNCHANGED <<pc, fn, changed>>
  BY RoutineFrame DEF RecvData, Running, Returns
<1>2. pc \in {"one", "more"} /\ fn.op \in {"read", "count"} /\ pc \notin Before
  BY <1>1 DEF CourseInv, SubInv, OpInv, Knowing, Asking, Before
<1>3. AllGood
  BY <1>1 DEF OrderInv
<1>4. CASE ~changed
  <2>1. Sending /\ OnItsWay /\ Positioned
    BY <1>1, <1>2, <1>4 DEF OrderInv, OnItsWay
  <2>2. card \in Card /\ card # None /\ card.at = fn.sector + Len(moved) /\ card.at \in Nat
    BY <2>1, NoneAssumption DEF Sending, Positioned, DiskInv, CardOK, Card
  <2>3. moved' = Append(moved, fn.sector + Len(moved))
    BY <1>1, <1>4, <2>2 DEF Block
  <2>4. AllGood' /\ InOrder' /\ Len(moved') = Len(moved) + 1
    BY <1>1, <1>3, <2>3, GoodBlock
  <2>5. card'.at = card.at + 1
    BY <2>1, <2>2 DEF RecvData, Card
  <2>6. fn.sector \in Nat /\ Len(moved) \in Nat
    BY CountTypes DEF CountInv
  <2>7. Positioned'
    BY <1>1, <2>2, <2>4, <2>5, <2>6 DEF Positioned
  <2> QED BY <1>1, <1>2, <2>4, <2>7 DEF OrderInv
<1>5. CASE changed
  <2>1. moved' = Append(moved, None)
    BY <1>1, <1>5 DEF Block
  <2>2. InOrder'
    BY <1>1, <1>2, <1>3, <2>1, LostBlock
  <2> QED BY <1>1, <1>2, <1>5, <2>2 DEF OrderInv
<1> QED BY <1>4, <1>5

\* A block goes out, to the card that was there when the call began.
LEMMA SendOrder ==
    ASSUME DiskInv, CourseInv, PhaseInv, CountInv, OrderInv, SendData
    PROVE  OrderInv'
<1>1. sub = "wdata" /\ sub' = "none" /\ UNCHANGED <<pc, fn, changed>>
  BY RoutineFrame DEF SendData, Running
<1>2. pc \in {"one", "blocks", "stoptran"} /\ fn.op = "write" /\ pc \notin Before
  BY <1>1 DEF CourseInv, SubInv, OpInv, Knowing, Asking, Before
<1>3. AllGood
  BY <1>2 DEF OrderInv
<1>4. cmd = Stop <=> pc = "stoptran"
  BY <1>2 DEF CourseInv, TransferCmd, Stop
<1>5. CASE moved' = moved
  <2>1. (AllGood' <=> AllGood) /\ (InOrder' <=> InOrder)
    BY <1>1, <1>5 DEF AllGood, InOrder
  <2>2. pc # "stoptran" => card' = card \/ (cmd # Stop /\ Taking /\ moved' = Block)
    BY <1>4 DEF SendData
  <2>3. Len(Block) = Len(moved) + 1 /\ Len(moved) \in Nat
    BY BlockType
  <2>4. pc # "stoptran" => card' = card
    BY <1>5, <2>2, <2>3
  <2>5. OnItsWay' => OnItsWay /\ card' = card
    BY <1>1, <1>2, <2>4 DEF OnItsWay
  <2> QED BY <1>1, <1>2, <1>3, <1>5, <2>1, <2>5 DEF OrderInv, Positioned
<1>6. CASE moved' # moved
  <2> DEFINE On == IF card.many THEN "in" ELSE "none"
  <2>1. /\ Taking /\ moved' = Block /\ cmd # Stop
        /\ card' = [card EXCEPT !.at = card.at + 1, !.busy = TRUE, !.doing = On]
    BY <1>6 DEF SendData
  <2>2. card \in Card /\ card # None /\ card.doing # "none"
    BY <2>1, NoneAssumption DEF Taking, DiskInv, CardOK
  <2>3. ~changed
    BY <1>2, <2>2, WorkingCard
  <2>4. OnItsWay
    BY <1>2, <1>4, <2>1 DEF OnItsWay
  <2>5. card.at = fn.sector + Len(moved)
    BY <2>2, <2>3, <2>4 DEF OrderInv, Positioned
  <2>6. moved' = Append(moved, fn.sector + Len(moved))
    BY <2>1, <2>2, <2>3, <2>5 DEF Block
  <2>7. AllGood' /\ InOrder' /\ Len(moved') = Len(moved) + 1
    BY <1>1, <1>3, <2>6, GoodBlock
  <2>8. card'.at = card.at + 1
    <3> HIDE DEF On
    <3> QED BY <2>1, <2>2 DEF Card
  <2>9. fn.sector \in Nat /\ Len(moved) \in Nat
    BY CountTypes DEF CountInv
  <2>10. Positioned'
    BY <1>1, <2>5, <2>7, <2>8, <2>9 DEF Positioned
  <2> QED BY <1>1, <1>2, <2>7, <2>10 DEF OrderInv
<1> QED BY <1>5, <1>6

LEMMA FunctionOrder ==
    ASSUME CourseInv, OrderInv, FunctionStep
    PROVE  OrderInv'
<1> USE DEF At, Goes, NoCall, Calls
<1>1. sub = "none" /\ UNCHANGED <<card, answer, fn, moved, changed>> /\ pc # "idle"
  BY FunctionFrame
<1>2. (AllGood' <=> AllGood) /\ (InOrder' <=> InOrder) /\ (Positioned' <=> Positioned)
  BY <1>1 DEF AllGood, InOrder, Positioned
<1>3. ASSUME sub' # "data", pc' \in Before => pc \in Before, OnItsWay' => OnItsWay
      PROVE  OrderInv'
  BY <1>1, <1>2, <1>3 DEF OrderInv
<1>4. ASSUME NEW c, NEW a, SendCmd(c, a) PROVE sub' = "select"
  BY <1>4 DEF SendCmd
<1>5. CASE InitPort \/ Ins \/ Wp \/ Ocr \/ StatusEnds \/ Refused
  <2>1. /\ sub' \in {"none", "select"} /\ pc \in Before
        /\ pc' \in {"ins", "wp", "ocr", "known", "idle"}
    BY <1>1, <1>4, <1>5 DEF InitPort, Ins, Wp, Ocr, StatusEnds, Refused, Return, Before
  <2> QED BY <1>3, <2>1 DEF OnItsWay
<1>6. CASE Idle \/ Cmd0 \/ Cmd8 \/ Hcs \/ Ccs \/ Probe \/ OpCondSent \/ Cmd16
  <2>1. sub' \in {"none", "select"} /\ pc' \in Initing \cup {"idle"}
    BY <1>1, <1>4, <1>6
       DEF Idle, Cmd0, Cmd8, Hcs, Ccs, Probe, OpCondSent, Cmd16, OpConds, Finish, Return, Initing
  <2> QED BY <1>3, <2>1 DEF OnItsWay, Before, Initing
<1>7. CASE Start \/ Acmd23
  <2>1. sub' = "select" /\ pc \in Before /\ pc' \in {"one", "recv", "send", "acmd23"}
        /\ (pc' = "one" => fn.op = "sync")
    BY <1>4, <1>7 DEF Start, Acmd23, Before
  <2> QED BY <1>1, <1>3, <2>1 DEF OnItsWay
<1>8. CASE BlockSize \/ OneDone \/ Stopped \/ StopTran
  <2>1. sub' = "none" /\ pc' = "idle"
    BY <1>1, <1>8 DEF BlockSize, OneDone, Stopped, StopTran, End, Return
  <2> QED BY <1>3, <2>1 DEF OnItsWay, Before
<1>9. CASE Accepted
  <2>1. \/ sub' = "none" /\ pc' = "idle"
        \/ /\ pc \in {"recv", "send"} /\ d = 0 /\ sub' \in {"token", "wready"}
           /\ pc' \in {"one", "more", "blocks"}
    BY <1>1, <1>9 DEF Accepted, End, Return, Recv, Send
  <2> QED BY <1>1, <1>3, <2>1 DEF OnItsWay, Before
<1>10. CASE More \/ Blocks
  <2>1. /\ pc \in {"more", "blocks"} /\ sub' \in {"token", "wready", "select"}
        /\ pc' \in {"more", "blocks", "stop", "stoptran"}
    BY <1>4, <1>10 DEF More, Blocks, Recv, Send
  <2> QED BY <1>1, <1>3, <2>1 DEF OnItsWay, Before
<1> QED BY <1>5, <1>6, <1>7, <1>8, <1>9, <1>10 DEF FunctionStep

LEMMA OrderInvHolds == Spec => []OrderInv
<1>1. Init => OrderInv
  <2> SUFFICES ASSUME Init PROVE OrderInv
    OBVIOUS
  <2>1. moved = <<>> /\ pc = "idle" /\ sub = "none"
    BY DEF Init
  <2>2. AllGood /\ InOrder
    BY <2>1 DEF AllGood, InOrder
  <2> QED BY <2>1, <2>2 DEF OrderInv, OnItsWay
<1>2. DiskInv /\ CourseInv /\ PhaseInv /\ StatInv /\ CountInv /\ OrderInv /\ [Next]_vars => OrderInv'
  <2> SUFFICES ASSUME DiskInv, CourseInv, PhaseInv, StatInv, CountInv, OrderInv, [Next]_vars
               PROVE  OrderInv'
    OBVIOUS
  <2>1. CASE UNCHANGED vars
    <3>1. UNCHANGED <<card, answer, pc, fn, sub, d, moved, changed>>
      BY <2>1 DEF vars, socket, locals
    <3>2. (AllGood' <=> AllGood) /\ (InOrder' <=> InOrder) /\ (Positioned' <=> Positioned)
          /\ (OnItsWay' <=> OnItsWay)
      BY <3>1 DEF AllGood, InOrder, Positioned, OnItsWay
    <3> QED BY <3>1, <3>2 DEF OrderInv, Sending
  <2>2. CASE CardOut \/ CardIn
    <3>1. UNCHANGED <<pc, fn, sub, moved>> /\ changed'
      BY <2>2 DEF CardOut, CardIn, Swap, locals
    <3>2. (AllGood' <=> AllGood) /\ (InOrder' <=> InOrder)
      BY <3>1 DEF AllGood, InOrder
    <3> QED BY <3>1, <3>2 DEF OrderInv
  <2>3. CASE Begin
    <3>1. moved' = <<>> /\ pc' \in {"port", "ins"} /\ sub' = "none"
      BY <2>3 DEF Begin, CourseInv, SubInv, Knowing
    <3>2. AllGood' /\ InOrder'
      BY <3>1 DEF AllGood, InOrder
    <3> QED BY <3>1, <3>2 DEF OrderInv, OnItsWay
  <2>4. CASE FunctionStep
    BY <2>4, FunctionOrder
  <2>5. CASE Select \/ WaitReady \/ Xmit \/ Resp \/ Token \/ RecvData \/ SendData
    BY <2>5, QuietOrder, XmitOrder, RecvOrder, SendOrder
  <2> QED BY <2>1, <2>2, <2>3, <2>4, <2>5 DEF Next, Driver, FunctionStep
<1> QED BY <1>1, <1>2, DiskInvHolds, CourseInvHolds, PhaseInvHolds, StatInvHolds, CountInvHolds, PTL
        DEF Spec

\* For every sector and count: the blocks of a transfer are those asked for and in their
\* order, but for the one that was coming when the card was pulled out
\* (mmcbb.c:272-275, 487-505, 528-548).
THEOREM InOrderCorrect == Spec => []InOrder
<1>1. OrderInv => InOrder
  BY DEF OrderInv
<1> QED BY <1>1, OrderInvHolds, PTL

-----------------------------------------------------------------------------
(* Only a card that was there when the call began takes a block of a write.            *)

\* Every step but those that move a block leaves their number, or sets it back.
LEMMA NoBlock ==
    ASSUME DiskInv, CourseInv, CountInv, fn.op = "write", [Next]_vars, ~SendData
    PROVE  ~(Len(moved') > Len(moved))
<1>1. Len(moved) \in Nat
  BY BlockType
<1>2. moved' = moved \/ moved' = <<>>
  <2>1. CASE UNCHANGED vars \/ CardOut \/ CardIn \/ Begin
    BY <2>1 DEF vars, CardOut, CardIn, Swap, locals, Begin
  <2>2. CASE FunctionStep
    BY <2>2, FunctionFrame
  <2>3. CASE Select \/ WaitReady \/ Xmit \/ Resp \/ Token
    BY <2>3 DEF Select, WaitReady, Xmit, Resp, Token
  <2>4. ~RecvData
    BY DEF RecvData, Running, CourseInv, SubInv, OpInv, Knowing, Asking
  <2> QED BY <2>1, <2>2, <2>3, <2>4 DEF Next, Driver, FunctionStep
<1> QED BY <1>1, <1>2

\* For every card, and wherever in a call the cards are exchanged: no block of a write
\* goes to a card whose switch says no (mmcbb.c:380-384, 525-527).
THEOREM ProtectedKeptCorrect == Spec => ProtectedKept
<1>1. ASSUME DiskInv, CourseInv, PhaseInv, CountInv, ProtInv, [Next]_vars,
             fn.op = "write", Len(moved') > Len(moved)
      PROVE  card # None /\ ~card.wp
  <2>1. SendData
    BY <1>1, NoBlock
  <2>2. sub = "wdata" /\ Len(moved) \in Nat
    BY <1>1, <2>1, BlockType DEF SendData, Running
  <2>3. Taking
    BY <1>1, <2>1, <2>2 DEF SendData
  <2>4. ~changed
    BY <1>1, <2>3, WorkingCard DEF Taking
  <2> QED BY <1>1, <2>2, <2>4 DEF ProtInv, Writable
<1> QED BY <1>1, DiskInvHolds, CourseInvHolds, PhaseInvHolds, CountInvHolds, ProtInvHolds, PTL
        DEF Spec, ProtectedKept

-----------------------------------------------------------------------------
(* The disk functions implement CardDisk, step by step.  One lemma per action of      *)
(* CardDisk turns facts about the mapped variables, which are formulas, into it; the  *)
(* others say which step of the program is which.                                     *)

\* What CardDisk sees of the program.
Here     == card # None
IsReady  == card # None /\ card.phase = "ready"
Unusable == "NOINIT" \in Stat
Good     == res = "OK"

LEMMA Truths ==
    /\ Here \in BOOLEAN /\ IsReady \in BOOLEAN /\ Unusable \in BOOLEAN /\ Saw \in BOOLEAN /\ Good \in BOOLEAN
    /\ Here' \in BOOLEAN /\ IsReady' \in BOOLEAN /\ Unusable' \in BOOLEAN /\ Saw' \in BOOLEAN /\ Good' \in BOOLEAN
<1>1. Here \in BOOLEAN /\ Here' \in BOOLEAN
  BY DEF Here
<1>2. IsReady \in BOOLEAN /\ IsReady' \in BOOLEAN
  BY DEF IsReady
<1>3. Unusable \in BOOLEAN /\ Unusable' \in BOOLEAN
  BY DEF Unusable
<1>4. Saw \in BOOLEAN /\ Saw' \in BOOLEAN
  BY DEF Saw
<1>5. Good \in BOOLEAN /\ Good' \in BOOLEAN
  BY DEF Good
<1> QED BY <1>1, <1>2, <1>3, <1>4, <1>5

LEMMA SameDisk ==
    ASSUME Here' <=> Here, IsReady' <=> IsReady, Unusable' <=> Unusable, Op' = Op, Saw' <=> Saw,
           Good' <=> Good
    PROVE  UNCHANGED Disk!vars
<1>1. Here' = Here /\ IsReady' = IsReady /\ Unusable' = Unusable /\ Saw' = Saw /\ Good' = Good
  BY Truths, Zenon
<1> QED BY <1>1 DEF Disk!vars, Disk!card, Here, IsReady, Unusable, Good

LEMMA HandMoves ==
    ASSUME Here' <=> ~Here, ~IsReady', Saw' => Saw, Unusable' <=> Unusable, Op' = Op, Good' <=> Good
    PROVE  Disk!Hand
<1>1. Here' = ~Here /\ IsReady' = FALSE /\ Unusable' = Unusable /\ Good' = Good
  BY Truths, Zenon
<1>2. Saw' \in {Saw, FALSE}
  <2>1. Saw' = Saw \/ Saw' = FALSE
    BY Truths, Zenon
  <2> QED BY <2>1, Truths, Zenon
<1> QED BY <1>1, <1>2 DEF Disk!Hand, Here, IsReady, Unusable, Good

LEMMA CallBegins ==
    ASSUME Here' <=> Here, IsReady' <=> IsReady, Unusable' <=> Unusable, Op = "none",
           Op' \in {"ask", "initialize", "move"}, ~Saw', ~Good'
    PROVE  Disk!Begin
<1>1. Here' = Here /\ IsReady' = IsReady /\ Unusable' = Unusable /\ Saw' = FALSE /\ Good' = FALSE
  BY Truths, Zenon
<1> QED BY <1>1 DEF Disk!Begin, Disk!card, Here, IsReady, Unusable, Good

LEMMA CardSleeps ==
    ASSUME Here' <=> Here, ~IsReady', Unusable' <=> Unusable, Op = "initialize", Op' = Op, ~Saw',
           Good' <=> Good
    PROVE  Disk!Sleeps
<1>1. Here' = Here /\ IsReady' = FALSE /\ Unusable' = Unusable /\ Saw' = FALSE /\ Good' = Good
  BY Truths, Zenon
<1> QED BY <1>1 DEF Disk!Sleeps, Here, IsReady, Unusable, Good

LEMMA CardWakes ==
    ASSUME Here, Here', IsReady', Unusable' <=> Unusable, Op = "initialize", Op' = Op, Saw' <=> Saw,
           Good' <=> Good
    PROVE  Disk!Wakes
<1>1. Here' = Here /\ IsReady' = TRUE /\ Unusable' = Unusable /\ Saw' = Saw /\ Good' = Good
  BY Truths, Zenon
<1> QED BY <1>1 DEF Disk!Wakes, Here, IsReady, Unusable, Good

LEMMA CardSeen ==
    ASSUME Here' <=> Here, IsReady' <=> IsReady, IsReady, Unusable' <=> Unusable, Op # "none", Op' = Op,
           Saw', Good' <=> Good
    PROVE  Disk!Sees
<1>1. Here' = Here /\ IsReady' = IsReady /\ Unusable' = Unusable /\ Saw' = TRUE /\ Good' = Good
  BY Truths, Zenon
<1> QED BY <1>1 DEF Disk!Sees, Disk!card, Here, IsReady, Unusable, Good

LEMMA FoundOut ==
    ASSUME Here' <=> Here, IsReady' <=> IsReady, Unusable', Op # "none", Op' = Op,
           Saw' <=> Saw, Good' <=> Good
    PROVE  Disk!Finds
<1>1. Here' = Here /\ IsReady' = IsReady /\ Unusable' = TRUE /\ Saw' = Saw /\ Good' = Good
  BY Truths, Zenon
<1> QED BY <1>1 DEF Disk!Finds, Disk!card, Here, IsReady, Unusable, Good

LEMMA CallReturns ==
    ASSUME Here' <=> Here, IsReady' <=> IsReady, Op # "none", Op' = "none", ~Saw',
           IF Op = "initialize" THEN Saw \/ Unusable' ELSE Unusable' <=> Unusable,
           Op = "ask" => Saw \/ Unusable,
           Good' => Op # "initialize" /\ Saw /\ ~Unusable
    PROVE  Disk!Ends
<1>1. Here' = Here /\ IsReady' = IsReady /\ Saw' = FALSE
  BY Truths, Zenon
<1>2. Unusable' \in IF Op = "initialize" THEN {~Saw, TRUE} ELSE {Unusable}
  <2>1. CASE Op = "initialize"
    <3>1. Unusable' = ~Saw \/ Unusable' = TRUE
      BY <2>1, Truths, Zenon
    <3> QED BY <2>1, <3>1
  <2>2. CASE Op # "initialize"
    <3>1. Unusable' = Unusable
      BY <2>2, Truths, Zenon
    <3> QED BY <2>2, <3>1
  <2> QED BY <2>1, <2>2
<1>3. Good' \in {FALSE, Op # "initialize" /\ Saw /\ ~Unusable}
  <2>1. Good' = FALSE \/ Good' = (Op # "initialize" /\ Saw /\ ~Unusable)
    BY Truths, Zenon
  <2> QED BY <2>1, Truths, Zenon
<1> QED BY <1>1, <1>2, <1>3 DEF Disk!Ends, Disk!card, Here, IsReady, Unusable, Good

\* No disk is an uninitialised one, and a transfer that has begun has a block to move.
AskedInv ==
    /\ pc = "known" /\ "NODISK" \in s => "NOINIT" \in s
    /\ pc \in {"recv", "send", "acmd23"} => left > 0

LEMMA AskedInvHolds == Spec => []AskedInv
<1>1. Init => AskedInv
  BY DEF Init, AskedInv
<1>2. StatInv /\ AskedInv /\ [Next]_vars => AskedInv'
  <2> SUFFICES ASSUME StatInv, AskedInv, [Next]_vars PROVE AskedInv'
    OBVIOUS
  <2>1. CASE UNCHANGED vars
    BY <2>1 DEF vars, locals, AskedInv
  <2>2. CASE CardOut \/ CardIn
    BY <2>2 DEF CardOut, CardIn, Swap, locals, AskedInv
  <2>3. CASE Select \/ WaitReady \/ Xmit \/ Resp \/ Token \/ RecvData \/ SendData
    BY <2>3, RoutineFrame DEF AskedInv
  <2>4. CASE Begin \/ InitPort \/ StatusEnds \/ Refused \/ BlockSize \/ OneDone \/ Stopped \/ StopTran
    BY <2>4 DEF Begin, InitPort, StatusEnds, Refused, BlockSize, OneDone, Stopped, StopTran, End,
                Goes, Return, AskedInv
  <2>5. CASE Ins \/ Wp \/ Ocr
    BY <2>5 DEF Ins, Wp, Ocr, At, Goes, NotInitialized, StatInv, AskedInv
  <2>6. CASE Idle \/ Cmd0 \/ Cmd8 \/ Hcs \/ Ccs \/ Probe \/ OpCondSent \/ Cmd16
    BY <2>6 DEF Idle, Cmd0, Cmd8, Hcs, Ccs, Probe, OpCondSent, Cmd16, OpConds, Finish, Goes, Return,
                AskedInv
  <2>7. CASE Start \/ Acmd23 \/ Accepted \/ More \/ Blocks
    BY <2>7 DEF Start, Acmd23, Accepted, More, Blocks, End, Return, At, Goes, AskedInv
  <2> QED BY <2>1, <2>2, <2>3, <2>4, <2>5, <2>6, <2>7 DEF Next, Driver
<1> QED BY <1>1, <1>2, StatInvHolds, PTL DEF Spec

DiskNow == DiskInv /\ CourseInv /\ PhaseInv /\ StatInv /\ AskedInv

\* The hand at the socket.
LEMMA HandIsHand == ASSUME CardOK, CardOut \/ CardIn PROVE Disk!Hand
<1>1. UNCHANGED <<pc, s, fn, sub, d, Stat, res>> /\ answer' = FF
  BY DEF CardOut, CardIn, Swap, statics, locals
<1>2. /\ Here' <=> ~Here
      /\ ~IsReady'
  <2>1. CASE CardOut
    BY <2>1 DEF CardOut, Swap, Here, IsReady
  <2>2. CASE CardIn
    <3>1. PICK k \in Kinds, w \in BOOLEAN : card = None /\ card' = Fresh(k, w)
      BY <2>2 DEF CardIn, Swap
    <3>2. Fresh(k, w) \in Card /\ Fresh(k, w).phase = "power"
      BY FreshIsCard DEF Fresh
    <3> QED BY <3>1, <3>2, NoneAssumption DEF Here, IsReady
  <2> QED BY <2>1, <2>2
<1>3. Op' = Op
  BY <1>1 DEF Op
<1>4. Saw' => Saw
  <2>1. Zero' => Zero
    BY <1>1 DEF Zero, FF
  <2> QED BY <1>1, <1>3, <2>1 DEF Saw
<1>5. (Unusable' <=> Unusable) /\ (Good' <=> Good)
  BY <1>1 DEF Unusable, Good
<1> QED BY <1>2, <1>3, <1>4, <1>5, HandMoves

\* A call begins.
LEMMA BeginBegins == ASSUME Begin PROVE Disk!Begin
<1>1. /\ pc = "idle" /\ fn' \in Call /\ pc' \in {"port", "ins"} /\ res' = "none"
      /\ UNCHANGED <<card, Stat>>
  BY DEF Begin, socket, statics
<1>2. Op = "none" /\ Op' \in {"ask", "initialize", "move"}
  BY <1>1 DEF Op
<1>3. ~Saw'
  BY <1>1 DEF Saw
<1>4. /\ Here' <=> Here
      /\ IsReady' <=> IsReady
      /\ Unusable' <=> Unusable
      /\ ~Good'
  BY <1>1 DEF Here, IsReady, Unusable, Good
<1> QED BY <1>2, <1>3, <1>4, CallBegins

\* What a routine leaves alone.
LEMMA RoutineSame ==
    ASSUME Select \/ WaitReady \/ Xmit \/ Resp \/ Token \/ RecvData \/ SendData
    PROVE  (Unusable' <=> Unusable) /\ Op' = Op /\ (Good' <=> Good)
BY RoutineFrame DEF Unusable, Op, Good

\* An answer of 0 counts from the command that it answers until the next one goes out.
Answering == {"ocr", "ccs", "cmd16", "recv", "send"}

LEMMA SawFrom ==
    ASSUME UNCHANGED <<pc, fn, s>>, pc \in Answering => (Zero' <=> Zero)
    PROVE  Saw' <=> Saw
<1>1. Op' = Op
  BY DEF Op
<1>2. Answering = {"ocr", "ccs", "cmd16", "recv", "send"}
  BY DEF Answering
<1> HIDE DEF Zero, Op
<1> QED BY <1>1, <1>2 DEF Saw

LEMMA RoutineStutters ==
    ASSUME DiskNow, Select \/ WaitReady \/ (Xmit /\ cmd = Sync) \/ Resp \/ Token \/ RecvData \/ SendData
    PROVE  UNCHANGED Disk!vars
<1>1. (Here' <=> Here) /\ (IsReady' <=> IsReady)
  BY RoutineStill DEF DiskNow, DiskInv, CardStill, Here, IsReady
<1>2. pc \in Answering => (Zero' <=> Zero)
  <2> SUFFICES ASSUME pc \in Answering PROVE Zero' <=> Zero
    OBVIOUS
  <2>1. ~app /\ cmd # Sync /\ sub \in {"none", "select", "ready", "xmit", "resp"}
    BY CommandNumbers DEF DiskNow, CourseInv, StatusCmd, TransferCmd, SubInv, Answering, Asking, Sync
  <2>2. CASE Select
    BY <2>2 DEF Select, Running, Zero
  <2>3. CASE WaitReady
    BY <2>3 DEF WaitReady, SeesReady, SeesBusy, Returns, Running, Zero, FF
  <2>4. CASE Resp
    BY <2>1, <2>4 DEF Resp, Returns, Running, Zero
  <2> QED BY <2>1, <2>2, <2>3, <2>4 DEF Xmit, Token, RecvData, SendData, Running
<1>3. Saw' <=> Saw
  BY <1>2, RoutineFrame, SawFrom
<1> QED BY <1>1, <1>3, RoutineSame, SameDisk

\* A command goes out: the card hears it or not, sleeps, wakes, or shows that it is ready.
LEMMA XmitSteps ==
    ASSUME DiskNow, Xmit, cmd # Sync
    PROVE  [Disk!Next]_Disk!vars
<1> DEFINE c == Command
<1>1. /\ CardCommand(c, arg) /\ sub = "xmit" /\ sub' = "resp"
      /\ UNCHANGED <<pc, fn, s>>
  BY RoutineFrame DEF Xmit, Running
<1>2. /\ pc \in Asking
      /\ c = CMD0 <=> pc = "cmd0"
      /\ c = 41 => pc \in {"hcs", "probe", "opcond"}
  BY <1>1, CommandSent DEF DiskNow
<1>3. Op # "none" /\ (pc \in Initing => Op = "initialize")
  BY <1>2 DEF Op, Asking, DiskNow, CourseInv, OpInv
<1>4. pc \notin Answering => (Saw' <=> Saw)
  BY <1>1, SawFrom
<1>5. ~Zero /\ (Zero' <=> answer' = 0)
  BY <1>1 DEF Zero
<1>6. pc \in Answering => ~Saw /\ (Saw' => answer' = 0)
  BY <1>1, <1>5 DEF Saw, Answering
<1>7. (Unusable' <=> Unusable) /\ Op' = Op /\ (Good' <=> Good)
  BY RoutineSame
<1>8. CASE ~Hears(c)
  <2>1. card' = card /\ answer' # 0
    BY <1>1, <1>8 DEF CardCommand, FF
  <2>2. (Here' <=> Here) /\ (IsReady' <=> IsReady)
    BY <2>1 DEF Here, IsReady
  <2>3. Saw' <=> Saw
    BY <1>4, <1>6, <2>1
  <2> QED BY <1>7, <2>2, <2>3, SameDisk
<1>9. CASE Hears(c)
  <2>1. Obeys(c, arg)
    BY <1>1, <1>9, CommandObeyed DEF DiskNow, DiskInv, RoutineOK
  <2>2. Here /\ Here' /\ (IsReady' <=> card'.phase = "ready") /\ (IsReady <=> card.phase = "ready")
    BY <1>9, <2>1, NoneAssumption DEF Obeys, Hears, Here, IsReady
  <2>3. CASE c = CMD0
    <3>1. pc = "cmd0" /\ ~IsReady'
      BY <1>2, <2>1, <2>2, <2>3 DEF Obeys
    <3>2. ~Saw' /\ Op = "initialize"
      BY <1>1, <1>3, <3>1 DEF Saw, Initing
    <3>3. Disk!Sleeps
      BY <1>7, <2>2, <3>1, <3>2, CardSleeps
    <3> QED BY <3>3, Zenon DEF Disk!Next
  <2>4. CASE c # CMD0 /\ card'.phase = card.phase
    <3>1. IsReady' <=> IsReady
      BY <2>2, <2>4
    <3>2. CASE pc \in Answering /\ Saw'
      <4>1. IsReady
        BY <1>6, <2>1, <2>2, <3>1, <3>2 DEF Obeys
      <4>2. Disk!Sees
        BY <1>3, <1>7, <2>2, <3>1, <3>2, <4>1, CardSeen
      <4> QED BY <4>2, Zenon DEF Disk!Next
    <3>3. CASE Saw' <=> Saw
      BY <1>7, <2>2, <3>1, <3>3, SameDisk
    <3> QED BY <1>4, <1>6, <3>2, <3>3
  <2>5. CASE c = 41 /\ card'.phase = "ready"
    <3>1. Op = "initialize" /\ (Saw' <=> Saw)
      BY <1>2, <1>3, <1>4, <2>5 DEF Initing, Answering
    <3>2. Disk!Wakes
      BY <1>7, <2>2, <2>5, <3>1, CardWakes
    <3> QED BY <3>2, Zenon DEF Disk!Next
  <2> HIDE DEF c
  <2> QED BY <2>1, <2>3, <2>4, <2>5 DEF Obeys
<1> QED BY <1>8, <1>9

\* A step of a disk function that leaves Stat, or at least STA_NOINIT, as it is.
LEMMA GoesOn ==
    ASSUME UNCHANGED <<card, fn, res>>, Unusable' <=> Unusable, pc # "idle", pc' # "idle", Saw' <=> Saw
    PROVE  UNCHANGED Disk!vars
<1>1. (Here' <=> Here) /\ (IsReady' <=> IsReady) /\ (Good' <=> Good) /\ Op' = Op
  BY DEF Here, IsReady, Good, Op
<1> QED BY <1>1, SameDisk

\* The status, found out and remembered.
LEMMA StatusSteps ==
    ASSUME DiskNow, InitPort \/ Ins \/ Wp \/ Ocr
    PROVE  [Disk!Next]_Disk!vars
<1>1. UNCHANGED <<card, fn, res>> /\ sub = "none" /\ pc # "idle" /\ pc' # "idle"
  BY DEF InitPort, Ins, Wp, Ocr, At, Goes, socket
<1>2. (Here' <=> Here) /\ (IsReady' <=> IsReady) /\ (Good' <=> Good) /\ Op' = Op /\ Op # "none"
  BY <1>1 DEF Here, IsReady, Good, Op
<1>3. CASE InitPort
  BY <1>1, <1>3, GoesOn DEF InitPort, At, Goes, Saw, Unusable, statics
<1>4. CASE Ins
  <2>1. ~Saw /\ ~Saw'
    BY <1>4 DEF Ins, At, Goes, Saw
  <2>2. Stat' = Stat \/ Unusable'
    BY <1>4 DEF Ins, Unusable
  <2>3. CASE Unusable'
    <3>1. Disk!Finds
      BY <1>2, <2>1, <2>3, FoundOut
    <3> QED BY <3>1, Zenon DEF Disk!Next
  <2> QED BY <1>1, <2>1, <2>2, <2>3, GoesOn DEF Unusable
<1>5. CASE Wp
  <2>1. ~Saw /\ ~Saw'
    BY <1>5 DEF Wp, At, Goes, SendCmd, NoCall, Saw, Zero
  <2>2. Unusable' <=> Unusable
    BY <1>5 DEF Wp, At, Unusable, DiskNow, StatInv
  <2> QED BY <1>1, <2>1, <2>2, GoesOn
<1>6. CASE Ocr
  <2>1. /\ pc = "ocr" /\ pc' = "known" /\ Stat' = s' /\ s' = s \cup NotInitialized
        /\ "NOINIT" \notin s /\ ~Unusable
    BY <1>6 DEF Ocr, At, Goes, DiskNow, StatInv, Unusable
  <2>2. CASE d = 0
    <3>1. ~Unusable' /\ "NOINIT" \notin s'
      BY <2>1, <2>2 DEF NotInitialized, Unusable
    <3>2. Saw' <=> Saw
      BY <1>1, <1>2, <2>1, <2>2, <3>1 DEF Saw, Zero
    <3> QED BY <1>1, <2>1, <3>1, <3>2, GoesOn
  <2>3. CASE d # 0
    <3>1. Unusable' /\ "NOINIT" \in s'
      BY <2>1, <2>3 DEF NotInitialized, Unusable
    <3>2. Saw' <=> Saw
      BY <1>1, <1>2, <2>1, <2>3, <3>1 DEF Saw, Zero
    <3>3. Disk!Finds
      BY <1>2, <3>1, <3>2, FoundOut
    <3> QED BY <3>3, Zenon DEF Disk!Next
  <2> QED BY <2>2, <2>3
<1> QED BY <1>3, <1>4, <1>5, <1>6

\* The end of a call other than an initialisation.
LEMMA ReturnEnds ==
    ASSUME UNCHANGED <<card, fn, Stat>>, pc # "idle", pc' = "idle",
           Op = "initialize" => Unusable, Op = "ask" => Saw \/ Unusable,
           res' = "OK" => Op # "initialize" /\ Saw /\ ~Unusable
    PROVE  Disk!Ends
<1>1. Op # "none" /\ Op' = "none"
  BY DEF Op
<1>2. ~Saw'
  BY <1>1 DEF Saw
<1>3. /\ Here' <=> Here
      /\ IsReady' <=> IsReady
      /\ Unusable' <=> Unusable
      /\ Good' <=> res' = "OK"
  BY DEF Here, IsReady, Unusable, Good
<1> QED BY <1>1, <1>2, <1>3, CallReturns

LEMMA FinishEnds ==
    ASSUME UNCHANGED <<card, fn>>, pc # "idle", Op = "initialize", NEW t, Finish(t), t = {} \/ Saw
    PROVE  Disk!Ends
<1>1. Op' = "none" /\ res' = "none" /\ pc' = "idle"
  BY DEF Finish, Return, Op
<1>2. ~Saw'
  BY <1>1 DEF Saw
<1>3. Saw \/ Unusable'
  BY DEF Finish, Unusable
<1>4. /\ Here' <=> Here
      /\ IsReady' <=> IsReady
      /\ ~Good'
  BY <1>1 DEF Here, IsReady, Good
<1> QED BY <1>1, <1>2, <1>3, <1>4, CallReturns

LEMMA StatusReturns ==
    ASSUME DiskNow, StatusEnds \/ Refused
    PROVE  Disk!Ends
<1>1. /\ pc = "known" /\ s = Stat /\ UNCHANGED <<card, fn, Stat>> /\ pc' = "idle" /\ res' # "OK"
      /\ "NODISK" \in s => "NOINIT" \in s
  BY DEF StatusEnds, Refused, At, Return, socket, statics, DiskNow, StatInv, AskedInv
<1>2. Op = "ask" => Saw \/ Unusable
  BY <1>1 DEF Saw, Unusable
<1>3. Op = "initialize" => Unusable
  <2>1. fn.op = "initialize" => "NODISK" \in s
    BY DEF StatusEnds, Refused, Transfer
  <2> QED BY <1>1, <2>1 DEF Op, Unusable
<1> QED BY <1>1, <1>2, <1>3, ReturnEnds

LEMMA InitializeSteps ==
    ASSUME DiskNow, Idle \/ Cmd0 \/ Cmd8 \/ Hcs \/ Ccs \/ Probe \/ OpCondSent \/ Cmd16
    PROVE  [Disk!Next]_Disk!vars
<1>1. /\ pc \in Initing \cup {"known"} /\ fn.op = "initialize" /\ sub = "none"
      /\ UNCHANGED <<card, fn>>
  BY DEF Idle, Cmd0, Cmd8, Hcs, Ccs, Probe, OpCondSent, Cmd16, At, Initing, DiskNow, CourseInv, OpInv,
         socket
<1>2. pc # "idle" /\ Op = "initialize"
  BY <1>1 DEF Initing, Op
<1>3. \/ \E t : Finish(t) /\ (t = {} \/ (pc \in {"ccs", "cmd16"} /\ d = 0))
      \/ /\ pc \notin {"ccs", "cmd16"} /\ pc' \in Initing /\ sub' = "select"
         /\ UNCHANGED <<Stat, res>>
  <2>1. CASE Idle \/ Cmd0 \/ Cmd8 \/ Hcs \/ Probe \/ OpCondSent
    BY <2>1 DEF Idle, Cmd0, Cmd8, Hcs, Probe, OpCondSent, OpConds, SendCmd, At, Goes, Calls, statics, Initing
  <2>2. CASE Ccs \/ Cmd16
    BY <2>2 DEF Ccs, Cmd16, At
  <2> QED BY <2>1, <2>2
<1>4. CASE \E t : Finish(t) /\ (t = {} \/ (pc \in {"ccs", "cmd16"} /\ d = 0))
  <2>1. PICK t : Finish(t) /\ (t = {} \/ (pc \in {"ccs", "cmd16"} /\ d = 0))
    BY <1>4
  <2>2. t = {} \/ Saw
    BY <1>1, <1>2, <2>1 DEF Saw, Zero
  <2>3. Disk!Ends
    BY <1>1, <1>2, <2>1, <2>2, FinishEnds
  <2> QED BY <2>3, Zenon DEF Disk!Next
<1>5. CASE /\ pc \notin {"ccs", "cmd16"} /\ pc' \in Initing /\ sub' = "select"
           /\ UNCHANGED <<Stat, res>>
  <2>1. Op' = "initialize" /\ pc' # "idle"
    BY <1>1, <1>5 DEF Op, Initing
  <2>2. ~Saw /\ ~Saw'
    BY <1>2, <1>5, <2>1 DEF Saw, Zero
  <2>3. Unusable' <=> Unusable
    BY <1>5 DEF Unusable
  <2> QED BY <1>1, <1>2, <1>5, <2>1, <2>2, <2>3, GoesOn
<1> QED BY <1>3, <1>4, <1>5

LEMMA TransferSteps ==
    ASSUME DiskNow,
           Start \/ BlockSize \/ Acmd23 \/ Accepted \/ OneDone \/ More \/ Stopped \/ Blocks \/ StopTran
    PROVE  [Disk!Next]_Disk!vars
<1>1. /\ UNCHANGED <<card, fn, Stat>> /\ sub = "none" /\ pc \in Moving \cup {"known"}
      /\ pc = "known" => s = Stat
      /\ pc \in Moving => "NOINIT" \notin Stat
  BY DEF Start, BlockSize, Acmd23, Accepted, OneDone, More, Stopped, Blocks, StopTran, End, Calls, At,
         Moving, socket, statics, DiskNow, StatInv
<1>2. /\ pc # "idle"
      /\ Unusable' <=> Unusable
      /\ pc \in Moving => ~Unusable
      /\ pc \in Moving \ {"one"} => Op = "move"
      /\ pc = "one" => Op \in {"ask", "move"}
  BY <1>1 DEF Moving, Op, Unusable, DiskNow, CourseInv, SubInv, OpInv
<1>3. CASE BlockSize
  <2>1. /\ pc = "known" /\ "NOINIT" \notin s /\ fn.op = "size" /\ pc' = "idle"
    BY <1>3 DEF BlockSize, At, End, Return
  <2>2. Op = "ask" /\ Saw /\ ~Unusable
    BY <1>1, <2>1 DEF Op, Saw, Unusable
  <2>3. Disk!Ends
    BY <1>1, <2>1, <2>2, ReturnEnds
  <2> QED BY <2>3, Zenon DEF Disk!Next
<1>4. CASE OneDone \/ Stopped \/ StopTran
  <2>1. pc \in {"one", "stop", "stoptran"} /\ pc' = "idle"
    BY <1>4 DEF OneDone, Stopped, StopTran, At, End, Return
  <2>2. Saw /\ ~Unusable /\ Op # "initialize"
    BY <1>2, <2>1 DEF Saw, Moving
  <2>3. Disk!Ends
    BY <1>1, <2>1, <2>2, ReturnEnds
  <2> QED BY <2>3, Zenon DEF Disk!Next
<1>5. CASE Accepted /\ d # 0
  <2>1. /\ pc \in {"recv", "send"} /\ pc' = "idle" /\ res' = IF left = 0 THEN "OK" ELSE "ERROR"
    BY <1>5 DEF Accepted, At, End, Return
  <2>2. left > 0
    BY <2>1 DEF DiskNow, AskedInv
  <2>3. res' # "OK" /\ Op = "move"
    BY <1>2, <2>1, <2>2 DEF Moving
  <2>4. Disk!Ends
    BY <1>1, <2>1, <2>3, ReturnEnds
  <2> QED BY <2>4, Zenon DEF Disk!Next
<1>6. CASE Start \/ Acmd23
  <2>1. /\ \/ pc = "known" /\ "NOINIT" \notin s /\ fn.op = "sync" /\ pc' = "one"
           \/ pc = "known" /\ fn.op \in {"count", "read", "write"} /\ pc' \in {"recv", "send", "acmd23"}
              /\ sub' = "select"
           \/ pc = "acmd23" /\ pc' = "send" /\ sub' = "select"
        /\ res' = res
    BY <1>6 DEF Start, Acmd23, At, Goes, SendCmd
  <2>2. Saw' <=> Saw
    BY <1>1, <2>1 DEF Saw, Op, Zero
  <2> QED BY <1>1, <1>2, <2>1, <2>2, GoesOn
<1>7. CASE (Accepted /\ d = 0) \/ More \/ Blocks
  <2>1. /\ \/ pc \in {"recv", "send"} /\ d = 0
           \/ pc \in {"more", "blocks"}
        /\ pc' \in {"one", "more", "stop", "blocks", "stoptran"}
        /\ res' = res
    BY <1>7 DEF Accepted, More, Blocks, At, Goes
  <2>2. Op = "move" /\ Op' = "move"
    BY <1>1, <1>2, <2>1 DEF Moving, Op
  <2>3. Saw /\ Saw'
    BY <1>1, <2>1, <2>2 DEF Saw, Zero
  <2> QED BY <1>1, <1>2, <2>1, <2>3, GoesOn
<1> QED BY <1>3, <1>4, <1>5, <1>6, <1>7

\* STA_NOINIT is cleared by an initialisation only, and a call that finds the disk usable,
\* or returns RES_OK, has found a ready card in the course of it: the disk functions
\* implement CardDisk (mmcbb.c:372-607).
THEOREM UsableWasReadyCorrect == Spec => UsableWasReady
<1>1. Init => Disk!Init
  <2> SUFFICES ASSUME Init PROVE Disk!Init
    OBVIOUS
  <2>1. card # None => card.phase = "power"
    BY DEF Init, Fresh
  <2>2. ~IsReady /\ Unusable /\ Op = "none" /\ ~Good
    BY <2>1 DEF Init, IsReady, Unusable, Op, Good
  <2>3. ~Saw
    BY <2>2 DEF Saw
  <2>4. Here \in BOOLEAN /\ IsReady = FALSE /\ Unusable = TRUE /\ Saw = FALSE /\ Good = FALSE
    BY <2>2, <2>3, Truths, Zenon
  <2> QED BY <2>2, <2>4, Zenon DEF Disk!Init, Here, IsReady, Unusable, Good
<1>2. DiskNow /\ [Next]_vars => [Disk!Next]_Disk!vars
  <2> SUFFICES ASSUME DiskNow, [Next]_vars PROVE [Disk!Next]_Disk!vars
    OBVIOUS
  <2>1. CASE UNCHANGED vars
    <3>1. UNCHANGED <<card, fn, res, pc, s, Stat, sub, answer, d>>
      BY <2>1 DEF vars, socket, statics, locals
    <3>2. Saw' <=> Saw
      BY <3>1, SawFrom DEF Zero
    <3>3. /\ Here' <=> Here
          /\ IsReady' <=> IsReady
          /\ Unusable' <=> Unusable
          /\ Good' <=> Good
          /\ Op' = Op
      BY <3>1 DEF Here, IsReady, Unusable, Good, Op
    <3> QED BY <3>2, <3>3, SameDisk
  <2>2. CASE CardOut \/ CardIn
    <3>1. Disk!Hand
      BY <2>2, HandIsHand DEF DiskNow, DiskInv
    <3> QED BY <3>1, Zenon DEF Disk!Next
  <2>3. CASE Begin
    <3>1. Disk!Begin
      BY <2>3, BeginBegins
    <3> QED BY <3>1, Zenon DEF Disk!Next
  <2>4. CASE StatusEnds \/ Refused
    <3>1. Disk!Ends
      BY <2>4, StatusReturns
    <3> QED BY <3>1, Zenon DEF Disk!Next
  <2>5. CASE Select \/ WaitReady \/ (Xmit /\ cmd = Sync) \/ Resp \/ Token \/ RecvData \/ SendData
    BY <2>5, RoutineStutters
  <2>6. CASE Xmit /\ cmd # Sync
    BY <2>6, XmitSteps
  <2> QED BY <2>1, <2>2, <2>3, <2>4, <2>5, <2>6, StatusSteps, InitializeSteps, TransferSteps
          DEF Next, Driver
<1> QED BY <1>1, <1>2, DiskInvHolds, CourseInvHolds, PhaseInvHolds, StatInvHolds, AskedInvHolds, PTL
        DEF Spec, UsableWasReady, Disk!Spec, DiskNow
=============================================================================
