--------------------------- MODULE VgaDma_proofs ---------------------------
(***************************************************************************)
(* Theorems about VgaDma, for every geometry of the display and every Z80  *)
(* whose longest instruction leaves time for a row's bytes within a line.  *)
(***************************************************************************)
EXTENDS VgaDma, TLAPS, SequenceTheorems

\* Clocks since the displayed part of a line last ended.
Since == IF hcnt >= HDISP THEN hcnt - HDISP ELSE hcnt + HMAX - HDISP

Idle == r_dma_state = 0 /\ ~O_BUSREQ /\ ~busack /\ ~r_busack

\* The row has begun: the request goes out, the Z80 ends its instruction, its
\* acknowledge reaches the display.
Asking ==
    /\ r_dma_state = 1 /\ ~r_busack /\ r_dma_trans_count = 0
    /\ \/ ~O_BUSREQ /\ ~busack /\ waited = 0 /\ Since = 0
       \/ O_BUSREQ /\ ~busack /\ Since = waited + 1
       \/ O_BUSREQ /\ busack /\ Since <= Latency + 1

\* A byte in each clock.
Copying ==
    /\ r_dma_state = 1 /\ O_BUSREQ /\ busack /\ r_busack
    /\ Since <= Latency + 2 + r_dma_trans_count

\* All bytes counted: the request, the acknowledge and its copy go, one after the other.
Leaving ==
    /\ r_dma_state = 0 /\ r_busack
    /\ \/ O_BUSREQ /\ busack /\ Since <= Latency + Bytes + 2
       \/ ~O_BUSREQ /\ busack /\ Since <= Latency + Bytes + 3
       \/ ~O_BUSREQ /\ ~busack /\ Since <= Latency + Bytes + 4

CountsOK ==
    /\ hcnt \in 0 .. HMAX - 1 /\ waited \in 0 .. Latency - 1
    /\ r_dma_trans_count \in 0 .. Bytes - 1
    /\ r_dma_state = 0 => r_dma_trans_count = 0
    /\ waited # 0 => O_BUSREQ /\ ~busack
    /\ O_BUSREQ \in BOOLEAN /\ busack \in BOOLEAN /\ r_busack \in BOOLEAN

TurnInv == CountsOK /\ (Idle \/ Asking \/ Copying \/ Leaving)

LEMMA Sizes ==
    /\ HMAX \in Nat /\ HDISP \in Nat /\ HDISP < HMAX /\ HDISP > 0
    /\ Bytes \in Nat /\ Bytes > 1 /\ Latency \in Nat /\ Latency >= 1
    /\ Latency + Bytes + 5 < HMAX
  BY LineAssumption, RowAssumption, BusAssumption, TimeAssumption DEF Bytes

LEMMA TurnInit == Init => TurnInv
  <1> SUFFICES ASSUME Init PROVE TurnInv
    OBVIOUS
  <1>1. hcnt = 0 /\ waited = 0 /\ r_dma_trans_count = 0 /\ r_dma_state = 0
    BY DEF Init
  <1>2. ~O_BUSREQ /\ ~busack /\ ~r_busack
    BY Zenon DEF Init
  <1>3. O_BUSREQ \in BOOLEAN /\ busack \in BOOLEAN /\ r_busack \in BOOLEAN
    BY Zenon DEF Init
  <1> QED BY <1>1, <1>2, <1>3, Sizes DEF TurnInv, CountsOK, Idle

\* A clock more, or the end of the displayed part.
LEMMA SinceStep ==
    ASSUME CountsOK, Beam
    PROVE  /\ Since \in 0 .. HMAX - 1 /\ hcnt' \in 0 .. HMAX - 1
           /\ LineEnd <=> Since = HMAX - 1
           /\ Since' = IF LineEnd THEN 0 ELSE Since + 1
  <1>1. hcnt' = IF hcnt = HMAX - 1 THEN 0 ELSE hcnt + 1
    BY Sizes DEF CountsOK, Beam
  <1> QED BY <1>1, Sizes DEF CountsOK, Since, LineEnd

\* The Z80's acknowledge and its copy, a clock later.
LEMMA BusStep ==
    ASSUME CountsOK, Bus
    PROVE  /\ O_BUSREQ' <=> r_dma_state # 0
           /\ r_busack' <=> busack
           /\ O_BUSREQ' \in BOOLEAN /\ busack' \in BOOLEAN /\ r_busack' \in BOOLEAN
           /\ \/ waited' = 0 /\ (busack' <=> O_BUSREQ)
              \/ /\ O_BUSREQ /\ ~busack /\ waited + 1 < Latency
                 /\ ~busack' /\ waited' = waited + 1
           /\ waited' \in 0 .. Latency - 1
  <1>1. O_BUSREQ' = Requested /\ r_busack' = busack /\ Acknowledge
    BY DEF Bus
  <1>2. /\ O_BUSREQ' <=> r_dma_state # 0
        /\ r_busack' <=> busack
    BY <1>1, Zenon DEF Requested
  <1>3. O_BUSREQ' \in BOOLEAN /\ r_busack' \in BOOLEAN
    BY <1>1, Zenon DEF Requested, CountsOK
  <1>4. \/ waited' = 0 /\ busack' = O_BUSREQ
        \/ /\ O_BUSREQ /\ ~busack /\ waited + 1 < Latency
           /\ busack' = FALSE /\ waited' = waited + 1
    BY <1>1, Zenon DEF Acknowledge
  <1>5. busack' \in BOOLEAN
    BY <1>4, Zenon DEF CountsOK
  <1>6. \/ waited' = 0 /\ (busack' <=> O_BUSREQ)
        \/ /\ O_BUSREQ /\ ~busack /\ waited + 1 < Latency
           /\ ~busack' /\ waited' = waited + 1
    BY <1>4, Zenon
  <1>7. waited' \in 0 .. Latency - 1
    BY <1>6, Sizes DEF CountsOK
  <1> QED BY <1>2, <1>3, <1>5, <1>6, <1>7

LEMMA DmaStep ==
    ASSUME Dma, r_dma_state \in {0, 1}
    PROVE  /\ r_dma_state = 0 => /\ r_dma_state' = IF RowStarts THEN 1 ELSE 0
                                /\ r_dma_trans_count' = r_dma_trans_count
           /\ r_dma_state = 1 /\ ~r_busack => /\ r_dma_state' = 1
                                             /\ r_dma_trans_count' = r_dma_trans_count
           /\ r_dma_state = 1 /\ r_busack =>
                 IF r_dma_trans_count = Bytes - 1
                 THEN r_dma_trans_count' = 0 /\ r_dma_state' = 0
                 ELSE r_dma_trans_count' = r_dma_trans_count + 1 /\ r_dma_state' = 1
  BY DEF Dma, BeginRow, Transfer, NoTransfer, Transferring, w_dma_trans_count_end, dma

LEMMA TurnStep == TurnInv /\ [Next]_vars => TurnInv'
  <1> SUFFICES ASSUME TurnInv, [Next]_vars PROVE TurnInv'
    OBVIOUS
  <1>1. CASE UNCHANGED vars
    BY <1>1, Zenon DEF TurnInv, CountsOK, Idle, Asking, Copying, Leaving, Since, vars, beam, dma, bus
  <1>2. CASE Next
    <2>1. CountsOK /\ Beam /\ Bus /\ Dma
      BY <1>2 DEF TurnInv, Next
    <2>2. /\ Since \in 0 .. HMAX - 1 /\ hcnt' \in 0 .. HMAX - 1
          /\ LineEnd <=> Since = HMAX - 1
          /\ Since' = IF LineEnd THEN 0 ELSE Since + 1
      BY <2>1, SinceStep
    <2>3. RowStarts => LineEnd
      BY DEF RowStarts
    <2>4. /\ O_BUSREQ' <=> r_dma_state # 0
          /\ r_busack' <=> busack
          /\ O_BUSREQ' \in BOOLEAN /\ busack' \in BOOLEAN /\ r_busack' \in BOOLEAN
          /\ \/ waited' = 0 /\ (busack' <=> O_BUSREQ)
             \/ /\ O_BUSREQ /\ ~busack /\ waited + 1 < Latency
                /\ ~busack' /\ waited' = waited + 1
          /\ waited' \in 0 .. Latency - 1
      BY <2>1, BusStep
    <2>5. CASE Idle
      <3>1. /\ r_dma_state' = IF RowStarts THEN 1 ELSE 0
            /\ r_dma_trans_count = 0 /\ r_dma_trans_count' = 0
            /\ waited' = 0 /\ ~O_BUSREQ' /\ ~busack' /\ ~r_busack'
        BY <2>1, <2>4, <2>5, DmaStep DEF Idle, CountsOK
      <3> QED BY <2>2, <2>3, <2>4, <3>1, Sizes DEF TurnInv, CountsOK, Idle, Asking
    <2>6. CASE Asking
      <3>1. r_dma_state' = 1 /\ r_dma_trans_count' = 0 /\ O_BUSREQ'
        BY <2>1, <2>4, <2>6, DmaStep DEF Asking
      <3>2. Since' = Since + 1
        BY <2>1, <2>2, <2>6, Sizes DEF Asking, CountsOK
      <3>3. CASE ~busack
        <4>1. ~r_busack' /\ (busack' => Since' <= Latency + 1)
                        /\ (~busack' => Since' = waited' + 1)
          BY <2>1, <2>4, <2>6, <3>2, <3>3, Sizes DEF Asking, CountsOK
        <4>2. Asking'
          BY <3>1, <4>1 DEF Asking
        <4>3. waited' # 0 => O_BUSREQ' /\ ~busack'
          BY <2>4, <3>1
        <4>4. CountsOK'
          BY <2>2, <2>4, <3>1, <4>3, Sizes DEF CountsOK
        <4> QED BY <4>2, <4>4 DEF TurnInv
      <3>4. CASE busack
        <4>1. O_BUSREQ /\ Since <= Latency + 1
          BY <2>6, <3>4 DEF Asking
        <4>2. r_busack' /\ busack' /\ waited' = 0 /\ Since' <= Latency + 2
          BY <2>4, <3>2, <3>4, <4>1, <2>2, Sizes
        <4> QED BY <2>2, <2>4, <3>1, <4>2, Sizes DEF TurnInv, CountsOK, Copying
      <3> QED BY <3>3, <3>4
    <2>7. CASE Copying
      <3>1. /\ O_BUSREQ' /\ busack' /\ r_busack' /\ waited' = 0
            /\ IF r_dma_trans_count = Bytes - 1
               THEN r_dma_trans_count' = 0 /\ r_dma_state' = 0
               ELSE r_dma_trans_count' = r_dma_trans_count + 1 /\ r_dma_state' = 1
        BY <2>1, <2>4, <2>7, DmaStep DEF Copying
      <3>2. Since' = Since + 1
        BY <2>1, <2>2, <2>7, Sizes DEF Copying, CountsOK
      <3>3. CASE r_dma_trans_count = Bytes - 1
        <4>1. Leaving'
          BY <2>2, <2>7, <3>1, <3>2, <3>3, Sizes DEF Copying, Leaving
        <4> QED BY <2>2, <2>4, <3>1, <3>3, <4>1, Sizes DEF TurnInv, CountsOK
      <3>4. CASE r_dma_trans_count # Bytes - 1
        <4>1. Copying' /\ r_dma_trans_count' \in 0 .. Bytes - 1
          BY <2>1, <2>2, <2>7, <3>1, <3>2, <3>4, Sizes DEF Copying, CountsOK
        <4> QED BY <2>2, <2>4, <3>1, <3>4, <4>1, Sizes DEF TurnInv, CountsOK
      <3> QED BY <3>3, <3>4
    <2>8. CASE Leaving
      <3>1. Since' = Since + 1 /\ ~RowStarts
        BY <2>2, <2>3, <2>8, Sizes DEF Leaving
      <3>2. /\ r_dma_state' = 0 /\ r_dma_trans_count = 0 /\ r_dma_trans_count' = 0
            /\ ~O_BUSREQ' /\ waited' = 0 /\ (busack' <=> O_BUSREQ)
        BY <2>1, <2>4, <2>8, <3>1, DmaStep DEF Leaving, CountsOK
      <3>3. Idle' \/ Leaving'
        BY <2>2, <2>4, <2>8, <3>1, <3>2, Sizes DEF Leaving, Idle
      <3> QED BY <2>2, <2>4, <3>2, <3>3, Sizes DEF TurnInv, CountsOK
    <2> QED BY <2>1, <2>5, <2>6, <2>7, <2>8, <1>2 DEF TurnInv
  <1> QED BY <1>1, <1>2

\* For every geometry and every Z80: when a row asks for the bus, the transfer of the row
\* before is over and the Z80 has its bus back, also where a frame ends amid a row, a
\* line after the row began (vga.v:217, 228-233).
THEOREM RowsInTurnCorrect == Spec => []RowsInTurn
  <1>1. TurnInv => RowsInTurn
    <2> SUFFICES ASSUME TurnInv, RowStarts PROVE Idle
      BY Zenon DEF RowsInTurn, Idle
    <2>1. Since = HMAX - 1 /\ r_dma_trans_count <= Bytes - 1 /\ waited <= Latency - 1
      BY Sizes DEF RowStarts, LineEnd, Since, TurnInv, CountsOK
    <2> QED BY <2>1, Sizes DEF TurnInv, CountsOK, Asking, Copying, Leaving
  <1> QED BY <1>1, TurnInit, TurnStep, PTL DEF Spec

-----------------------------------------------------------------------------
(* The phases of a transfer, and its count. *)

\* The clocks since the first byte was counted, the last ones after all were.
Copied == IF r_dma_state = 1 THEN r_dma_trans_count
          ELSE IF O_BUSREQ THEN Bytes ELSE IF busack THEN Bytes + 1
          ELSE IF r_busack THEN Bytes + 2 ELSE Bytes + 3

LEMMA CopiedRange ==
    ASSUME CountsOK
    PROVE  /\ Copying => Copied = r_dma_trans_count /\ Copied \in 0 .. Bytes - 1
           /\ Leaving => Copied \in Bytes .. Bytes + 2
           /\ Idle => Copied = Bytes + 3
           /\ Copied \in Nat
BY Sizes DEF CountsOK, Copying, Leaving, Idle, Copied

LEMMA PhasesApart ==
    /\ Idle => ~Asking /\ ~Copying /\ ~Leaving
    /\ Asking => ~Copying /\ ~Leaving
    /\ Copying => ~Leaving
BY DEF Idle, Asking, Copying, Leaving

\* The transfer goes on in its phase or to the next; only between transfers does a line end.
LEMMA PhaseStep ==
    ASSUME TurnInv, Next
    PROVE  \/ Idle /\ Idle' /\ ~RowStarts
           \/ Idle /\ Asking' /\ RowStarts
           \/ Asking /\ Asking' /\ ~LineEnd /\ ~busack
           \/ Asking /\ Copying' /\ r_dma_trans_count' = 0 /\ ~LineEnd /\ busack
           \/ Copying /\ (Copying' \/ Leaving') /\ Copied' = Copied + 1 /\ ~LineEnd
           \/ Leaving /\ (Leaving' \/ Idle') /\ Copied' = Copied + 1 /\ ~LineEnd
<1>1. CountsOK /\ Beam /\ Bus /\ Dma
  BY DEF TurnInv, Next
<1>2. /\ Since \in 0 .. HMAX - 1
      /\ LineEnd <=> Since = HMAX - 1
  BY <1>1, SinceStep
<1>3. TurnInv' /\ (RowStarts => LineEnd)
  BY TurnStep DEF RowStarts
<1>4. /\ O_BUSREQ' <=> r_dma_state # 0
      /\ r_busack' <=> busack
      /\ (busack' <=> O_BUSREQ) \/ (O_BUSREQ /\ ~busack /\ ~busack')
  BY <1>1, BusStep
<1>5. CASE Idle
  <2>1. r_dma_state' = (IF RowStarts THEN 1 ELSE 0) /\ ~O_BUSREQ' /\ ~busack' /\ ~r_busack'
    BY <1>1, <1>4, <1>5, DmaStep DEF Idle
  <2> QED BY <1>3, <1>5, <2>1 DEF TurnInv, Idle, Asking, Copying, Leaving
<1>6. CASE Asking
  <2>1. r_dma_state' = 1 /\ r_dma_trans_count' = 0 /\ (r_busack' <=> busack)
    BY <1>1, <1>4, <1>6, DmaStep DEF Asking
  <2>2. ~LineEnd
    BY <1>1, <1>2, <1>6, Sizes DEF Asking, CountsOK
  <2> QED BY <1>3, <1>6, <2>1, <2>2 DEF TurnInv, Idle, Asking, Copying, Leaving
<1>7. CASE Copying
  <2>1. /\ O_BUSREQ' /\ busack' /\ r_busack'
        /\ IF r_dma_trans_count = Bytes - 1
           THEN r_dma_state' = 0
           ELSE r_dma_trans_count' = r_dma_trans_count + 1 /\ r_dma_state' = 1
    BY <1>1, <1>4, <1>7, DmaStep DEF Copying
  <2>2. ~LineEnd
    BY <1>1, <1>2, <1>7, Sizes DEF Copying, CountsOK
  <2>3. Copied' = Copied + 1
    BY <1>1, <1>7, <2>1, Sizes DEF Copied, Copying, CountsOK
  <2>4. Copying' \/ Leaving'
    BY <1>3, <2>1 DEF TurnInv, Idle, Asking, Copying, Leaving
  <2> QED BY <1>7, <2>2, <2>3, <2>4
<1>8. CASE Leaving
  <2>1. ~LineEnd
    BY <1>2, <1>8, Sizes DEF Leaving
  <2>2. r_dma_state' = 0 /\ ~O_BUSREQ' /\ (busack' <=> O_BUSREQ) /\ (r_busack' <=> busack)
    BY <1>1, <1>3, <1>4, <1>8, <2>1, DmaStep DEF Leaving
  <2>3. Copied' = Copied + 1
    BY <1>8, <2>2, Sizes DEF Copied, Leaving
  <2>4. Leaving' \/ Idle'
    BY <1>3, <2>2 DEF TurnInv, Idle, Asking, Copying, Leaving
  <2> QED BY <1>8, <2>1, <2>3, <2>4
<1> QED BY <1>5, <1>6, <1>7, <1>8 DEF TurnInv

-----------------------------------------------------------------------------
(* The line on display, or the next one once its predecessor has been shown, and the   *)
(* row that it belongs to.                                                             *)

Line  == IF hcnt < HDISP THEN vcnt ELSE IF LastLine THEN 0 ELSE vcnt + 1
Shown == frame /\ Line < VDISP * (1 + r_charactor_size)
Base  == (Line \div Lines) * Bytes

\* The character's line of a line of its row.
Dots(q) == IF r_charactor_size = 0 THEN q
           ELSE 2 * (q \div 4) + (IF q % 4 = 3 THEN 1 ELSE 0)

BeamInv ==
    /\ vcnt \in 0 .. VMAX - 1 /\ r_charactor_size \in {0, 1} /\ frame \in BOOLEAN
    /\ Shown => r_charactor_vcnt = Dots(Line % Lines)
    /\ r_text_adr = IF hcnt < HDISP THEN hcnt \div 8 ELSE 0
    /\ r_attbuf_adr \in 0 .. (IF hcnt < HDISP THEN (hcnt + 1) \div 8 ELSE 0)

LEMMA LineCounts ==
    ASSUME BeamInv
    PROVE  /\ Lines \in {2, 4, 6, 8, 10, 12, 16, 20}
           /\ r_charactor_size = 1 => Lines \in {4, 8, 12, 16, 20}
           /\ Lines = (LPC + 1) * (1 + r_charactor_size) /\ LPC \in {1, 3, 5, 7, 9}
           /\ VMAX \in Nat /\ VDISP \in Nat /\ VDISP * (1 + r_charactor_size) < VMAX
           /\ Rows \in Nat /\ VDISP * (1 + r_charactor_size) <= Rows * Lines
  <1>1. VMAX \in Nat /\ VDISP \in Nat /\ Rows \in Nat /\ LPC \in {1, 3, 5, 7, 9}
        /\ VDISP <= Rows * (LPC + 1) /\ 2 * VDISP < VMAX
    BY LineAssumption, RowAssumption, FrameAssumption
  <1>2. CASE r_charactor_size = 0
    BY <1>1, <1>2 DEF Lines
  <1>3. CASE r_charactor_size = 1
    BY <1>1, <1>3 DEF Lines
  <1> QED BY <1>2, <1>3 DEF BeamInv

LEMMA LineStep ==
    ASSUME CountsOK, BeamInv, Beam
    PROVE  /\ Line \in 0 .. VMAX - 1 /\ vcnt' \in 0 .. VMAX - 1
           /\ LineEnd => Line = vcnt
           /\ Line' = IF LineEnd THEN (IF LastLine THEN 0 ELSE Line + 1) ELSE Line
           /\ hcnt' = IF hcnt = HMAX - 1 THEN 0 ELSE hcnt + 1
           /\ r_charactor_size' = r_charactor_size
  <1>1. /\ hcnt' = (hcnt + 1) % HMAX
        /\ vcnt' = IF hcnt = HMAX - 1 THEN (vcnt + 1) % VMAX ELSE vcnt
        /\ r_charactor_size' = r_charactor_size
    BY DEF Beam
  <1>2. VMAX \in Nat /\ vcnt \in 0 .. VMAX - 1 /\ hcnt \in 0 .. HMAX - 1
    BY LineAssumption DEF BeamInv, CountsOK
  <1>3. hcnt' = IF hcnt = HMAX - 1 THEN 0 ELSE hcnt + 1
    BY <1>1, <1>2, Sizes
  <1>4. vcnt' = IF hcnt = HMAX - 1 THEN (IF vcnt = VMAX - 1 THEN 0 ELSE vcnt + 1) ELSE vcnt
    BY <1>1, <1>2
  <1> QED BY <1>1, <1>2, <1>3, <1>4, Sizes DEF Line, LineEnd, LastLine

\* Division by the lines of a row.
LEMMA NextLine ==
    ASSUME NEW l \in Nat, NEW n \in {2, 4, 6, 8, 10, 12, 16, 20}
    PROVE  /\ l \div n \in Nat /\ l % n \in 0 .. n - 1
           /\ (l + 1) % n = IF l % n = n - 1 THEN 0 ELSE (l % n) + 1
           /\ (l + 1) \div n = IF l % n = n - 1 THEN l \div n + 1 ELSE l \div n
  <1>1. CASE n = 2
    BY <1>1
  <1>2. CASE n = 4
    BY <1>2
  <1>3. CASE n = 6
    BY <1>3
  <1>4. CASE n = 8
    BY <1>4
  <1>5. CASE n = 10
    BY <1>5
  <1>6. CASE n = 12
    BY <1>6
  <1>7. CASE n = 16
    BY <1>7
  <1>8. CASE n = 20
    BY <1>8
  <1> QED BY <1>1, <1>2, <1>3, <1>4, <1>5, <1>6, <1>7, <1>8

LEMMA NextDots ==
    ASSUME NEW l \in Nat, NEW m \in {1, 3, 5, 7, 9}
    PROVE  LET q == l % (2 * (m + 1))
               f(x) == 2 * (x \div 4) + (IF x % 4 = 3 THEN 1 ELSE 0)
           IN  /\ f(q) = m <=> q = 2 * (m + 1) - 1
               /\ q # 2 * (m + 1) - 1 => f(q + 1) = f(q) + (IF (l \div 2) % 2 = 1 THEN 1 ELSE 0)
  <1>1. CASE m = 1
    BY <1>1
  <1>2. CASE m = 3
    BY <1>2
  <1>3. CASE m = 5
    BY <1>3
  <1>4. CASE m = 7
    BY <1>4
  <1>5. CASE m = 9
    BY <1>5
  <1> QED BY <1>1, <1>2, <1>3, <1>4, <1>5

\* The rows start where they should, in both sizes of the characters.
LEMMA CharacterStep ==
    ASSUME CountsOK, BeamInv, Beam, LineEnd, Shown, ~LastLine
    PROVE  /\ Line' = Line + 1
           /\ RowStarts <=> Line % Lines = Lines - 1
           /\ r_charactor_vcnt' = Dots(Line' % Lines)
           /\ Line' % Lines = IF RowStarts THEN 0 ELSE (Line % Lines) + 1
           /\ Line' \div Lines = IF RowStarts THEN Line \div Lines + 1 ELSE Line \div Lines
  <1>1. Line \in Nat /\ Line = vcnt /\ Line' = Line + 1
    BY LineStep
  <1>2. /\ r_charactor_vcnt = Dots(Line % Lines)
        /\ r_charactor_vcnt' = IF RowStarts THEN 0
                               ELSE IF Advances THEN r_charactor_vcnt + 1 ELSE r_charactor_vcnt
        /\ RowStarts <=> r_charactor_vcnt = LPC
    BY DEF BeamInv, Beam, RowStarts, w_chlast
  <1>3. /\ Lines \in {2, 4, 6, 8, 10, 12, 16, 20}
        /\ Lines = (LPC + 1) * (1 + r_charactor_size) /\ LPC \in {1, 3, 5, 7, 9}
    BY LineCounts
  <1>4. /\ Line \div Lines \in Nat /\ Line % Lines \in 0 .. Lines - 1
        /\ (Line + 1) % Lines = IF Line % Lines = Lines - 1 THEN 0 ELSE (Line % Lines) + 1
        /\ (Line + 1) \div Lines = IF Line % Lines = Lines - 1 THEN Line \div Lines + 1 ELSE Line \div Lines
    BY <1>1, <1>3, NextLine
  <1>5. /\ Dots(Line % Lines) = LPC <=> Line % Lines = Lines - 1
        /\ Line % Lines # Lines - 1 =>
              Dots((Line % Lines) + 1) = IF Advances THEN Dots(Line % Lines) + 1 ELSE Dots(Line % Lines)
        /\ Dots(0) = 0
    <2>1. CASE r_charactor_size = 0
      <3>1. Lines = LPC + 1 /\ Advances
        BY <1>3, <2>1 DEF Advances
      <3>2. \A q : Dots(q) = q
        BY <2>1 DEF Dots
      <3> HIDE DEF Lines
      <3> QED BY <1>3, <1>4, <3>1, <3>2
    <2>2. CASE r_charactor_size = 1
      <3>1. Lines = 2 * (LPC + 1) /\ (Advances <=> (Line \div 2) % 2 = 1)
        BY <1>1, <1>3, <2>2 DEF Advances
      <3>2. \A q : Dots(q) = 2 * (q \div 4) + (IF q % 4 = 3 THEN 1 ELSE 0)
        BY <2>2 DEF Dots
      <3>3. LET q == Line % (2 * (LPC + 1))
                f(x) == 2 * (x \div 4) + (IF x % 4 = 3 THEN 1 ELSE 0)
            IN  /\ f(q) = LPC <=> q = 2 * (LPC + 1) - 1
                /\ q # 2 * (LPC + 1) - 1 => f(q + 1) = f(q) + (IF (Line \div 2) % 2 = 1 THEN 1 ELSE 0)
        BY <1>1, <1>3, NextDots
      <3>4. Line % Lines \in Nat
        BY <1>3, <1>4
      <3> QED BY <1>3, <3>1, <3>2, <3>3, <3>4
    <2> QED BY <2>1, <2>2 DEF BeamInv
  <1> QED BY <1>1, <1>2, <1>4, <1>5

LEMMA FrameStep ==
    ASSUME Dma, BeamInv
    PROVE  /\ frame' \in BOOLEAN
           /\ ~LastLine \/ ~LineEnd => (frame' <=> frame)
<1>1. \/ frame' = frame
      \/ LineEnd /\ frame' = (frame \/ LastLine)
  BY Zenon DEF Dma, BeginRow, Transfer, NoTransfer, RowStarts
<1>2. frame \in BOOLEAN
  BY DEF BeamInv
<1>3. \/ frame' <=> frame
      \/ LineEnd /\ (frame' <=> frame \/ LastLine)
  BY <1>1, Zenon DEF LastLine
<1>4. frame' \in BOOLEAN
  BY <1>1, <1>2, Zenon DEF LastLine
<1> QED BY <1>3, <1>4

\* What is shown next: the same line, another of the row, or the first one of a row.
LEMMA ShownStep ==
    ASSUME CountsOK, BeamInv, Beam, Dma, Shown'
    PROVE  /\ Lines' = Lines
           /\ \/ ~LineEnd /\ Shown /\ Line' = Line /\ Base' = Base
              \/ LineEnd /\ Shown /\ ~RowStarts /\ Line' = Line + 1 /\ Base' = Base
              \/ LineEnd /\ Shown /\ RowStarts /\ ~LastLine /\ Base' = Base + Bytes /\ Line' % Lines = 0
              \/ LineEnd /\ LastLine /\ RowStarts /\ Base' = 0 /\ Line' = 0
<1>1. /\ Line \in 0 .. VMAX - 1 /\ r_charactor_size' = r_charactor_size
      /\ LineEnd => Line = vcnt
      /\ Line' = IF LineEnd THEN (IF LastLine THEN 0 ELSE Line + 1) ELSE Line
  BY LineStep
<1>2. Lines' = Lines
  BY <1>1 DEF Lines
<1>3. /\ VMAX \in Nat /\ VDISP \in Nat /\ VDISP * (1 + r_charactor_size) < VMAX
      /\ Lines \in {2, 4, 6, 8, 10, 12, 16, 20}
  BY LineCounts
<1>4. frame' /\ Line' < VDISP * (1 + r_charactor_size) /\ Line' \in Nat
  BY <1>1, <1>3 DEF Shown
<1>5. CASE ~LineEnd
  <2>1. frame
    BY <1>4, <1>5, FrameStep
  <2> QED BY <1>1, <1>2, <1>4, <1>5, <2>1 DEF Shown, Base
<1>6. CASE LineEnd /\ LastLine
  <2>1. Line' = 0 /\ RowStarts
    BY <1>1, <1>6 DEF RowStarts
  <2>2. 0 \div Lines = 0
    BY <1>3
  <2>3. Base' = 0
    BY <1>2, <2>1, <2>2, Sizes DEF Base
  <2> QED BY <1>2, <1>6, <2>1, <2>3
<1>7. CASE LineEnd /\ ~LastLine
  <2>1. Line' = Line + 1 /\ VDISP * (1 + r_charactor_size) \in Nat
    BY <1>1, <1>3, <1>7 DEF BeamInv
  <2>2. Shown
    <3>1. Line < VDISP * (1 + r_charactor_size)
      BY <1>1, <1>4, <2>1
    <3>2. frame
      BY <1>4, <1>7, FrameStep
    <3> QED BY <3>1, <3>2 DEF Shown
  <2>3. /\ Line' % Lines = IF RowStarts THEN 0 ELSE (Line % Lines) + 1
        /\ Line' \div Lines = IF RowStarts THEN Line \div Lines + 1 ELSE Line \div Lines
    BY <1>7, <2>2, CharacterStep
  <2>4. Line \div Lines \in Nat
    BY <1>1, <1>3, NextLine
  <2>5. Base' = IF RowStarts THEN Base + Bytes ELSE Base
    <3>1. \A k \in Nat : (k + 1) * Bytes = k * Bytes + Bytes
      BY Sizes
    <3> QED BY <1>2, <2>3, <2>4, <3>1 DEF Base
  <2> QED BY <1>2, <1>7, <2>1, <2>2, <2>3, <2>5
<1> QED BY <1>5, <1>6, <1>7

LEMMA BeamHolds ==
    ASSUME CountsOK, BeamInv, Beam, Dma, Buffers
    PROVE  BeamInv'
<1>1. /\ Line \in 0 .. VMAX - 1 /\ vcnt' \in 0 .. VMAX - 1 /\ r_charactor_size' = r_charactor_size
      /\ hcnt' = IF hcnt = HMAX - 1 THEN 0 ELSE hcnt + 1
      /\ Line' = IF LineEnd THEN (IF LastLine THEN 0 ELSE Line + 1) ELSE Line
  BY LineStep
<1>2. Shown' => r_charactor_vcnt' = Dots(Line % Lines)'
  <2> SUFFICES ASSUME Shown' PROVE r_charactor_vcnt' = Dots(Line % Lines)'
    OBVIOUS
  <2>1. /\ Lines' = Lines
        /\ \/ ~LineEnd /\ Shown /\ Line' = Line
           \/ LineEnd /\ Shown /\ ~LastLine
           \/ LineEnd /\ LastLine /\ RowStarts /\ Line' = 0
    BY ShownStep, <1>1 DEF RowStarts
  <2>2. Dots(Line % Lines)' = Dots(Line' % Lines)
    BY <1>1, <2>1 DEF Dots
  <2>3. CASE ~LineEnd /\ Shown /\ Line' = Line
    <3>1. r_charactor_vcnt' = r_charactor_vcnt
      BY <2>3 DEF Beam, RowStarts
    <3> QED BY <2>2, <2>3, <3>1 DEF BeamInv
  <2>4. CASE LineEnd /\ Shown /\ ~LastLine
    BY <2>2, <2>4, CharacterStep
  <2>5. CASE LineEnd /\ LastLine /\ RowStarts /\ Line' = 0
    <3>1. r_charactor_vcnt' = 0
      BY <2>5 DEF Beam
    <3>2. Lines \in {2, 4, 6, 8, 10, 12, 16, 20}
      BY LineCounts
    <3>3. 0 % Lines = 0
      BY <3>2
    <3>4. Dots(0) = 0
      BY DEF Dots
    <3> QED BY <2>2, <2>5, <3>1, <3>3, <3>4
  <2> QED BY <2>1, <2>3, <2>4, <2>5
<1>3. /\ HDISP = 8 * Text /\ Text \in Nat /\ Text > 0 /\ hcnt \in 0 .. HMAX - 1
  BY LineAssumption, RowAssumption DEF CountsOK
<1>4. r_text_adr' = IF hcnt' < HDISP THEN hcnt' \div 8 ELSE 0
  BY <1>1, <1>3, Sizes DEF Buffers, BeamInv, LineEnd, w_hdisp_en, w_hdotcnt
<1>5. r_attbuf_adr' \in 0 .. (IF hcnt' < HDISP THEN (hcnt' + 1) \div 8 ELSE 0)
  <2>1. r_attbuf_adr \in 0 .. (IF hcnt < HDISP THEN (hcnt + 1) \div 8 ELSE 0)
    BY DEF BeamInv
  <2>2. \/ r_attbuf_adr' = IF LineEnd THEN 0 ELSE r_attbuf_adr
        \/ hcnt < HDISP /\ hcnt % 8 = 6 /\ r_attbuf_adr' = r_attbuf_adr + 1
    BY DEF Buffers, Matches, w_hdisp_en, w_hdotcnt
  <2> QED BY <1>1, <1>3, <2>1, <2>2, Sizes DEF LineEnd
<1>6. frame' \in BOOLEAN
  BY FrameStep
<1> QED BY <1>1, <1>2, <1>4, <1>5, <1>6 DEF BeamInv

-----------------------------------------------------------------------------
(* The write addresses on their way to the buffers. *)

\* The write addresses that entered at a count.
TextPlace(m) == IF 0 <= m /\ m < Text THEN m ELSE None
PairPlace(m) == IF Text <= m /\ m < Bytes THEN (m - Text) \div 2 ELSE None

MemoryOK ==
    /\ r_rowbuf \in Seq(Nat \cup {None}) /\ Len(r_rowbuf) = 2
    /\ r_attbuf \in Seq(Nat \cup {None}) /\ Len(r_attbuf) = 4
    /\ ROWBUF = [i \in 0 .. Text - 1 |-> ROWBUF[i]]
    /\ ATTRIBUTE = [i \in 0 .. Pairs - 1 |-> ATTRIBUTE[i]]

RowPipe ==
    /\ r_dma_state = 1 => r_dma_dst_adr = IF r_dma_trans_count < Text THEN r_dma_trans_count ELSE Text
    /\ \A j \in 1 .. 2 : r_rowbuf[j] = IF Copying THEN TextPlace(Copied - j) ELSE None

PairPipe ==
    /\ r_dma_state = 1 => r_dma_att_adr = IF r_dma_trans_count < Text THEN 0 ELSE (r_dma_trans_count - Text) \div 2
    /\ Asking => \A j \in 1 .. 4 : r_attbuf[j] = None
    /\ Copying \/ Leaving => \A j \in 1 .. 4 : r_attbuf[j] = PairPlace(Copied - j)
    /\ Idle => /\ \A j \in 1 .. 3 : r_attbuf[j] = None
               /\ r_attbuf[4] \in {None, Pairs - 1}

PipeInv == MemoryOK /\ RowPipe /\ PairPipe

LEMMA RowSizes ==
    /\ Text \in Nat /\ Text >= 2 /\ Text % 2 = 0 /\ Pairs \in Nat /\ Pairs >= 1
    /\ Bytes = Text + 2 * Pairs /\ None \notin Nat
    /\ HDISP = 8 * Text
BY LineAssumption, RowAssumption, PairAssumption, BusAssumption DEF Bytes

\* What a write leaves in a buffer.
LEMMA WrittenAt ==
    ASSUME NEW n \in Nat, NEW mem, mem = [i \in 0 .. n - 1 |-> mem[i]], NEW adr, NEW data
    PROVE  /\ Written(mem, adr, data) = [i \in 0 .. n - 1 |-> Written(mem, adr, data)[i]]
           /\ \A i \in 0 .. n - 1 : Written(mem, adr, data)[i] = IF i = adr THEN data ELSE mem[i]
<1>1. DOMAIN mem = 0 .. n - 1 /\ None \notin 0 .. n - 1
  BY RowSizes
<1>2. CASE adr = None
  BY <1>1, <1>2 DEF Written
<1>3. CASE adr # None
  <2>1. Written(mem, adr, data) = [i \in 0 .. n - 1 |-> IF i = adr THEN data ELSE mem[i]]
    BY <1>1, <1>3 DEF Written
  <2> QED BY <2>1
<1> QED BY <1>2, <1>3

\* What enters, by the phase of the transfer.
LEMMA PipeStep ==
    ASSUME TurnInv, PipeInv, Pipe, Buffers
    PROVE  /\ MemoryOK'
           /\ r_rowbuf'[1] = IF Copying THEN TextPlace(r_dma_trans_count) ELSE None
           /\ r_rowbuf'[2] = r_rowbuf[1]
           /\ r_attbuf'[1] = IF Copying THEN PairPlace(r_dma_trans_count) ELSE None
           /\ \A j \in 2 .. 4 : r_attbuf'[j] = r_attbuf[j - 1]
<1> DEFINE S == Nat \cup {None}
           x == IF Copying THEN TextPlace(r_dma_trans_count) ELSE None
           y == IF Copying THEN PairPlace(r_dma_trans_count) ELSE None
<1>1. r_dma_trans_count \in 0 .. Bytes - 1
  BY DEF TurnInv, CountsOK
<1>2. Transferring <=> Copying
  BY DEF Transferring, TurnInv, Idle, Asking, Copying, Leaving
<1>3. (IF Transferring /\ w_dma_trans_vram THEN r_dma_dst_adr ELSE None) = x
  BY <1>1, <1>2, RowSizes DEF w_dma_trans_vram, PipeInv, RowPipe, TextPlace, Copying
<1>4. (IF Transferring /\ w_dma_trans_attribute THEN r_dma_att_adr ELSE None) = y
  BY <1>1, <1>2, RowSizes DEF w_dma_trans_attribute, PipeInv, PairPipe, PairPlace, Copying
<1>5. x \in S /\ y \in S
  BY <1>1, RowSizes DEF TextPlace, PairPlace
<1>6. r_rowbuf \in Seq(S) /\ Len(r_rowbuf) = 2 /\ r_attbuf \in Seq(S) /\ Len(r_attbuf) = 4
  BY DEF PipeInv, MemoryOK
<1>7. /\ r_rowbuf' = <<x>> \o SubSeq(r_rowbuf, 1, Len(r_rowbuf) - 1)
      /\ r_attbuf' = <<y>> \o SubSeq(r_attbuf, 1, Len(r_attbuf) - 1)
  BY <1>3, <1>4, Zenon DEF Pipe, Enters
<1>8. r_rowbuf' = <<x>> \o SubSeq(r_rowbuf, 1, 1) /\ r_attbuf' = <<y>> \o SubSeq(r_attbuf, 1, 3)
  BY <1>6, <1>7
<1> HIDE DEF S, x, y
<1>9. r_rowbuf' \in Seq(S) /\ Len(r_rowbuf') = 2 /\ r_rowbuf'[1] = x /\ r_rowbuf'[2] = r_rowbuf[1]
  BY <1>5, <1>6, <1>8
<1>10. /\ r_attbuf' \in Seq(S) /\ Len(r_attbuf') = 4 /\ r_attbuf'[1] = y
       /\ \A j \in 2 .. 4 : r_attbuf'[j] = r_attbuf[j - 1]
  BY <1>5, <1>6, <1>8
<1>11. ROWBUF' = [i \in 0 .. Text - 1 |-> ROWBUF'[i]]
  <2>1. ROWBUF' = Written(ROWBUF, RowAddress, r_ram_data) /\ ROWBUF = [i \in 0 .. Text - 1 |-> ROWBUF[i]]
    BY DEF Buffers, PipeInv, MemoryOK
  <2> QED BY <2>1, RowSizes, WrittenAt
<1>12. ATTRIBUTE' = [i \in 0 .. Pairs - 1 |-> ATTRIBUTE'[i]]
  <2>1. ATTRIBUTE' = Written(ATTRIBUTE, PairAddress, r_attbuf_indata) /\ ATTRIBUTE = [i \in 0 .. Pairs - 1 |-> ATTRIBUTE[i]]
    BY DEF Buffers, PipeInv, MemoryOK
  <2> QED BY <2>1, RowSizes, WrittenAt
<1>13. MemoryOK'
  BY <1>9, <1>10, <1>11, <1>12 DEF MemoryOK, S
<1> QED BY <1>9, <1>10, <1>13 DEF x, y

LEMMA CopiedAlways ==
    CountsOK => /\ Copying => Copied = r_dma_trans_count
                /\ Leaving => Copied \in Bytes .. Bytes + 2
                /\ Idle => Copied = Bytes + 3
BY CopiedRange

LEMMA PhasesApartNext ==
    /\ Idle' => ~Asking' /\ ~Copying' /\ ~Leaving'
    /\ Asking' => ~Copying' /\ ~Leaving'
    /\ Copying' => ~Leaving'
BY DEF Idle, Asking, Copying, Leaving

LEMMA PipeHolds ==
    ASSUME TurnInv, PipeInv, Next
    PROVE  PipeInv'
<1>1. Dma /\ Pipe /\ Buffers /\ CountsOK /\ r_dma_trans_count \in 0 .. Bytes - 1
  BY DEF Next, TurnInv, CountsOK
<1>2. /\ MemoryOK'
      /\ r_rowbuf'[1] = IF Copying THEN TextPlace(r_dma_trans_count) ELSE None
      /\ r_rowbuf'[2] = r_rowbuf[1]
      /\ r_attbuf'[1] = IF Copying THEN PairPlace(r_dma_trans_count) ELSE None
      /\ \A j \in 2 .. 4 : r_attbuf'[j] = r_attbuf[j - 1]
  BY <1>1, PipeStep
<1>0. CountsOK'
  BY TurnStep DEF TurnInv
<1> DEFINE text(c) == IF c < Text THEN c ELSE Text
           pair(c) == IF c < Text THEN 0 ELSE (c - Text) \div 2
<1>3. /\ r_dma_state' = 1 => r_dma_dst_adr' = text(r_dma_trans_count')
      /\ r_dma_state' = 1 => r_dma_att_adr' = pair(r_dma_trans_count')
  <2>1. /\ r_dma_state = 0 => r_dma_trans_count = 0
        /\ r_dma_state \in {0, 1}
        /\ r_dma_state = 1 => r_dma_dst_adr = text(r_dma_trans_count) /\ r_dma_att_adr = pair(r_dma_trans_count)
    BY <1>1 DEF CountsOK, TurnInv, Idle, Asking, Copying, Leaving, PipeInv, RowPipe, PairPipe
  <2>2. CASE BeginRow
    BY <1>1, <2>1, <2>2, RowSizes DEF BeginRow
  <2>3. CASE Transfer
    BY <1>1, <2>1, <2>3, RowSizes DEF Transfer, Transferring, Odd, w_dma_trans_count_end,
       w_dma_trans_vram, w_dma_trans_attribute
  <2>4. CASE NoTransfer
    BY <2>1, <2>4 DEF NoTransfer, dma
  <2> QED BY <1>1, <2>2, <2>3, <2>4 DEF Dma
<1> HIDE DEF text, pair
<1>4. \/ Idle /\ Idle' /\ ~RowStarts
      \/ Idle /\ Asking' /\ RowStarts
      \/ Asking /\ Asking' /\ ~LineEnd /\ ~busack
      \/ Asking /\ Copying' /\ r_dma_trans_count' = 0 /\ ~LineEnd /\ busack
      \/ Copying /\ (Copying' \/ Leaving') /\ Copied' = Copied + 1 /\ ~LineEnd
      \/ Leaving /\ (Leaving' \/ Idle') /\ Copied' = Copied + 1 /\ ~LineEnd
  BY PhaseStep
<1>5. /\ Copying => Copied = r_dma_trans_count /\ Copied \in 0 .. Bytes - 1
      /\ Leaving => Copied \in Bytes .. Bytes + 2
      /\ Copying' => Copied' = r_dma_trans_count'
      /\ Leaving' => Copied' \in Bytes .. Bytes + 2
      /\ Idle' => Copied' = Bytes + 3
  <2>1. (CountsOK => /\ Copying => Copied = r_dma_trans_count
                     /\ Leaving => Copied \in Bytes .. Bytes + 2
                     /\ Idle => Copied = Bytes + 3)'
    BY CopiedAlways, PTL
  <2> QED BY <1>1, <1>0, CopiedRange, <2>1
<1>6. RowPipe'
  <2>1. \A j \in 1 .. 2 : r_rowbuf[j] = IF Copying THEN TextPlace(Copied - j) ELSE None
    BY DEF PipeInv, RowPipe
  <2>2. r_rowbuf'[1] = (IF Copying' THEN TextPlace(Copied' - 1) ELSE None)
        /\ r_rowbuf'[2] = (IF Copying' THEN TextPlace(Copied' - 2) ELSE None)
    <3>1. CASE Idle \/ Asking \/ Leaving
      <4>1. r_rowbuf'[1] = None /\ r_rowbuf'[2] = None
        BY <1>2, <2>1, <3>1, PhasesApart
      <4>2. Copying' => Copied' = 0
        BY <1>4, <1>5, <3>1, PhasesApart, PhasesApartNext
      <4> QED BY <4>1, <4>2 DEF TextPlace
    <3>2. CASE Copying
      <4>1. Copied = r_dma_trans_count /\ Copied \in 0 .. Bytes - 1 /\ Copied' = Copied + 1
        BY <1>4, <1>5, <3>2, PhasesApart
      <4>2. r_rowbuf'[1] = TextPlace(Copied) /\ r_rowbuf'[2] = TextPlace(Copied - 1)
        BY <1>2, <2>1, <3>2, <4>1
      <4>3. CASE Copying'
        BY <3>2, <4>1, <4>2, <4>3
      <4>4. CASE ~Copying'
        <5>1. Leaving'
          BY <1>4, <3>2, <4>4, PhasesApart
        <5>2. Copied = Bytes - 1
          BY <1>5, <4>1, <5>1, RowSizes
        <5> QED BY <4>2, <4>4, <5>2, RowSizes DEF TextPlace
      <4> QED BY <4>3, <4>4
    <3> QED BY <3>1, <3>2 DEF TurnInv
  <2>3. \A j \in 1 .. 2 : j = 1 \/ j = 2
    OBVIOUS
  <2> QED BY <1>3, <2>2, <2>3 DEF RowPipe, text
<1>7. PairPipe'
  <2>1. /\ r_attbuf'[2] = r_attbuf[1] /\ r_attbuf'[3] = r_attbuf[2] /\ r_attbuf'[4] = r_attbuf[3]
        /\ r_attbuf'[1] = IF Copying THEN PairPlace(r_dma_trans_count) ELSE None
    BY <1>2
  <2>2. Idle \/ Asking => r_attbuf[1] = None /\ r_attbuf[2] = None /\ r_attbuf[3] = None
    BY DEF PipeInv, PairPipe
  <2>3. Copying \/ Leaving => /\ r_attbuf[1] = PairPlace(Copied - 1) /\ r_attbuf[2] = PairPlace(Copied - 2)
                              /\ r_attbuf[3] = PairPlace(Copied - 3)
    BY DEF PipeInv, PairPipe
  <2>4. CASE Idle \/ Asking
    <3>1. \A j \in 1 .. 4 : r_attbuf'[j] = None
      BY <2>1, <2>2, <2>4, PhasesApart
    <3>2. Idle' \/ Asking' \/ (Copying' /\ Copied' = 0)
      BY <1>4, <1>5, <2>4, PhasesApart
    <3>3. \A j \in 1 .. 4 : PairPlace(0 - j) = None
      BY RowSizes DEF PairPlace
    <3> QED BY <1>3, <3>1, <3>2, <3>3, PhasesApartNext DEF PairPipe, pair
  <2>5. CASE Copying \/ Leaving
    <3>1. /\ Copied \in Nat /\ Copied' = Copied + 1 /\ Copied <= Bytes + 2
          /\ r_attbuf'[1] = PairPlace(Copied)
      BY <1>4, <1>5, <2>1, <2>5, RowSizes, PhasesApart DEF PairPlace
    <3>2. \A j \in 1 .. 4 : r_attbuf'[j] = PairPlace(Copied' - j)
      BY <2>1, <2>3, <2>5, <3>1
    <3>3. Idle' => /\ \A j \in 1 .. 3 : r_attbuf'[j] = None
                   /\ r_attbuf'[4] = Pairs - 1
      BY <1>5, <3>2, RowSizes DEF PairPlace
    <3>4. ~Asking'
      BY <1>4, <2>5, PhasesApart, PhasesApartNext
    <3> QED BY <1>3, <3>2, <3>3, <3>4 DEF PairPipe, pair
  <2> QED BY <2>4, <2>5 DEF TurnInv
<1> QED BY <1>2, <1>6, <1>7 DEF PipeInv

LEMMA PipeInit == Init => PipeInv
<1> SUFFICES ASSUME Init PROVE PipeInv
  OBVIOUS
<1>1. r_dma_state = 0 /\ r_rowbuf = [i \in 1 .. 2 |-> None] /\ r_attbuf = [i \in 1 .. 4 |-> None]
  BY DEF Init
<1>2. MemoryOK
  <2>1. r_rowbuf \in Seq(Nat \cup {None}) /\ Len(r_rowbuf) = 2
    BY <1>1, SeqDef, LenProperties
  <2>2. r_attbuf \in Seq(Nat \cup {None}) /\ Len(r_attbuf) = 4
    BY <1>1, SeqDef, LenProperties
  <2>3. /\ ROWBUF = [i \in 0 .. Text - 1 |-> None]
        /\ ATTRIBUTE = [i \in 0 .. Pairs - 1 |-> <<None, None>>]
    BY DEF Init
  <2> QED BY <2>1, <2>2, <2>3 DEF MemoryOK
<1>3. ~Asking /\ ~Copying /\ ~Leaving
  BY DEF Init, Asking, Copying, Leaving
<1> QED BY <1>1, <1>2, <1>3 DEF PipeInv, RowPipe, PairPipe

-----------------------------------------------------------------------------
(* The memory's address keeps pace with the beam. *)

\* A row is copied in the line before its first one, or in that.
First == (Idle /\ r_attbuf[4] = None) \/ Line % Lines = 0

AddressInv ==
    Shown => /\ O_RAM_ADR = IF r_dma_state = 1 THEN Base + r_dma_trans_count ELSE Base + Bytes
             /\ First

LEMMA ShownFits ==
    ASSUME CountsOK, BeamInv, Shown
    PROVE  /\ Base \in Nat /\ RamEnd \in Nat /\ Base + Bytes <= RamEnd
           /\ Line \in Nat /\ Line \div Lines \in Nat
<1>1. Line \in Nat
  BY LineAssumption, Sizes DEF Line, BeamInv, CountsOK
<1>2. /\ Lines \in {2, 4, 6, 8, 10, 12, 16, 20} /\ Rows \in Nat
      /\ Line < Rows * Lines
  <2>1. /\ Lines \in {2, 4, 6, 8, 10, 12, 16, 20} /\ Rows \in Nat
        /\ VDISP * (1 + r_charactor_size) <= Rows * Lines /\ VDISP \in Nat
    BY LineCounts
  <2>2. Line < VDISP * (1 + r_charactor_size) /\ r_charactor_size \in {0, 1}
    BY DEF Shown, BeamInv
  <2>3. VDISP * (1 + r_charactor_size) \in Nat /\ Rows * Lines \in Nat
    BY <2>1, <2>2
  <2> QED BY <1>1, <2>1, <2>2, <2>3
<1>3. Line \div Lines \in Nat /\ Line \div Lines + 1 <= Rows
  <2> DEFINE l == Line
             n == Lines
  <2>1. l \in Nat /\ n \in {2, 4, 6, 8, 10, 12, 16, 20} /\ Rows \in Nat /\ l < Rows * n
    BY <1>1, <1>2
  <2> HIDE DEF l, n
  <2>2. l \div n \in Nat /\ l \div n + 1 <= Rows
    <3>1. CASE n = 2
      BY <2>1, <3>1
    <3>2. CASE n = 4
      BY <2>1, <3>2
    <3>3. CASE n = 6
      BY <2>1, <3>3
    <3>4. CASE n = 8
      BY <2>1, <3>4
    <3>5. CASE n = 10
      BY <2>1, <3>5
    <3>6. CASE n = 12
      BY <2>1, <3>6
    <3>7. CASE n = 16
      BY <2>1, <3>7
    <3>8. CASE n = 20
      BY <2>1, <3>8
    <3> QED BY <2>1, <3>1, <3>2, <3>3, <3>4, <3>5, <3>6, <3>7, <3>8
  <2> QED BY <2>2 DEF l, n
<1>4. \A k \in Nat : k + 1 <= Rows => k * Bytes \in Nat /\ k * Bytes + Bytes <= Rows * Bytes
  <2> SUFFICES ASSUME NEW k \in Nat, k + 1 <= Rows
               PROVE  k * Bytes \in Nat /\ k * Bytes + Bytes <= Rows * Bytes
    OBVIOUS
  <2>1. PICK r \in Nat : Rows = k + 1 + r
    <3>1. Rows - k - 1 \in Nat
      BY <1>2
    <3> QED BY <1>2, <3>1
  <2>2. Rows * Bytes = k * Bytes + Bytes + r * Bytes /\ r * Bytes \in Nat /\ k * Bytes \in Nat
    BY <2>1, Sizes
  <2> QED BY <2>2, Sizes
<1> QED BY <1>1, <1>2, <1>3, <1>4, Sizes DEF Base, RamEnd

LEMMA AddressStep ==
    ASSUME TurnInv, BeamInv, AddressInv, PipeInv, PipeInv', Next
    PROVE  AddressInv'
<1> SUFFICES ASSUME Shown'
             PROVE  /\ O_RAM_ADR' = IF r_dma_state' = 1 THEN Base' + r_dma_trans_count' ELSE Base' + Bytes
                    /\ First'
  BY DEF AddressInv
<1>1. CountsOK /\ Beam /\ Dma /\ Buffers /\ Pipe
  BY DEF TurnInv, Next
<1>2. /\ Lines' = Lines
      /\ \/ ~LineEnd /\ Shown /\ Line' = Line /\ Base' = Base
         \/ LineEnd /\ Shown /\ ~RowStarts /\ Line' = Line + 1 /\ Base' = Base
         \/ LineEnd /\ Shown /\ RowStarts /\ ~LastLine /\ Base' = Base + Bytes /\ Line' % Lines = 0
         \/ LineEnd /\ LastLine /\ RowStarts /\ Base' = 0 /\ Line' = 0
  BY <1>1, ShownStep
<1>3. \/ Idle /\ Idle' /\ ~RowStarts
      \/ Idle /\ Asking' /\ RowStarts
      \/ (Asking \/ Copying \/ Leaving) /\ ~LineEnd
  BY PhaseStep
<1>4. First'
  <2>1. Idle => r_attbuf'[4] = None
    <3>1. r_attbuf'[4] = r_attbuf[3]
      BY <1>1, PipeStep
    <3> QED BY <3>1 DEF PipeInv, PairPipe
  <2>2. CASE LineEnd /\ RowStarts
    <3>1. Line' % Lines = 0
      BY <1>2, <2>2, LineCounts
    <3> QED BY <1>2, <3>1 DEF First
  <2>3. CASE LineEnd /\ ~RowStarts
    BY <1>3, <2>1, <2>3 DEF First
  <2>4. CASE ~LineEnd
    <3>1. First /\ Line' % Lines' = Line % Lines
      BY <1>2, <2>4 DEF AddressInv
    <3>2. CASE Line % Lines = 0
      BY <3>1, <3>2 DEF First
    <3>3. CASE Idle
      BY <1>3, <2>1, <2>4, <3>3, PhasesApart DEF First, RowStarts
    <3> QED BY <3>1, <3>2, <3>3 DEF First
  <2> QED BY <2>2, <2>3, <2>4
<1>5. /\ r_dma_trans_count \in 0 .. Bytes - 1
      /\ r_dma_state = 0 => r_dma_trans_count = 0
      /\ r_dma_state \in {0, 1} /\ Bytes \in Nat
      /\ Idle => r_dma_state = 0 /\ ~Transferring
  BY Sizes DEF TurnInv, CountsOK, Idle, Asking, Copying, Leaving, Transferring
<1>6. RowStarts => LineEnd
  BY DEF RowStarts
<1>7. CASE ~LineEnd
  <2>1. Shown /\ Base' = Base
    BY <1>2, <1>7
  <2>2. /\ Base \in Nat /\ RamEnd \in Nat /\ Base + Bytes <= RamEnd
        /\ O_RAM_ADR = IF r_dma_state = 1 THEN Base + r_dma_trans_count ELSE Base + Bytes
    BY <1>1, <2>1, ShownFits DEF AddressInv
  <2>3. CASE Transfer
    BY <1>4, <1>5, <2>1, <2>2, <2>3 DEF Transfer, Transferring, w_dma_trans_count_end
  <2>4. CASE NoTransfer
    BY <1>4, <1>5, <2>1, <2>2, <2>4 DEF NoTransfer, dma
  <2> QED BY <1>1, <1>6, <1>7, <2>3, <2>4 DEF Dma, BeginRow
<1>8. CASE LineEnd /\ ~RowStarts
  <2>1. Idle /\ Shown /\ Base' = Base
    BY <1>2, <1>3, <1>8
  <2>2. NoTransfer
    BY <1>1, <1>5, <1>8, <2>1 DEF Dma, BeginRow, Transfer
  <2> QED BY <1>4, <1>5, <2>1, <2>2 DEF NoTransfer, dma, AddressInv
<1>9. CASE RowStarts
  <2>1. Idle
    BY <1>3, <1>6, <1>9
  <2>2. BeginRow
    BY <1>1, <1>5, <1>9, <2>1 DEF Dma, NoTransfer, Transfer
  <2>3. r_dma_state' = 1 /\ r_dma_trans_count' = 0 /\ O_RAM_ADR' = IF LastLine THEN 0 ELSE O_RAM_ADR
    BY <1>5, <2>1, <2>2 DEF BeginRow
  <2>4. ~LastLine => Shown /\ O_RAM_ADR = Base + Bytes /\ Base' = Base + Bytes /\ Base \in Nat
    BY <1>1, <1>2, <1>5, <1>9, <1>6, <2>1, ShownFits DEF AddressInv
  <2>5. LastLine => Base' = 0
    BY <1>2, <1>6, <1>9
  <2> QED BY <1>4, <1>5, <2>3, <2>4, <2>5
<1> QED BY <1>7, <1>8, <1>9

-----------------------------------------------------------------------------
(* The bytes that are on their way, and those that have arrived. *)

Words ==
    Copying => /\ w_ram_data = Base + (IF Copied = 0 THEN 0 ELSE Copied - 1)
               /\ Copied >= 1 => r_ram_data = Base + (IF Copied = 1 THEN 0 ELSE Copied - 2)
               /\ Copied > Text /\ Odd => r_att_1st_data = Base + Copied - 3

\* The pair that is put together at a count: the next one comes every second clock.
TakenAt(n)  == IF n < Bytes THEN n - (n % 2) - 4 ELSE Bytes - 4
PairFrom(b, m) == <<b + m, b + m + 1>>

PairTaken ==
    (Copying /\ Copied >= Text + 2) \/ Leaving \/ (Idle /\ r_attbuf[4] # None) =>
        r_attbuf_indata = PairFrom(Base, TakenAt(Copied))

TextKept ==
    \A i \in 0 .. Text - 1 :
        (r_dma_state = 1 => Copying /\ i + 2 < Copied) => ROWBUF[i] = Base + i

\* The last place of a row holds a copy of the pair before.
Kept(j) == IF j = Pairs - 1 THEN Pairs - 2 ELSE j

PairsKept ==
    \A j \in 0 .. Pairs - 1 :
        (r_dma_state = 1 => Copying) /\ Text + 2 * j + 5 <= Copied =>
            ATTRIBUTE[j] = PairFrom(Base, Text + 2 * Kept(j))

DataInv == Shown => Words /\ PairTaken /\ TextKept /\ PairsKept

\* The transfer has its row, or just then begins one.
LEMMA RowStep ==
    ASSUME TurnInv, BeamInv, Next, Shown'
    PROVE  \/ Asking' /\ r_dma_state' = 1 /\ ~Copying' /\ ~Leaving' /\ ~Idle'
           \/ /\ Shown /\ Base' = Base /\ Base \in Nat
              /\ \/ Idle /\ Idle' /\ Copied = Bytes + 3 /\ Copied' = Bytes + 3
                 \/ Asking /\ Copying' /\ Copied' = 0 /\ busack
                 \/ /\ Copying /\ (Copying' \/ Leaving') /\ Copied' = Copied + 1
                    /\ Copied = r_dma_trans_count /\ Copied \in 0 .. Bytes - 1
                 \/ Leaving /\ (Leaving' \/ Idle') /\ Copied' = Copied + 1 /\ Copied \in Bytes .. Bytes + 2
<1>1. CountsOK /\ Beam /\ Dma /\ CountsOK'
  BY TurnStep DEF TurnInv, Next
<1>2. \/ ~LineEnd /\ Shown /\ Base' = Base
      \/ LineEnd /\ Shown /\ ~RowStarts /\ Base' = Base
      \/ RowStarts
  BY <1>1, ShownStep
<1>3. \/ Idle /\ Idle' /\ ~RowStarts
      \/ Idle /\ Asking' /\ RowStarts
      \/ Asking /\ Asking' /\ ~LineEnd /\ ~busack
      \/ Asking /\ Copying' /\ r_dma_trans_count' = 0 /\ ~LineEnd /\ busack
      \/ Copying /\ (Copying' \/ Leaving') /\ Copied' = Copied + 1 /\ ~LineEnd
      \/ Leaving /\ (Leaving' \/ Idle') /\ Copied' = Copied + 1 /\ ~LineEnd
  BY PhaseStep
<1>4. /\ Copying => Copied = r_dma_trans_count /\ Copied \in 0 .. Bytes - 1
      /\ Leaving => Copied \in Bytes .. Bytes + 2
      /\ Idle => Copied = Bytes + 3
  BY <1>1, CopiedRange
<1>5. (CountsOK => /\ Copying => Copied = r_dma_trans_count
                   /\ Leaving => Copied \in Bytes .. Bytes + 2
                   /\ Idle => Copied = Bytes + 3)'
  BY CopiedAlways, PTL
<1>6. Asking' => r_dma_state' = 1 /\ ~Copying' /\ ~Leaving' /\ ~Idle'
  BY PhasesApartNext DEF Asking
<1>7. Shown => Base \in Nat
  BY <1>1, ShownFits
<1>8. RowStarts => LineEnd
  BY DEF RowStarts
<1> QED BY <1>1, <1>2, <1>3, <1>4, <1>5, <1>6, <1>7, <1>8

LEMMA WordsStep ==
    ASSUME TurnInv, BeamInv, AddressInv, Words, Next, Shown', Shown, Base' = Base, Base \in Nat,
           \/ Asking /\ Copying' /\ Copied' = 0 /\ busack
           \/ /\ Copying /\ Copied' = Copied + 1
              /\ Copied = r_dma_trans_count /\ Copied \in 0 .. Bytes - 1
    PROVE  Words'
<1> SUFFICES ASSUME Copying' PROVE Words'
  BY DEF Words
<1>1. /\ w_ram_data' = w_address /\ r_ram_data' = w_ram_data
      /\ r_att_1st_data' = IF w_dma_trans_attribute /\ ~Odd THEN r_ram_data ELSE r_att_1st_data
  BY DEF Next, Pipe
<1>2. O_RAM_ADR = IF r_dma_state = 1 THEN Base + r_dma_trans_count ELSE Base + Bytes
  BY DEF AddressInv
<1>3. CASE Asking /\ busack /\ Copied' = 0
  <2>1. w_ram_data' = Base
    BY <1>1, <1>2, <1>3 DEF Asking, w_address
  <2> QED BY <1>3, <2>1, RowSizes DEF Words
<1>4. CASE /\ Copying /\ Copied' = Copied + 1
           /\ Copied = r_dma_trans_count /\ Copied \in 0 .. Bytes - 1
  <2>1. w_ram_data' = Base + Copied
    BY <1>1, <1>2, <1>4 DEF Copying, w_address
  <2>2. r_ram_data' = Base + (IF Copied = 0 THEN 0 ELSE Copied - 1)
    BY <1>1, <1>4 DEF Words
  <2>3. Copied' > Text /\ Odd' => r_att_1st_data' = Base + Copied - 2
    <3> SUFFICES ASSUME Copied' > Text, Odd' PROVE r_att_1st_data' = Base + Copied - 2
      OBVIOUS
    <3>1. r_dma_trans_count' = Copied + 1
      <4>1. (CountsOK => /\ Copying => Copied = r_dma_trans_count
                         /\ Leaving => Copied \in Bytes .. Bytes + 2
                         /\ Idle => Copied = Bytes + 3)'
        BY CopiedAlways, PTL
      <4>2. CountsOK'
        BY TurnStep DEF TurnInv
      <4> QED BY <1>4, <4>1, <4>2
    <3>2. (Copied + 1) % 2 = 1
      BY <3>1 DEF Odd
    <3>3. w_dma_trans_attribute /\ ~Odd
      BY <1>4, <3>2, RowSizes DEF w_dma_trans_attribute, Odd
    <3> QED BY <1>1, <1>4, <3>3, RowSizes DEF Words
  <2> QED BY <1>4, <2>1, <2>2, <2>3, RowSizes DEF Words
<1> QED BY <1>3, <1>4

LEMMA PairTakenStep ==
    ASSUME TurnInv, BeamInv, PipeInv, Words, PairTaken, Next, Shown', Base' = Base, Base \in Nat,
           \/ Idle /\ Idle' /\ Copied = Bytes + 3 /\ Copied' = Bytes + 3
           \/ /\ Copying /\ (Copying' \/ Leaving') /\ Copied' = Copied + 1
              /\ Copied = r_dma_trans_count /\ Copied \in 0 .. Bytes - 1
           \/ Leaving /\ (Leaving' \/ Idle') /\ Copied' = Copied + 1 /\ Copied \in Bytes .. Bytes + 2
    PROVE  PairTaken'
<1>1. /\ r_attbuf_indata' = IF w_dma_trans_attribute /\ Odd THEN <<r_att_1st_data, r_ram_data>>
                                                         ELSE r_attbuf_indata
  BY DEF Next, Pipe
<1>2. CASE Idle /\ Idle'
  <2>1. r_attbuf'[4] = None
    <3>1. r_attbuf'[4] = r_attbuf[3]
      BY PipeStep DEF Next
    <3> QED BY <1>2, <3>1 DEF PipeInv, PairPipe
  <2> QED BY <1>2, <2>1, PhasesApartNext DEF PairTaken
<1>3. CASE Leaving /\ Copied' = Copied + 1 /\ Copied \in Bytes .. Bytes + 2
  <2>1. r_dma_trans_count = 0
    BY <1>3 DEF Leaving, TurnInv, CountsOK
  <2>2. r_attbuf_indata' = r_attbuf_indata
    BY <1>1, <2>1, RowSizes DEF w_dma_trans_attribute
  <2> QED BY <1>3, <2>2, RowSizes DEF PairTaken, TakenAt
<1>4. CASE /\ Copying /\ (Copying' \/ Leaving') /\ Copied' = Copied + 1
           /\ Copied = r_dma_trans_count /\ Copied \in 0 .. Bytes - 1
  <2> SUFFICES ASSUME Copied' >= Text + 2
               PROVE  r_attbuf_indata' = PairFrom(Base, TakenAt(Copied + 1))
    <3>1. (CountsOK => /\ Copying => Copied = r_dma_trans_count
                       /\ Leaving => Copied \in Bytes .. Bytes + 2
                       /\ Idle => Copied = Bytes + 3)'
      BY CopiedAlways, PTL
    <3>2. CountsOK'
      BY TurnStep DEF TurnInv
    <3>3. (Leaving' => Copied' >= Text + 2) /\ ~Idle'
      BY <1>4, <3>1, <3>2, RowSizes, PhasesApartNext
    <3> QED BY <1>4, <3>3 DEF PairTaken
  <2>1. CASE Odd
    <3>1. w_dma_trans_attribute /\ Copied % 2 = 1 /\ Copied > Text
      BY <1>4, <2>1, RowSizes DEF w_dma_trans_attribute, Odd
    <3>2. r_att_1st_data = Base + (Copied - 3) /\ r_ram_data = Base + (Copied - 3) + 1
      BY <1>4, <2>1, <3>1, RowSizes DEF Words
    <3>3. TakenAt(Copied + 1) = Copied - 3
      <4>1. \A c \in Nat : c % 2 = 1 => (c + 1) % 2 = 0
        OBVIOUS
      <4>2. (Copied + 1) % 2 = 0 /\ (Copied + 1 < Bytes \/ Copied + 1 = Bytes)
        BY <1>4, <3>1, <4>1, RowSizes
      <4> QED BY <1>4, <4>2, Sizes DEF TakenAt
    <3> QED BY <1>1, <2>1, <3>1, <3>2, <3>3 DEF PairFrom
  <2>2. CASE ~Odd
    <3>1. Copied % 2 = 0
      BY <1>4, <2>2 DEF Odd
    <3>2. Copied >= Text + 2 /\ TakenAt(Copied + 1) = TakenAt(Copied)
      BY <1>4, <3>1, RowSizes DEF TakenAt
    <3> QED BY <1>1, <1>4, <2>2, <3>2 DEF PairTaken
  <2> QED BY <2>1, <2>2
<1> QED BY <1>2, <1>3, <1>4

LEMMA TextKeptStep ==
    ASSUME TurnInv, PipeInv, Words, TextKept, Next, Base' = Base, Base \in Nat,
           \/ Idle /\ Idle' /\ Copied = Bytes + 3 /\ Copied' = Bytes + 3
           \/ /\ Copying /\ (Copying' \/ Leaving') /\ Copied' = Copied + 1
              /\ Copied = r_dma_trans_count /\ Copied \in 0 .. Bytes - 1
           \/ Leaving /\ (Leaving' \/ Idle') /\ Copied' = Copied + 1 /\ Copied \in Bytes .. Bytes + 2
    PROVE  TextKept'
<1>1. \A i \in 0 .. Text - 1 : ROWBUF'[i] = IF i = r_rowbuf[2] THEN r_ram_data ELSE ROWBUF[i]
  <2>1. ROWBUF' = Written(ROWBUF, r_rowbuf[2], r_ram_data) /\ ROWBUF = [i \in 0 .. Text - 1 |-> ROWBUF[i]]
    BY DEF Next, Buffers, RowAddress, PipeInv, MemoryOK
  <2> QED BY <2>1, RowSizes, WrittenAt
<1>2. r_rowbuf[2] = IF Copying THEN TextPlace(Copied - 2) ELSE None
  BY DEF PipeInv, RowPipe
<1> SUFFICES ASSUME NEW i \in 0 .. Text - 1, r_dma_state' = 1 => Copying' /\ i + 2 < Copied'
             PROVE  ROWBUF'[i] = Base + i
  BY DEF TextKept
<1>3. CASE Idle \/ Leaving
  <2>1. r_dma_state = 0 /\ ~Copying
    BY <1>3, PhasesApart DEF Idle, Leaving
  <2>2. r_rowbuf[2] # i
    BY <1>2, <2>1, RowSizes
  <2> QED BY <1>1, <2>1, <2>2 DEF TextKept
<1>4. CASE /\ Copying /\ (Copying' \/ Leaving') /\ Copied' = Copied + 1
           /\ Copied = r_dma_trans_count /\ Copied \in 0 .. Bytes - 1
  <2>1. i + 2 < Copied + 1
    <3>1. CASE Copying'
      BY <1>4, <3>1 DEF Copying
    <3>2. CASE Leaving'
      <4>1. (CountsOK => /\ Copying => Copied = r_dma_trans_count
                         /\ Leaving => Copied \in Bytes .. Bytes + 2
                         /\ Idle => Copied = Bytes + 3)'
        BY CopiedAlways, PTL
      <4>2. CountsOK'
        BY TurnStep DEF TurnInv
      <4> QED BY <1>4, <3>2, <4>1, <4>2, RowSizes
    <3> QED BY <1>4, <3>1, <3>2
  <2>2. CASE i + 2 = Copied
    <3>1. r_rowbuf[2] = i
      BY <1>2, <1>4, <2>2, RowSizes DEF TextPlace
    <3>2. r_ram_data = Base + i
      BY <1>4, <2>2, RowSizes DEF Words
    <3> QED BY <1>1, <3>1, <3>2
  <2>3. CASE i + 2 < Copied
    <3>1. r_rowbuf[2] # i
      BY <1>2, <1>4, <2>3, RowSizes DEF TextPlace
    <3>2. ROWBUF[i] = Base + i
      BY <1>4, <2>3 DEF TextKept
    <3> QED BY <1>1, <3>1, <3>2
  <2> QED BY <1>4, <2>1, <2>2, <2>3, RowSizes
<1> QED BY <1>3, <1>4

LEMMA PairsKeptStep ==
    ASSUME TurnInv, PipeInv, PairTaken, PairsKept, Next, Base' = Base, Base \in Nat,
           \/ Idle /\ Idle' /\ Copied = Bytes + 3 /\ Copied' = Bytes + 3
           \/ /\ Copying /\ (Copying' \/ Leaving') /\ Copied' = Copied + 1
              /\ Copied = r_dma_trans_count /\ Copied \in 0 .. Bytes - 1
           \/ Leaving /\ (Leaving' \/ Idle') /\ Copied' = Copied + 1 /\ Copied \in Bytes .. Bytes + 2
    PROVE  PairsKept'
<1>1. \A j \in 0 .. Pairs - 1 : ATTRIBUTE'[j] = IF j = r_attbuf[4] THEN r_attbuf_indata ELSE ATTRIBUTE[j]
  <2>1. /\ ATTRIBUTE' = Written(ATTRIBUTE, r_attbuf[4], r_attbuf_indata)
        /\ ATTRIBUTE = [j \in 0 .. Pairs - 1 |-> ATTRIBUTE[j]]
    BY DEF Next, Buffers, PairAddress, PipeInv, MemoryOK
  <2> QED BY <2>1, RowSizes, WrittenAt
<1> SUFFICES ASSUME NEW j \in 0 .. Pairs - 1, Text + 2 * j + 5 <= Copied'
             PROVE  ATTRIBUTE'[j] = PairFrom(Base, Text + 2 * Kept(j))
  BY DEF PairsKept, Kept
<1>2. CASE Idle /\ Copied = Bytes + 3 /\ Copied' = Bytes + 3
  <2>1. r_dma_state # 1
    BY <1>2 DEF Idle
  <2>2. ATTRIBUTE[j] = PairFrom(Base, Text + 2 * Kept(j))
    BY <1>2, <2>1 DEF PairsKept
  <2>3. r_attbuf[4] = j => r_attbuf_indata = PairFrom(Base, Bytes - 4) /\ j = Pairs - 1
    BY <1>2, RowSizes DEF PairTaken, TakenAt, PipeInv, PairPipe
  <2>4. j = Pairs - 1 => Bytes - 4 = Text + 2 * Kept(j)
    BY RowSizes DEF Kept
  <2> QED BY <1>1, <2>2, <2>3, <2>4
<1>3. CASE (Copying \/ Leaving) /\ Copied \in 0 .. Bytes + 2 /\ Copied' = Copied + 1
  <2>1. r_attbuf[4] = PairPlace(Copied - 4)
    BY <1>3 DEF PipeInv, PairPipe
  <2>2. CASE r_attbuf[4] = j
    <3>1. /\ Text <= Copied - 4 /\ Copied - 4 < Bytes /\ j = (Copied - 4 - Text) \div 2
      BY <2>1, <2>2, RowSizes DEF PairPlace
    <3>2. r_attbuf_indata = PairFrom(Base, TakenAt(Copied))
      BY <1>3, <3>1, RowSizes DEF PairTaken
    <3>3. TakenAt(Copied) = Text + 2 * Kept(j)
      <4>1. Copied = Text + 2 * j + 4 \/ Copied = Text + 2 * j + 5
        BY <1>3, <3>1, RowSizes
      <4>2. CASE Copied < Bytes
        BY <1>3, <4>1, <4>2, RowSizes DEF TakenAt, Kept
      <4>3. CASE ~(Copied < Bytes)
        BY <1>3, <4>1, <4>3, RowSizes DEF TakenAt, Kept
      <4> QED BY <4>2, <4>3
    <3> QED BY <1>1, <2>2, <3>2, <3>3
  <2>3. CASE r_attbuf[4] # j
    <3>1. Text + 2 * j + 5 <= Copied
      BY <1>3, <2>1, <2>3, RowSizes DEF PairPlace
    <3>2. r_dma_state = 1 => Copying
      BY <1>3 DEF Leaving
    <3>3. ATTRIBUTE[j] = PairFrom(Base, Text + 2 * Kept(j))
      BY <3>1, <3>2 DEF PairsKept
    <3> QED BY <1>1, <2>3, <3>3
  <2> QED BY <2>2, <2>3
<1>4. \/ Idle /\ Copied = Bytes + 3 /\ Copied' = Bytes + 3
      \/ (Copying \/ Leaving) /\ Copied \in 0 .. Bytes + 2 /\ Copied' = Copied + 1
  BY Sizes
<1> QED BY <1>2, <1>3, <1>4

LEMMA DataStep ==
    ASSUME TurnInv, BeamInv, AddressInv, PipeInv, DataInv, Next
    PROVE  DataInv'
<1> SUFFICES ASSUME Shown' PROVE Words' /\ PairTaken' /\ TextKept' /\ PairsKept'
  BY DEF DataInv
<1>1. CASE Asking' /\ r_dma_state' = 1 /\ ~Copying' /\ ~Leaving' /\ ~Idle'
  BY <1>1 DEF Words, PairTaken, TextKept, PairsKept
<1>2. CASE /\ Shown /\ Base' = Base /\ Base \in Nat
           /\ Asking /\ Copying' /\ Copied' = 0 /\ busack
  <2>1. Words /\ r_dma_state' = 1 /\ ~Leaving' /\ ~Idle'
    BY <1>2, PhasesApartNext DEF DataInv, Copying
  <2>2. Words'
    BY <1>2, <2>1, WordsStep
  <2> QED BY <1>2, <2>1, <2>2, RowSizes DEF PairTaken, TextKept, PairsKept
<1>3. CASE /\ Shown /\ Base' = Base /\ Base \in Nat
           /\ \/ Idle /\ Idle' /\ Copied = Bytes + 3 /\ Copied' = Bytes + 3
              \/ /\ Copying /\ (Copying' \/ Leaving') /\ Copied' = Copied + 1
                 /\ Copied = r_dma_trans_count /\ Copied \in 0 .. Bytes - 1
              \/ Leaving /\ (Leaving' \/ Idle') /\ Copied' = Copied + 1 /\ Copied \in Bytes .. Bytes + 2
  <2>1. Words /\ PairTaken /\ TextKept /\ PairsKept
    BY <1>3 DEF DataInv
  <2>2. Words'
    <3>1. CASE Copying'
      BY <1>3, <2>1, <3>1, WordsStep, PhasesApartNext
    <3>2. CASE ~Copying'
      BY <3>2 DEF Words
    <3> QED BY <3>1, <3>2
  <2>3. PairTaken'
    BY <1>3, <2>1, PairTakenStep
  <2>4. TextKept'
    BY <1>3, <2>1, TextKeptStep
  <2>5. PairsKept'
    BY <1>3, <2>1, PairsKeptStep
  <2> QED BY <2>2, <2>3, <2>4, <2>5
<1> QED BY <1>1, <1>2, <1>3, RowStep

-----------------------------------------------------------------------------
(* A buffer's place is read after it has been written for the row on display. *)

TextOut ==
    Shown /\ hcnt < HDISP /\ hcnt % 8 \in {6, 7} => w_rowbuf_outdata = Base + hcnt \div 8

\* How long a row has taken when the Z80 was quick.
SlackInv ==
    ~late => /\ Asking /\ busack => Since <= Slack + 1
             /\ Copying \/ Leaving \/ (Idle /\ r_attbuf[4] # None) => Since <= Slack + 2 + Copied

PairOut ==
    Shown /\ hcnt < HDISP /\ hcnt % 8 = 6 /\ r_attbuf_adr < Pairs =>
        \/ w_attbuf_outdata = PairFrom(Base, Text + 2 * Kept(r_attbuf_adr))
        \/ late /\ Line % Lines = 0

\* A clock within a character's eight.
LEMMA ShownClock ==
    ASSUME TurnInv, BeamInv, Next, Shown', hcnt' < HDISP, hcnt' % 8 \in {6, 7}
    PROVE  /\ Shown /\ Base' = Base /\ Line' = Line /\ Lines' = Lines /\ ~LineEnd
           /\ hcnt < HDISP /\ hcnt' = hcnt + 1 /\ hcnt \in Nat /\ hcnt' % 8 = (hcnt % 8) + 1
           /\ hcnt' \div 8 = hcnt \div 8 /\ hcnt \div 8 \in 0 .. Text - 1
           /\ hcnt = 8 * (hcnt \div 8) + (hcnt % 8)
           /\ Since = hcnt + HMAX - HDISP
<1>1. CountsOK /\ Beam /\ Dma
  BY DEF TurnInv, Next
<1>2. hcnt' = (IF hcnt = HMAX - 1 THEN 0 ELSE hcnt + 1) /\ hcnt \in 0 .. HMAX - 1
  BY <1>1, LineStep DEF CountsOK
<1>3. hcnt' = hcnt + 1 /\ hcnt < HDISP - 1 /\ hcnt \in Nat
  BY <1>2, Sizes, RowSizes
<1>4. ~LineEnd
  BY <1>3, Sizes DEF LineEnd
<1>5. Shown /\ Base' = Base /\ Lines' = Lines
  BY <1>1, <1>4, ShownStep
<1>6. Line' = Line
  BY <1>1, <1>4, LineStep
<1>7. /\ hcnt' % 8 = (hcnt % 8) + 1 /\ hcnt' \div 8 = hcnt \div 8 /\ hcnt \div 8 \in 0 .. Text - 1
      /\ hcnt = 8 * (hcnt \div 8) + (hcnt % 8)
  <2>1. /\ hcnt = 8 * (hcnt \div 8) + (hcnt % 8) /\ hcnt % 8 \in 0 .. 7 /\ hcnt \div 8 \in Nat
    BY <1>3
  <2>2. \A h \in Nat : (h + 1) % 8 \in {6, 7} => (h + 1) % 8 = (h % 8) + 1 /\ (h + 1) \div 8 = h \div 8
    OBVIOUS
  <2>3. hcnt' % 8 = (hcnt % 8) + 1 /\ hcnt' \div 8 = hcnt \div 8
    BY <1>3, <2>2
  <2>4. hcnt \div 8 < Text
    BY <1>3, <2>1, RowSizes
  <2> QED BY <2>1, <2>3, <2>4, RowSizes
<1>8. Since = hcnt + HMAX - HDISP
  BY <1>3, Sizes DEF Since
<1> QED BY <1>3, <1>4, <1>5, <1>6, <1>7, <1>8, Sizes

LEMMA TextOutStep ==
    ASSUME Latency <= HMAX - HDISP, TurnInv, BeamInv, PipeInv, DataInv, Next
    PROVE  TextOut'
<1> SUFFICES ASSUME Shown', hcnt' < HDISP, hcnt' % 8 \in {6, 7}
             PROVE  w_rowbuf_outdata' = Base' + hcnt' \div 8
  BY DEF TextOut
<1> DEFINE i == hcnt \div 8
<1>1. /\ Shown /\ Base' = Base /\ hcnt < HDISP /\ hcnt \in Nat /\ hcnt' = hcnt + 1
      /\ hcnt' % 8 = (hcnt % 8) + 1 /\ hcnt' \div 8 = i /\ i \in 0 .. Text - 1
      /\ hcnt = 8 * i + (hcnt % 8) /\ Since = hcnt + HMAX - HDISP
  BY ShownClock
<1>2. hcnt >= 8 * i + 5 /\ hcnt % 8 \in Nat
  BY <1>1
<1>3. r_text_adr = i
  BY <1>1 DEF BeamInv
<1>4. TextKept /\ (r_rowbuf[2] = IF Copying THEN TextPlace(Copied - 2) ELSE None)
  BY <1>1 DEF DataInv, PipeInv, RowPipe
<1> HIDE DEF i
<1>5. /\ r_dma_state = 1 => Copying /\ i + 2 < Copied
      /\ r_rowbuf[2] # i
  <2>1. CASE Idle \/ Leaving
    BY <1>1, <1>4, <2>1, RowSizes DEF Idle, Leaving, Copying
  <2>2. CASE Asking
    <3>1. Since <= Latency + 1
      BY <2>2, Sizes DEF Asking, TurnInv, CountsOK
    <3> QED BY <1>1, <1>2, <3>1, Sizes
  <2>3. CASE Copying
    <3>1. Since <= Latency + 2 + Copied /\ Copied \in Nat
      BY <2>3, CopiedRange DEF TurnInv, Copying
    <3>2. i + 2 < Copied
      BY <1>1, <1>2, <3>1, Sizes
    <3>3. TextPlace(Copied - 2) # i
      BY <1>1, <3>1, <3>2, RowSizes DEF TextPlace
    <3> QED BY <1>4, <2>3, <3>2, <3>3
  <2> QED BY <2>1, <2>2, <2>3 DEF TurnInv
<1>6. ROWBUF[i] = Base + i
  BY <1>1, <1>4, <1>5 DEF TextKept
<1>7. DOMAIN ROWBUF = 0 .. Text - 1
  BY DEF PipeInv, MemoryOK
<1>8. w_rowbuf_outdata' = ROWBUF[i]
  BY <1>1, <1>3, <1>5, <1>7 DEF Next, Buffers, Read, RowAddress
<1> QED BY <1>1, <1>6, <1>8

LEMMA SlackStep ==
    ASSUME TurnInv, PipeInv, SlackInv, Next
    PROVE  SlackInv'
<1> SUFFICES ASSUME ~late'
             PROVE  /\ Asking' /\ busack' => Since' <= Slack + 1
                    /\ Copying' \/ Leaving' \/ (Idle' /\ r_attbuf'[4] # None) => Since' <= Slack + 2 + Copied'
  BY DEF SlackInv
<1>1. CountsOK /\ Beam /\ Bus /\ Pipe /\ Buffers
  BY DEF TurnInv, Next
<1>2. LineEnd \/ (~late /\ ~(busack' /\ ~busack /\ waited >= Slack))
  <2>1. late' = IF LineEnd THEN FALSE ELSE late \/ (busack' /\ ~busack /\ waited >= Slack)
    BY <1>1 DEF Bus
  <2> QED BY <2>1, Zenon
<1>3. /\ Since \in 0 .. HMAX - 1 /\ HMAX \in Nat /\ Slack \in Nat
      /\ Since' = IF LineEnd THEN 0 ELSE Since + 1
  BY <1>1, SinceStep, Sizes, BusAssumption
<1>4. /\ (busack' <=> O_BUSREQ) \/ (O_BUSREQ /\ ~busack /\ ~busack')
  BY <1>1, BusStep
<1>5. \/ Idle /\ Idle' /\ ~RowStarts
      \/ Idle /\ Asking' /\ RowStarts
      \/ Asking /\ Asking' /\ ~LineEnd /\ ~busack
      \/ Asking /\ Copying' /\ r_dma_trans_count' = 0 /\ ~LineEnd /\ busack
      \/ Copying /\ (Copying' \/ Leaving') /\ Copied' = Copied + 1 /\ ~LineEnd
      \/ Leaving /\ (Leaving' \/ Idle') /\ Copied' = Copied + 1 /\ ~LineEnd
  BY PhaseStep
<1>6. Copied \in Nat
  BY <1>1, CopiedRange
<1>7. CASE Idle
  <2>1. r_attbuf'[4] = None
    <3>1. r_attbuf'[4] = r_attbuf[3]
      BY <1>1, PipeStep
    <3> QED BY <1>7, <3>1 DEF PipeInv, PairPipe
  <2>2. ~busack'
    BY <1>4, <1>7 DEF Idle
  <2> QED BY <1>5, <1>7, <2>1, <2>2, PhasesApart, PhasesApartNext
<1>8. CASE Asking /\ Asking'
  <2>1. ~busack /\ ~LineEnd
    BY <1>5, <1>8, PhasesApart, PhasesApartNext
  <2>2. busack' => waited < Slack /\ Since = waited + 1
    BY <1>1, <1>2, <1>3, <1>4, <1>8, <2>1 DEF Asking, CountsOK
  <2> QED BY <1>1, <1>3, <1>8, <2>1, <2>2, PhasesApartNext DEF CountsOK
<1>9. CASE Asking /\ Copying'
  <2>1. busack /\ ~LineEnd /\ Copied' = 0
    <3>1. busack /\ ~LineEnd /\ r_dma_trans_count' = 0
      BY <1>5, <1>9, PhasesApart, PhasesApartNext
    <3>2. r_dma_state' = 1
      BY <1>9 DEF Copying
    <3> QED BY <3>1, <3>2 DEF Copied
  <2>2. Since <= Slack + 1
    BY <1>2, <1>9, <2>1 DEF SlackInv
  <2> QED BY <1>3, <1>9, <2>1, <2>2, PhasesApartNext
<1>10. CASE Copying \/ Leaving
  <2>1. ~LineEnd /\ Copied' = Copied + 1 /\ ~Asking'
    BY <1>5, <1>10, PhasesApart, PhasesApartNext
  <2>2. Since <= Slack + 2 + Copied
    BY <1>2, <1>10, <2>1 DEF SlackInv
  <2> QED BY <1>3, <1>6, <2>1, <2>2
<1> QED BY <1>5, <1>7, <1>8, <1>9, <1>10

LEMMA PairOutStep ==
    ASSUME Latency <= HMAX - HDISP, Slack + Text + 3 <= HMAX - HDISP,
           TurnInv, BeamInv, AddressInv, PipeInv, DataInv, SlackInv, Next
    PROVE  PairOut'
<1> SUFFICES ASSUME Shown', hcnt' < HDISP, hcnt' % 8 = 6, r_attbuf_adr' < Pairs
             PROVE  \/ w_attbuf_outdata' = PairFrom(Base', Text + 2 * Kept(r_attbuf_adr'))
                    \/ late' /\ Line' % Lines' = 0
  BY DEF PairOut, Kept
<1> DEFINE i == hcnt \div 8
           j == r_attbuf_adr
<1>1. /\ Shown /\ Base' = Base /\ hcnt < HDISP /\ hcnt \in Nat /\ ~LineEnd
      /\ hcnt' % 8 = (hcnt % 8) + 1 /\ i \in 0 .. Text - 1 /\ Line' = Line /\ Lines' = Lines
      /\ hcnt = 8 * i + (hcnt % 8) /\ Since = hcnt + HMAX - HDISP
  BY ShownClock
<1>2. hcnt % 8 = 5 /\ hcnt = 8 * i + 5 /\ (hcnt + 1) \div 8 = i
  BY <1>1
<1>3. r_attbuf_adr' = j /\ j \in 0 .. Pairs - 1 /\ j <= i
  <2>1. r_attbuf_adr' = j
    BY <1>1, <1>2 DEF Next, Buffers, Matches, w_hdotcnt
  <2>2. j \in 0 .. i
    BY <1>1, <1>2 DEF BeamInv
  <2> QED BY <1>1, <2>1, <2>2, RowSizes
<1>4. PairsKept /\ First /\ PairPipe
  BY <1>1 DEF DataInv, AddressInv, PipeInv
<1>5. DOMAIN ATTRIBUTE = 0 .. Pairs - 1
  BY DEF PipeInv, MemoryOK
<1> HIDE DEF i, j
<1> SUFFICES ASSUME ~(late' /\ Line' % Lines' = 0)
             PROVE  w_attbuf_outdata' = PairFrom(Base', Text + 2 * Kept(r_attbuf_adr'))
  OBVIOUS
<1>7. \/ Idle /\ r_attbuf[4] = None
      \/ ~late
  <2>1. late => late'
    <3>1. late' = IF LineEnd THEN FALSE ELSE late \/ (busack' /\ ~busack /\ waited >= Slack)
      BY DEF Next, Bus
    <3> QED BY <1>1, <3>1, Zenon
  <2> QED BY <1>1, <1>4, <2>1 DEF First
<1>8. Copied \in Nat /\ (Idle => Copied = Bytes + 3)
  BY CopiedRange DEF TurnInv
<1>9. /\ r_dma_state = 1 => Copying
      /\ Text + 2 * j + 5 <= Copied
      /\ r_attbuf[4] # j
  <2>1. CASE Idle /\ r_attbuf[4] = None
    BY <1>3, <1>8, <2>1, RowSizes DEF Idle
  <2>2. CASE ~late /\ ~(Idle /\ r_attbuf[4] = None)
    <3>1. ~Asking
      <4> SUFFICES ASSUME Asking PROVE FALSE
        OBVIOUS
      <4>1. Since <= Latency + 1
        BY Sizes DEF Asking, TurnInv, CountsOK
      <4> QED BY <1>1, <1>2, <1>3, <4>1, Sizes
    <3>2. Since <= Slack + 2 + Copied
      BY <2>2, <3>1 DEF SlackInv, TurnInv, Idle, PipeInv
    <3>3. Text + 2 * j + 6 <= Copied
      BY <1>1, <1>2, <1>3, <1>8, <3>2, Sizes, RowSizes, BusAssumption
    <3>4. r_dma_state = 1 => Copying
      BY <3>1 DEF TurnInv, Idle, Leaving
    <3>5. r_attbuf[4] # j
      <4>1. CASE Copying \/ Leaving
        <5>1. r_attbuf[4] = PairPlace(Copied - 4)
          BY <1>4, <4>1 DEF PairPipe
        <5> QED BY <1>3, <1>8, <3>3, <5>1, RowSizes DEF PairPlace
      <4>2. CASE Idle
        <5>1. r_attbuf[4] \in {None, Pairs - 1}
          BY <1>4, <4>2 DEF PairPipe
        <5> QED BY <1>3, <1>8, <3>3, <4>2, <5>1, RowSizes
      <4> QED BY <3>1, <4>1, <4>2 DEF TurnInv
    <3> QED BY <3>3, <3>4, <3>5, <1>3, <1>8, RowSizes
  <2> QED BY <1>7, <2>1, <2>2
<1>10. ATTRIBUTE[j] = PairFrom(Base, Text + 2 * Kept(j))
  BY <1>3, <1>4, <1>9 DEF PairsKept
<1>11. w_attbuf_outdata' = ATTRIBUTE[j]
  <2>1. w_attbuf_outdata' = Read(ATTRIBUTE, j, r_attbuf[4], <<None, None>>)
    BY DEF Next, Buffers, PairAddress, j
  <2> QED BY <1>3, <1>5, <1>9, <2>1 DEF Read
<1> QED BY <1>1, <1>3, <1>10, <1>11

CopyInv == TurnInv /\ BeamInv /\ PipeInv /\ AddressInv /\ DataInv /\ SlackInv

LEMMA CopyInit == Init => CopyInv /\ TextOut /\ PairOut
<1> SUFFICES ASSUME Init PROVE CopyInv /\ TextOut /\ PairOut
  OBVIOUS
<1>1. ~frame /\ frame \in BOOLEAN
  BY Zenon DEF Init
<1>2. ~Shown
  BY <1>1, Zenon DEF Shown
<1>3. /\ hcnt = 0 /\ vcnt = 0 /\ r_charactor_size \in {0, 1} /\ r_dma_state = 0
      /\ r_text_adr = 0 /\ r_attbuf_adr = 0 /\ r_attbuf = [i \in 1 .. 4 |-> None]
  BY DEF Init
<1>4. BeamInv
  BY <1>1, <1>2, <1>3, LineAssumption, FrameAssumption, Sizes DEF BeamInv
<1>5. r_attbuf[4] = None
  BY <1>3
<1>6. ~r_busack
  BY Zenon DEF Init
<1>7. SlackInv
  BY <1>3, <1>5, <1>6 DEF SlackInv, Asking, Copying, Leaving
<1> QED BY <1>2, <1>4, <1>7, TurnInit, PipeInit DEF CopyInv, AddressInv, DataInv, TextOut, PairOut

LEMMA CopyStep == CopyInv /\ Next => CopyInv'
<1> SUFFICES ASSUME CopyInv, Next PROVE CopyInv'
  OBVIOUS
<1>1. /\ TurnInv /\ BeamInv /\ PipeInv /\ AddressInv /\ DataInv /\ SlackInv
      /\ CountsOK /\ Beam /\ Dma /\ Buffers
  BY DEF CopyInv, TurnInv, Next
<1>2. TurnInv'
  BY <1>1, TurnStep
<1>3. BeamInv'
  BY <1>1, BeamHolds
<1>4. PipeInv'
  BY <1>1, PipeHolds
<1>5. AddressInv'
  BY <1>1, <1>4, AddressStep
<1>6. DataInv'
  BY <1>1, DataStep
<1>7. SlackInv'
  BY <1>1, SlackStep
<1> QED BY <1>2, <1>3, <1>4, <1>5, <1>6, <1>7 DEF CopyInv

LEMMA CopyStutter == UNCHANGED vars => (CopyInv => CopyInv') /\ (TextOut => TextOut') /\ (PairOut => PairOut')
<1> SUFFICES ASSUME UNCHANGED vars
             PROVE  (CopyInv => CopyInv') /\ (TextOut => TextOut') /\ (PairOut => PairOut')
  OBVIOUS
<1> USE DEF vars, beam, dma, bus, pipe, buffers
<1>1. Line' = Line /\ Lines' = Lines /\ Base' = Base /\ Since' = Since /\ Copied' = Copied
  BY DEF Line, LastLine, Lines, Base, Since, Copied
<1>2. /\ Shown' <=> Shown
      /\ Idle' <=> Idle
      /\ Asking' <=> Asking
      /\ Copying' <=> Copying
      /\ Leaving' <=> Leaving
      /\ Odd' <=> Odd
  BY <1>1 DEF Shown, Idle, Asking, Copying, Leaving, Odd
<1>3. TurnInv => TurnInv'
  BY TurnStep
<1>4. BeamInv => BeamInv'
  BY <1>1, <1>2 DEF BeamInv, Dots
<1>5. PipeInv => PipeInv'
  BY <1>1, <1>2 DEF PipeInv, MemoryOK, RowPipe, PairPipe, TextPlace, PairPlace
<1>6. AddressInv => AddressInv'
  BY <1>1, <1>2 DEF AddressInv, First
<1>7. DataInv => DataInv'
  <2>1. Words => Words'
    BY <1>1, <1>2 DEF Words
  <2>2. PairTaken => PairTaken'
    BY <1>1, <1>2 DEF PairTaken, PairFrom, TakenAt
  <2>3. TextKept => TextKept'
    BY <1>1, <1>2 DEF TextKept
  <2>4. PairsKept => PairsKept'
    BY <1>1, <1>2 DEF PairsKept, PairFrom, Kept
  <2> QED BY <1>2, <2>1, <2>2, <2>3, <2>4 DEF DataInv
<1>8. SlackInv => SlackInv'
  BY <1>1, <1>2 DEF SlackInv
<1>9. TextOut => TextOut'
  BY <1>1, <1>2 DEF TextOut
<1>10. PairOut => PairOut'
  BY <1>1, <1>2 DEF PairOut, PairFrom, Kept
<1> QED BY <1>3, <1>4, <1>5, <1>6, <1>7, <1>8, <1>9, <1>10 DEF CopyInv

\* For every geometry and every Z80 whose longest instruction takes no longer than the
\* part of a line that is not displayed: a character taken for display is that of its row
\* and column, on every line of the row (vga.v:217-247, 262-320, 510-513).
THEOREM TextInTimeCorrect == ASSUME Latency <= HMAX - HDISP PROVE Spec => []TextInTime
<1> DEFINE IInv == CopyInv /\ TextOut
<1>1. Init => IInv
  BY CopyInit
<1>2. IInv /\ [Next]_vars => IInv'
  <2> SUFFICES ASSUME IInv, [Next]_vars PROVE IInv'
    OBVIOUS
  <2>1. CASE Next
    BY <2>1, CopyStep, TextOutStep DEF CopyInv
  <2>2. CASE UNCHANGED vars
    BY <2>2, CopyStutter
  <2> QED BY <2>1, <2>2
<1>3. IInv => TextInTime
  <2> SUFFICES ASSUME IInv, frame, w_vdisp_en, w_hdisp_en, w_hdotcnt \in {6, 7}
               PROVE  w_rowbuf_outdata = Row + hcnt \div 8
    BY DEF TextInTime
  <2>1. hcnt < HDISP /\ hcnt % 8 \in {6, 7} /\ Line = vcnt
    BY DEF w_hdisp_en, w_hdotcnt, Line
  <2>2. Shown /\ Base = Row
    BY <2>1 DEF w_vdisp_en, Shown, Base, Row
  <2> QED BY <2>1, <2>2 DEF TextOut
<1> QED BY <1>1, <1>2, <1>3, PTL DEF Spec

\* For every geometry and every Z80, when what may come late has a row's text and three
\* clocks besides the Z80's slack within the part of a line that is not displayed: an
\* attribute pair taken for display is that of its row and place, but for the first line of
\* a row whose bus came late, and for the copy in the last place (vga.v:229-233, 323-377,
\* 425).
THEOREM AttributesInTimeCorrect ==
    ASSUME Latency <= HMAX - HDISP, Slack + Text + 3 <= HMAX - HDISP
    PROVE  Spec => []AttributesInTime
<1> DEFINE IInv == CopyInv /\ PairOut
<1>1. Init => IInv
  BY CopyInit
<1>2. IInv /\ [Next]_vars => IInv'
  <2> SUFFICES ASSUME IInv, [Next]_vars PROVE IInv'
    OBVIOUS
  <2>1. CASE Next
    BY <2>1, CopyStep, PairOutStep DEF CopyInv
  <2>2. CASE UNCHANGED vars
    BY <2>2, CopyStutter
  <2> QED BY <2>1, <2>2
<1>3. IInv => AttributesInTime
  <2> SUFFICES ASSUME IInv, frame, w_vdisp_en, w_hdisp_en, w_hdotcnt = 6, r_attbuf_adr < Pairs
               PROVE  LET pair  == IF r_attbuf_adr = Pairs - 1 THEN Pairs - 2 ELSE r_attbuf_adr
                          place == Row + Text + 2 * pair
                      IN  \/ w_attbuf_outdata = <<place, place + 1>>
                          \/ late /\ vcnt % Lines = 0
    BY DEF AttributesInTime
  <2>1. hcnt < HDISP /\ hcnt % 8 = 6 /\ Line = vcnt
    BY DEF w_hdisp_en, w_hdotcnt, Line
  <2>2. Shown /\ Base = Row
    BY <2>1 DEF w_vdisp_en, Shown, Base, Row
  <2>3. \/ w_attbuf_outdata = PairFrom(Row, Text + 2 * Kept(r_attbuf_adr))
        \/ late /\ vcnt % Lines = 0
    BY <2>1, <2>2 DEF PairOut
  <2>4. Row \in Nat /\ r_attbuf_adr \in Nat
    <3>1. CountsOK
      BY DEF CopyInv, TurnInv
    <3>2. r_attbuf_adr \in Nat
      BY <2>1, <3>1 DEF CopyInv, BeamInv, CountsOK
    <3> QED BY <2>2, <3>1, <3>2, ShownFits DEF CopyInv
  <2> QED BY <2>3, <2>4, RowSizes DEF PairFrom, Kept
<1> QED BY <1>1, <1>2, <1>3, PTL DEF Spec
=============================================================================
