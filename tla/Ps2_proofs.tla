----------------------------- MODULE Ps2_proofs -----------------------------
(***************************************************************************)
(* Proofs about Ps2, for every set of bytes and every phase of the         *)
(* keyboard's clock of two steps or more.                                  *)
(***************************************************************************)
EXTENDS Ps2, TLAPS

-----------------------------------------------------------------------------
(* The line, and the receiver's samples of its clock. *)

LineType ==
    /\ sending \in Code \cup {None} /\ n \in 0 .. 10 /\ age \in 0 .. MinPhase
    /\ IO_PS2CLK \in {0, 1} /\ IO_PS2DATA \in {0, 1}

\* A phase shows in sreg two steps after it began; after a reset, and in the idle line,
\* the samples may lag.
LineInv ==
    /\ LineType
    /\ sending = None => IO_PS2CLK = 1 /\ n = 0
    /\ sending # None => IO_PS2DATA = FrameBit(sending, n)
    /\ IO_PS2CLK = 1 => /\ sreg \in {0, 1, 3, 7}
                        /\ sending # None /\ age >= 1 => sreg # 0
                        /\ sending # None /\ age >= 2 => sreg \in {3, 7}
    /\ IO_PS2CLK = 0 => /\ age = 0 => sreg = 7
                        /\ age = 1 => sreg = 6
                        /\ age >= 2 => sreg \in {0, 4}

LEMMA Samples ==
    ASSUME NEW s \in 0 .. 7, NEW c \in {0, 1}
    PROVE  /\ (2 * s + c) % 8 \in 0 .. 7
           /\ c = 1 => /\ (s = 0 => (2 * s + c) % 8 = 1) /\ (s = 1 => (2 * s + c) % 8 = 3)
                       /\ (s \in {3, 7} => (2 * s + c) % 8 = 7)
           /\ c = 0 => /\ (s = 7 => (2 * s + c) % 8 = 6) /\ (s = 6 => (2 * s + c) % 8 = 4)
                       /\ (s \in {0, 4} => (2 * s + c) % 8 = 0)
           /\ s \div 2 = 2 <=> s \in {4, 5}
<1> s = 0 \/ s = 1 \/ s = 2 \/ s = 3 \/ s = 4 \/ s = 5 \/ s = 6 \/ s = 7
  OBVIOUS
<1> c = 0 \/ c = 1
  OBVIOUS
<1> QED OBVIOUS

LEMMA BitDivisor ==
    ASSUME NEW k \in 0 .. 7
    PROVE  /\ k = 0 => 2^k = 1
           /\ k = 1 => 2^k = 2
           /\ k = 2 => 2^k = 4
           /\ k = 3 => 2^k = 8
           /\ k = 4 => 2^k = 16
           /\ k = 5 => 2^k = 32
           /\ k = 6 => 2^k = 64
           /\ k = 7 => 2^k = 128
<1>1. 2^0 = 1 /\ 2^1 = 2 /\ 2^2 = 4 /\ 2^3 = 8 /\ 2^4 = 16 /\ 2^5 = 32 /\ 2^6 = 64 /\ 2^7 = 128
  OBVIOUS
<1> QED BY <1>1, Zenon

LEMMA FrameBits ==
    ASSUME NEW b \in Code, NEW i \in 0 .. 10
    PROVE  FrameBit(b, i) \in {0, 1}
<1>1. b \in 0 .. 255
  BY CodeAssumption
<1>2. ASSUME NEW k \in 0 .. 7 PROVE BitOf(b, k) \in {0, 1}
  <2>1. 2^k \in {1, 2, 4, 8, 16, 32, 64, 128}
    <3>1. k = 0 \/ k = 1 \/ k = 2 \/ k = 3 \/ k = 4 \/ k = 5 \/ k = 6 \/ k = 7
      OBVIOUS
    <3> QED BY <3>1, BitDivisor, Zenon
  <2>2. \A m \in {1, 2, 4, 8, 16, 32, 64, 128} : (b \div m) % 2 \in {0, 1}
    BY <1>1
  <2> QED BY <2>1, <2>2, Zenon DEF BitOf
<1>3. Parity(b) \in {0, 1}
  <2> DEFINE B(k) == BitOf(b, k)
  <2>1. \A k \in 0 .. 7 : B(k) \in {0, 1}
    BY <1>2
  <2>2. Parity(b) = (1 + B(0) + B(1) + B(2) + B(3) + B(4) + B(5) + B(6) + B(7)) % 2
    BY DEF Parity
  <2> HIDE DEF B
  <2>3. B(0) \in {0, 1} /\ B(1) \in {0, 1} /\ B(2) \in {0, 1} /\ B(3) \in {0, 1}
        /\ B(4) \in {0, 1} /\ B(5) \in {0, 1} /\ B(6) \in {0, 1} /\ B(7) \in {0, 1}
    BY <2>1
  <2> QED BY <2>2, <2>3
<1>4. i \in 1 .. 8 => i - 1 \in 0 .. 7
  OBVIOUS
<1> QED BY <1>2, <1>3, <1>4 DEF FrameBit

LEMMA LineStep ==
    ASSUME LineInv, Pins, sreg' = Sampled
    PROVE  LineInv'
<1> USE PhaseAssumption
<1>0. LineType /\ sreg \in 0 .. 7 /\ MinPhase \in Nat /\ MinPhase >= 2
  <2>1. sreg \in {0, 1, 3, 7} \/ sreg \in {0, 4, 6, 7}
    BY DEF LineInv, LineType
  <2> QED BY <2>1 DEF LineInv
<1>2. /\ IO_PS2CLK = 1 => /\ (sreg = 0 => sreg' = 1) /\ (sreg = 1 => sreg' = 3)
                          /\ (sreg \in {3, 7} => sreg' = 7)
      /\ IO_PS2CLK = 0 => /\ (sreg = 7 => sreg' = 6) /\ (sreg = 6 => sreg' = 4)
                          /\ (sreg \in {0, 4} => sreg' = 0)
  BY <1>0, Samples DEF Sampled, LineType
<1>3. CASE Rest
  <2>1. /\ sending' = sending /\ n' = n /\ IO_PS2CLK' = IO_PS2CLK /\ IO_PS2DATA' = IO_PS2DATA
        /\ age' = IF age < MinPhase THEN age + 1 ELSE age
    BY <1>3 DEF Rest
  <2>2. LineType'
    BY <1>0, <2>1 DEF LineType
  <2>3. CASE IO_PS2CLK = 1
    BY <1>0, <1>2, <2>1, <2>2, <2>3 DEF LineInv, LineType
  <2>4. CASE IO_PS2CLK = 0
    BY <1>0, <1>2, <2>1, <2>2, <2>4 DEF LineInv, LineType
  <2> QED BY <1>0, <2>3, <2>4 DEF LineType
<1>4. CASE StartBit
  <2>1. /\ sending = None /\ sending' \in Code /\ n' = 0 /\ age' = 0 /\ IO_PS2DATA' = 0
        /\ IO_PS2CLK' = IO_PS2CLK /\ IO_PS2CLK = 1
    BY <1>4 DEF StartBit, LineInv
  <2>2. LineType' /\ FrameBit(sending', n') = 0
    BY <1>0, <2>1 DEF LineType, FrameBit
  <2>3. sreg' \in {0, 1, 3, 7}
    BY <1>2, <2>1 DEF LineInv
  <2>4. sending' # None
    BY <2>1, CodeAssumption
  <2> QED BY <2>1, <2>2, <2>3, <2>4 DEF LineInv
<1>5. CASE ClockLow
  <2>1. /\ sending # None /\ age = MinPhase /\ IO_PS2CLK = 1 /\ IO_PS2CLK' = 0 /\ age' = 0
        /\ sending' = sending /\ n' = n /\ IO_PS2DATA' = IO_PS2DATA
    BY <1>5 DEF ClockLow
  <2>2. LineType'
    BY <1>0, <2>1 DEF LineType
  <2>3. sreg' = 7
    BY <1>0, <1>2, <2>1 DEF LineInv
  <2> QED BY <2>1, <2>2, <2>3 DEF LineInv
<1>6. CASE ClockHigh
  <2>1. /\ age = MinPhase /\ IO_PS2CLK = 0 /\ IO_PS2CLK' = 1 /\ age' = 0 /\ sending # None
    BY <1>6 DEF ClockHigh, LineInv
  <2>2. sreg' = 0
    BY <1>0, <1>2, <2>1 DEF LineInv
  <2>3. CASE n < 10 /\ n' = n + 1 /\ IO_PS2DATA' = FrameBit(sending, n + 1) /\ sending' = sending
    <3>1. n + 1 \in 0 .. 10 /\ sending \in Code
      BY <1>0, <2>1, <2>3 DEF LineType
    <3>2. LineType'
      BY <1>0, <2>1, <2>3, <3>1, FrameBits DEF LineType
    <3> QED BY <2>1, <2>2, <2>3, <3>2 DEF LineInv
  <2>4. CASE n = 10 /\ n' = 0 /\ IO_PS2DATA' = 1 /\ sending' = None
    <3>1. LineType'
      BY <1>0, <2>1, <2>4 DEF LineType
    <3> QED BY <2>1, <2>2, <2>4, <3>1 DEF LineInv
  <2> QED BY <1>6, <2>3, <2>4 DEF ClockHigh
<1> QED BY <1>3, <1>4, <1>5, <1>6 DEF Pins

-----------------------------------------------------------------------------
(* The receiver in the frame. *)

\* The falling edges of this frame that the receiver has taken: eleven in a frame.
Taken == IF sending = None THEN 0 ELSE IF IO_PS2CLK = 0 /\ sreg = 0 THEN n + 1 ELSE n

LEMMA TakenStep ==
    ASSUME LineInv, Pins, sreg' = Sampled
    PROVE  /\ clkfall => /\ sending # None /\ IO_PS2CLK = 0 /\ Taken = n /\ sreg' = 0
                         /\ IO_PS2DATA = FrameBit(sending, n)
                         /\ \/ sending' = sending /\ Taken' = n + 1
                            \/ n = 10 /\ sending' = None /\ Taken' = 0
           /\ ~clkfall => \/ sending' = sending /\ Taken' = Taken
                          \/ sending = None /\ sending' \in Code /\ Taken = 0 /\ Taken' = 0
                          \/ sending # None /\ Taken = 11 /\ sending' = None /\ Taken' = 0
           /\ Taken \in 0 .. 11
<1> USE PhaseAssumption
<1>0. LineType /\ sreg \in 0 .. 7 /\ LineInv' /\ MinPhase \in Nat /\ MinPhase >= 2
  <2>1. sreg \in {0, 1, 3, 7} \/ sreg \in {0, 4, 6, 7}
    BY DEF LineInv, LineType
  <2> QED BY <2>1, LineStep DEF LineInv
<1>1. /\ clkfall <=> sreg \in {4, 5}
      /\ IO_PS2CLK = 0 => /\ (sreg = 7 => sreg' = 6) /\ (sreg = 6 => sreg' = 4)
                          /\ (sreg \in {0, 4} => sreg' = 0)
      /\ IO_PS2CLK = 1 /\ sending # None => sreg \in {0, 1, 3, 7}
  BY <1>0, Samples DEF Sampled, LineType, LineInv, clkfall
<1>2. Taken \in 0 .. 11
  BY <1>0 DEF Taken, LineType
<1>3. clkfall => sending # None /\ IO_PS2CLK = 0 /\ sreg = 4 /\ sreg' = 0 /\ Taken = n
                 /\ IO_PS2DATA = FrameBit(sending, n)
  BY <1>0, <1>1 DEF LineInv, LineType, Taken
<1>4. CASE Rest
  <2>1. sending' = sending /\ n' = n /\ IO_PS2CLK' = IO_PS2CLK
    BY <1>4 DEF Rest
  <2>2. CASE sending = None \/ IO_PS2CLK = 1
    <3>1. ~clkfall
      BY <1>3, <1>1, <2>2, <1>0 DEF LineType
    <3> QED BY <1>2, <2>1, <2>2, <3>1 DEF Taken
  <2>3. CASE sending # None /\ IO_PS2CLK = 0
    <3>1. sreg \in {0, 4, 6, 7}
      BY <1>0, <2>3 DEF LineInv, LineType
    <3> QED BY <1>1, <1>2, <1>3, <2>1, <2>3, <3>1 DEF Taken
  <2> QED BY <1>0, <2>2, <2>3 DEF LineType
<1>5. CASE StartBit
  <2>1. sending = None /\ sending' \in Code /\ n' = 0 /\ IO_PS2CLK = 1 /\ IO_PS2CLK' = 1
    BY <1>5 DEF StartBit, LineInv
  <2>2. Taken = 0 /\ Taken' = 0
    BY <2>1 DEF Taken
  <2> QED BY <1>2, <1>3, <2>1, <2>2
<1>6. CASE ClockLow
  <2>1. sending # None /\ IO_PS2CLK = 1 /\ IO_PS2CLK' = 0 /\ sending' = sending /\ n' = n
        /\ age' = 0
    BY <1>6 DEF ClockLow
  <2>2. sreg' = 7
    BY <1>0, <2>1 DEF LineInv
  <2>3. Taken = n /\ Taken' = n
    BY <2>1, <2>2 DEF Taken
  <2> QED BY <1>2, <1>3, <2>1, <2>3
<1>7. CASE ClockHigh
  <2>1. /\ age = MinPhase /\ IO_PS2CLK = 0 /\ IO_PS2CLK' = 1 /\ sending # None
        /\ \/ n < 10 /\ n' = n + 1 /\ sending' = sending
           \/ n = 10 /\ sending' = None
    BY <1>7 DEF ClockHigh, LineInv
  <2>2. sreg \in {0, 4}
    BY <1>0, <2>1 DEF LineInv
  <2>3. ~clkfall => Taken = n + 1
    BY <1>1, <2>1, <2>2 DEF Taken
  <2>4. (sending' = sending /\ Taken' = n + 1) \/ (n = 10 /\ sending' = None /\ Taken' = 0)
    BY <2>1 DEF Taken
  <2> QED BY <1>2, <1>3, <2>1, <2>3, <2>4
<1> QED BY <1>4, <1>5, <1>6, <1>7 DEF Pins

\* The top m bits of sft are the lowest m of the byte.
Gotten(s, b, m) ==
    /\ m = 1 => s \div 128 = b % 2
    /\ m = 2 => s \div 64 = b % 4
    /\ m = 3 => s \div 32 = b % 8
    /\ m = 4 => s \div 16 = b % 16
    /\ m = 5 => s \div 8 = b % 32
    /\ m = 6 => s \div 4 = b % 64
    /\ m = 7 => s \div 2 = b % 128
    /\ m = 8 => s = b

\* sft with the next bit shifted in (ps2.v:145-150).
Into(s, bit) == 128 * bit + s \div 2

LEMMA NextBit ==
    ASSUME NEW s \in 0 .. 255, NEW b \in 0 .. 255
    PROVE  /\ \A bit \in {0, 1} : Into(s, bit) \in 0 .. 255
           /\ Into(s, (b \div 1) % 2) \div 128 = b % 2
           /\ s \div 128 = b % 2 => Into(s, (b \div 2) % 2) \div 64 = b % 4
           /\ s \div 64 = b % 4 => Into(s, (b \div 4) % 2) \div 32 = b % 8
           /\ s \div 32 = b % 8 => Into(s, (b \div 8) % 2) \div 16 = b % 16
           /\ s \div 16 = b % 16 => Into(s, (b \div 16) % 2) \div 8 = b % 32
           /\ s \div 8 = b % 32 => Into(s, (b \div 32) % 2) \div 4 = b % 64
           /\ s \div 4 = b % 64 => Into(s, (b \div 64) % 2) \div 2 = b % 128
           /\ s \div 2 = b % 128 => Into(s, (b \div 128) % 2) = b
<1>1. \A bit \in {0, 1} : Into(s, bit) \in 0 .. 255
  BY DEF Into
<1>2. Into(s, (b \div 1) % 2) \div 128 = b % 2
  BY DEF Into
<1>3. s \div 128 = b % 2 => Into(s, (b \div 2) % 2) \div 64 = b % 4
  BY SMTT(30) DEF Into
<1>4. s \div 64 = b % 4 => Into(s, (b \div 4) % 2) \div 32 = b % 8
  BY SMTT(30) DEF Into
<1>5. s \div 32 = b % 8 => Into(s, (b \div 8) % 2) \div 16 = b % 16
  BY SMTT(30) DEF Into
<1>6. s \div 16 = b % 16 => Into(s, (b \div 16) % 2) \div 8 = b % 32
  BY SMTT(30) DEF Into
<1>7. s \div 8 = b % 32 => Into(s, (b \div 32) % 2) \div 4 = b % 64
  BY SMTT(30) DEF Into
<1>8. s \div 4 = b % 64 => Into(s, (b \div 64) % 2) \div 2 = b % 128
  BY SMTT(30) DEF Into
<1>9. s \div 2 = b % 128 => Into(s, (b \div 128) % 2) = b
  BY SMTT(30) DEF Into
<1> QED BY <1>1, <1>2, <1>3, <1>4, <1>5, <1>6, <1>7, <1>8, <1>9, Zenon

LEMMA ShiftIn ==
    ASSUME NEW s \in 0 .. 255, NEW b \in 0 .. 255, NEW m \in 0 .. 7, Gotten(s, b, m)
    PROVE  /\ Into(s, BitOf(b, m)) \in 0 .. 255
           /\ Gotten(Into(s, BitOf(b, m)), b, m + 1)
<1>0. Into(s, BitOf(b, m)) \in 0 .. 255
  <2>1. BitOf(b, m) \in {0, 1}
    <3>1. 2^m \in {1, 2, 4, 8, 16, 32, 64, 128}
      <4>1. m = 0 \/ m = 1 \/ m = 2 \/ m = 3 \/ m = 4 \/ m = 5 \/ m = 6 \/ m = 7
        OBVIOUS
      <4> QED BY <4>1, BitDivisor, Zenon
    <3>2. \A k \in {1, 2, 4, 8, 16, 32, 64, 128} : (b \div k) % 2 \in {0, 1}
      OBVIOUS
    <3> QED BY <3>1, <3>2, Zenon DEF BitOf
  <2> QED BY <2>1, NextBit
<1>1. CASE m = 0
  <2>1. BitOf(b, m) = (b \div 1) % 2
    BY <1>1, BitDivisor, Zenon DEF BitOf
  <2>3. Into(s, (b \div 1) % 2) \div 128 = b % 2
    BY NextBit
  <2>4. Into(s, BitOf(b, m)) \div 128 = b % 2
    BY <2>1, <2>3, Zenon
  <2> QED BY <1>1, <1>0, <2>4 DEF Gotten
<1>2. CASE m = 1
  <2>1. BitOf(b, m) = (b \div 2) % 2
    BY <1>2, BitDivisor, Zenon DEF BitOf
  <2>2. s \div 128 = b % 2
    BY <1>2 DEF Gotten
  <2>3. Into(s, (b \div 2) % 2) \div 64 = b % 4
    BY <2>2, NextBit
  <2>4. Into(s, BitOf(b, m)) \div 64 = b % 4
    BY <2>1, <2>3, Zenon
  <2> QED BY <1>2, <1>0, <2>4 DEF Gotten
<1>3. CASE m = 2
  <2>1. BitOf(b, m) = (b \div 4) % 2
    BY <1>3, BitDivisor, Zenon DEF BitOf
  <2>2. s \div 64 = b % 4
    BY <1>3 DEF Gotten
  <2>3. Into(s, (b \div 4) % 2) \div 32 = b % 8
    BY <2>2, NextBit
  <2>4. Into(s, BitOf(b, m)) \div 32 = b % 8
    BY <2>1, <2>3, Zenon
  <2> QED BY <1>3, <1>0, <2>4 DEF Gotten
<1>4. CASE m = 3
  <2>1. BitOf(b, m) = (b \div 8) % 2
    BY <1>4, BitDivisor, Zenon DEF BitOf
  <2>2. s \div 32 = b % 8
    BY <1>4 DEF Gotten
  <2>3. Into(s, (b \div 8) % 2) \div 16 = b % 16
    BY <2>2, NextBit
  <2>4. Into(s, BitOf(b, m)) \div 16 = b % 16
    BY <2>1, <2>3, Zenon
  <2> QED BY <1>4, <1>0, <2>4 DEF Gotten
<1>5. CASE m = 4
  <2>1. BitOf(b, m) = (b \div 16) % 2
    BY <1>5, BitDivisor, Zenon DEF BitOf
  <2>2. s \div 16 = b % 16
    BY <1>5 DEF Gotten
  <2>3. Into(s, (b \div 16) % 2) \div 8 = b % 32
    BY <2>2, NextBit
  <2>4. Into(s, BitOf(b, m)) \div 8 = b % 32
    BY <2>1, <2>3, Zenon
  <2> QED BY <1>5, <1>0, <2>4 DEF Gotten
<1>6. CASE m = 5
  <2>1. BitOf(b, m) = (b \div 32) % 2
    BY <1>6, BitDivisor, Zenon DEF BitOf
  <2>2. s \div 8 = b % 32
    BY <1>6 DEF Gotten
  <2>3. Into(s, (b \div 32) % 2) \div 4 = b % 64
    BY <2>2, NextBit
  <2>4. Into(s, BitOf(b, m)) \div 4 = b % 64
    BY <2>1, <2>3, Zenon
  <2> QED BY <1>6, <1>0, <2>4 DEF Gotten
<1>7. CASE m = 6
  <2>1. BitOf(b, m) = (b \div 64) % 2
    BY <1>7, BitDivisor, Zenon DEF BitOf
  <2>2. s \div 4 = b % 64
    BY <1>7 DEF Gotten
  <2>3. Into(s, (b \div 64) % 2) \div 2 = b % 128
    BY <2>2, NextBit
  <2>4. Into(s, BitOf(b, m)) \div 2 = b % 128
    BY <2>1, <2>3, Zenon
  <2> QED BY <1>7, <1>0, <2>4 DEF Gotten
<1>8. CASE m = 7
  <2>1. BitOf(b, m) = (b \div 128) % 2
    BY <1>8, BitDivisor, Zenon DEF BitOf
  <2>2. s \div 2 = b % 128
    BY <1>8 DEF Gotten
  <2>3. Into(s, (b \div 128) % 2) = b
    BY <2>2, NextBit
  <2>4. Into(s, BitOf(b, m)) = b
    BY <2>1, <2>3, Zenon
  <2> QED BY <1>8, <1>0, <2>4 DEF Gotten
<1> QED BY <1>1, <1>2, <1>3, <1>4, <1>5, <1>6, <1>7, <1>8

\* The receiver is where the edges of the frame have brought it.
RecvInv ==
    /\ sft \in 0 .. 255 /\ ps2rdata \in 0 .. 255
    /\ Taken \in {0, 11} => cur = "HALT" /\ bitcnt \in {0, 8}
    /\ Taken \in 1 .. 8 => cur = "GETBIT" /\ bitcnt = Taken - 1
    /\ Taken = 9 => cur = "SETFLG" /\ bitcnt = 8
    /\ Taken = 10 => cur = "WAITCLK" /\ bitcnt = 8
    /\ Taken \in 1 .. 9 => Gotten(sft, sending, Taken - 1)

LEMMA RecvStep ==
    ASSUME LineInv, RecvInv, Pins, Receive
    PROVE  /\ RecvInv'
           /\ cur = "SETFLG" /\ clkfall <=> Taken = 9 /\ clkfall
           /\ Taken = 9 /\ clkfall => ps2rdata' = sending
           /\ ~(cur = "SETFLG" /\ clkfall) => ps2rdata' = ps2rdata
<1>0. /\ sreg' = Sampled /\ LineType /\ Taken \in 0 .. 11
      /\ cur' = nxt
      /\ bitcnt' = IF cur = "HALT" THEN 0
                   ELSE IF cur = "GETBIT" /\ clkfall THEN (bitcnt + 1) % 16 ELSE bitcnt
      /\ sft' = IF cur = "GETBIT" /\ clkfall THEN 128 * IO_PS2DATA + sft \div 2 ELSE sft
      /\ ps2rdata' = IF cur = "SETFLG" /\ clkfall THEN sft ELSE ps2rdata
  BY TakenStep DEF Receive, LineInv
<1>1. cur = "SETFLG" /\ clkfall <=> Taken = 9 /\ clkfall
  <2>1. Taken \in {0, 11} \/ Taken \in 1 .. 8 \/ Taken = 9 \/ Taken = 10
    BY <1>0
  <2>2. cur = "SETFLG" <=> Taken = 9
    BY <2>1 DEF RecvInv
  <2> QED BY <2>2
<1>2. Taken = 9 => sft = sending
  BY DEF RecvInv, Gotten
<1>3. ps2rdata' \in 0 .. 255
  BY <1>0 DEF RecvInv
<1>4. CASE ~clkfall
  <2>1. cur' = cur /\ sft' = sft /\ bitcnt' = IF cur = "HALT" THEN 0 ELSE bitcnt
    BY <1>0, <1>4 DEF nxt
  <2>2. (sending' = sending /\ Taken' = Taken) \/ (Taken \in {0, 11} /\ Taken' = 0)
    BY <1>0, <1>4, TakenStep
  <2>3. RecvInv'
    <3>1. CASE sending' = sending /\ Taken' = Taken
      BY <1>0, <1>3, <2>1, <3>1 DEF RecvInv
    <3>2. CASE Taken \in {0, 11} /\ Taken' = 0
      BY <1>0, <1>3, <2>1, <3>2 DEF RecvInv
    <3> QED BY <2>2, <3>1, <3>2
  <2> QED BY <1>0, <1>4, <2>3
<1>5. CASE clkfall
  <2>1. /\ Taken = n /\ n \in 0 .. 10 /\ sending \in Code /\ IO_PS2DATA = FrameBit(sending, n)
        /\ \/ sending' = sending /\ Taken' = n + 1
           \/ n = 10 /\ sending' = None /\ Taken' = 0
    BY <1>0, <1>5, TakenStep DEF LineType
  <2>2. CASE n = 0
    <3>1. cur' = "GETBIT" /\ bitcnt' = 0 /\ sft' = sft
      BY <1>0, <1>5, <2>1, <2>2 DEF RecvInv, nxt, FrameBit
    <3>2. Taken' = 1
      BY <2>1, <2>2
    <3>3. RecvInv'
      BY <1>3, <3>1, <3>2 DEF RecvInv, Gotten
    <3> QED BY <1>0, <1>1, <1>2, <1>5, <3>3
  <2>3. CASE n \in 1 .. 8
    <3>1. cur = "GETBIT" /\ bitcnt = n - 1 /\ Gotten(sft, sending, n - 1) /\ n - 1 \in 0 .. 7
      BY <2>1, <2>3 DEF RecvInv
    <3>2. /\ sft' = Into(sft, BitOf(sending, n - 1)) /\ bitcnt' = n
          /\ cur' = IF n = 8 THEN "SETFLG" ELSE "GETBIT"
      <4>1. IO_PS2DATA = BitOf(sending, n - 1)
        BY <2>1, <2>3 DEF FrameBit
      <4>2. (n - 1 + 1) % 16 = n /\ (n - 1 = 7 <=> n = 8)
        BY <2>3
      <4> QED BY <1>0, <1>5, <3>1, <4>1, <4>2 DEF nxt, LastBit, Into
    <3>3. sft' \in 0 .. 255 /\ Gotten(sft', sending, n)
      <4>1. n - 1 + 1 = n /\ sending \in 0 .. 255 /\ sft \in 0 .. 255
        BY <2>1, <2>3, CodeAssumption DEF RecvInv
      <4> QED BY <3>1, <3>2, <4>1, ShiftIn, Zenon
    <3>4. Taken' = n + 1 /\ sending' = sending
      BY <2>1, <2>3
    <3>5. RecvInv'
      BY <1>3, <2>3, <3>2, <3>3, <3>4 DEF RecvInv
    <3> QED BY <1>0, <1>1, <1>2, <1>5, <3>5
  <2>4. CASE n = 9
    <3>1. cur' = "WAITCLK" /\ bitcnt' = 8 /\ sft' = sft /\ Taken' = 10
      BY <1>0, <1>5, <2>1, <2>4 DEF RecvInv, nxt
    <3>2. RecvInv'
      BY <1>3, <3>1 DEF RecvInv
    <3> QED BY <1>0, <1>1, <1>2, <1>5, <3>2
  <2>5. CASE n = 10
    <3>1. cur' = "HALT" /\ bitcnt' = 8 /\ sft' = sft /\ Taken' \in {0, 11}
      BY <1>0, <1>5, <2>1, <2>5 DEF RecvInv, nxt
    <3>2. RecvInv'
      BY <1>3, <3>1 DEF RecvInv
    <3> QED BY <1>0, <1>1, <1>2, <1>5, <3>2
  <2> QED BY <2>1, <2>2, <2>3, <2>4, <2>5
<1> QED BY <1>4, <1>5

-----------------------------------------------------------------------------
(* The poller, and the hand-over. *)

\* Soon after the edge of the parity bit; the poller is through before the next one.
Late(a) == /\ sending # None
           /\ (IO_PS2CLK = 0 /\ n = 9 /\ sreg = 0) \/ (IO_PS2CLK = 1 /\ n = 10 /\ age <= a)

Waiting == /\ r_ps2_state = 0 /\ r_ps2_addr = "STATUS" /\ r_ps2_data_en = 0
           /\ r_ps2_write_en = 0 /\ valid = 0
           /\ owed = IF sending # None /\ Taken <= 9 THEN sending ELSE None

Flagged == /\ r_ps2_state = 0 /\ r_ps2_addr = "STATUS" /\ r_ps2_data_en = 0
           /\ r_ps2_write_en = 0 /\ valid = 1
           /\ owed = sending /\ ps2rdata = sending /\ Late(0)

Reading == /\ r_ps2_state = 1 /\ r_ps2_addr = "READ" /\ r_ps2_data_en = 1
           /\ r_ps2_write_en = 0 /\ valid = 1
           /\ owed = None /\ Late(1)

Clearing == /\ r_ps2_state = 2 /\ r_ps2_addr = "STATUS" /\ r_ps2_data_en = 0
            /\ r_ps2_write_en = 1 /\ valid = 1
            /\ owed = None /\ Late(2)

PollInv == Waiting \/ Flagged \/ Reading \/ Clearing

LEMMA LateStep ==
    ASSUME LineInv, Pins, sreg' = Sampled, NEW a \in {0, 1, 2}, Late(a)
    PROVE  /\ Taken = 10 /\ ~clkfall /\ sending # None
           /\ sending' = sending /\ Taken' = 10
           /\ a # 2 => Late(a + 1)'
<1> USE PhaseAssumption
<1>0. LineType /\ sreg \in 0 .. 7 /\ LineInv' /\ MinPhase \in Nat /\ MinPhase >= 2
  <2>1. sreg \in {0, 1, 3, 7} \/ sreg \in {0, 4, 6, 7}
    BY DEF LineInv, LineType
  <2> QED BY <2>1, LineStep DEF LineInv
<1>1. Taken = 10 /\ sending # None
  BY <1>0 DEF Late, Taken, LineType
<1>2. ~clkfall
  <2>1. sreg \in {0, 1, 3, 7}
    BY DEF Late, LineInv
  <2> QED BY <1>0, <2>1, Samples DEF clkfall, LineType
<1>3. sending' = sending /\ Taken' = 10
  BY <1>1, <1>2, TakenStep
<1>4. ASSUME a # 2 PROVE Late(a + 1)'
  <2>1. CASE IO_PS2CLK = 0
    <3>1. n = 9 /\ sreg = 0 /\ sreg' = 0
      BY <1>0, <2>1, Samples DEF Late, Sampled, LineType
    <3>2. ~StartBit /\ ~ClockLow
      BY <1>1, <2>1 DEF StartBit, ClockLow
    <3>3. CASE Rest
      BY <1>1, <1>3, <2>1, <3>1, <3>3 DEF Rest, Late
    <3>4. CASE ClockHigh
      BY <1>1, <1>3, <2>1, <3>1, <3>4 DEF ClockHigh, Late
    <3> QED BY <3>2, <3>3, <3>4 DEF Pins
  <2>2. CASE IO_PS2CLK = 1
    <3>1. n = 10 /\ age <= a /\ age < MinPhase
      BY <1>0, <1>4, <2>2 DEF Late, LineType
    <3>2. ~StartBit /\ ~ClockLow /\ ~ClockHigh
      BY <1>0, <1>1, <2>2, <3>1 DEF StartBit, ClockLow, ClockHigh, LineType
    <3>3. IO_PS2CLK' = 1 /\ n' = 10 /\ age' = age + 1
      BY <2>2, <3>1, <3>2 DEF Pins, Rest
    <3> QED BY <1>0, <1>1, <1>3, <3>1, <3>3 DEF Late, LineType
  <2> QED BY <1>0, <2>1, <2>2 DEF LineType
<1> QED BY <1>1, <1>2, <1>3, <1>4

\* The edge of the parity bit.
LEMMA LateStarts ==
    ASSUME LineInv, Pins, sreg' = Sampled, clkfall, Taken = 9
    PROVE  Late(0)' /\ sending' = sending /\ sending # None
<1>1. /\ sending # None /\ IO_PS2CLK = 0 /\ n = 9 /\ sreg' = 0 /\ sending' = sending
  BY TakenStep
<1>2. ~StartBit /\ ~ClockLow
  BY <1>1 DEF StartBit, ClockLow
<1>3. CASE Rest
  BY <1>1, <1>3 DEF Rest, Late
<1>4. CASE ClockHigh
  BY <1>1, <1>4 DEF ClockHigh, Late
<1> QED BY <1>2, <1>3, <1>4 DEF Pins

\* The byte on the bus of the keyboard controller.
Handed == IF r_ps2_data_en = 1 THEN w_ps2_data ELSE None

LEMMA LinkSteps ==
    /\ Handed' = None /\ owed' = owed => Link!Next
    /\ owed = None /\ owed' \in Code /\ Handed' = None => Link!Next
    /\ owed # None /\ Handed' = owed /\ owed' = None => Link!Next
    /\ owed' = None /\ Handed' = None => Link!Next
  BY DEF Link!Next, Link!Quiet, Link!Begin, Link!HandOver, Link!Reset, Handed

LEMMA WaitingStep ==
    ASSUME LineInv, RecvInv, Waiting, Clock
    PROVE  PollInv' /\ Link!Next
<1>0. /\ Pins /\ Receive /\ sreg' = Sampled /\ LineType
      /\ owed' = IF sending = None /\ sending' # None THEN sending'
                 ELSE IF r_ps2_data_en' = 1 THEN None ELSE owed
  BY DEF Clock, Receive, Owe, LineInv
<1>1. /\ r_ps2_state' = 0 /\ r_ps2_addr' = "STATUS" /\ r_ps2_data_en' = 0 /\ r_ps2_write_en' = 0
  <2>1. w_ps2_data % 2 = 0
    BY DEF Waiting, w_ps2_data
  <2> QED BY <2>1 DEF Clock, Poll, Waiting, WriteEn, KeepsValid
<1>2. valid' = IF Taken = 9 /\ clkfall THEN 1 ELSE 0
  BY <1>0, RecvStep DEF Receive, Waiting, ClearsValid
<1>3. Handed' = None
  BY <1>1 DEF Handed
<1>4. Taken \in 0 .. 11
  BY <1>0, TakenStep
<1>5. CASE Taken = 9 /\ clkfall
  <2>1. Late(0)' /\ sending' = sending /\ sending # None /\ ps2rdata' = sending
    BY <1>0, <1>5, LateStarts, RecvStep
  <2>2. owed = sending /\ owed' = sending
    BY <1>0, <1>1, <1>5, <2>1 DEF Waiting
  <2>3. Flagged'
    BY <1>1, <1>2, <1>5, <2>1, <2>2 DEF Flagged
  <2> QED BY <1>3, <2>2, <2>3, LinkSteps DEF PollInv
<1>6. CASE ~(Taken = 9 /\ clkfall)
  <2>1. CASE sending = None /\ sending' # None
    <3>1. ~clkfall /\ sending' \in Code /\ Taken' = 0
      BY <1>0, <2>1, TakenStep
    <3>2. owed = None /\ owed' = sending'
      BY <1>0, <2>1 DEF Waiting
    <3>3. Waiting'
      BY <1>1, <1>2, <1>6, <2>1, <3>1, <3>2 DEF Waiting
    <3> QED BY <1>3, <3>1, <3>2, <3>3, LinkSteps DEF PollInv
  <2>2. CASE ~(sending = None /\ sending' # None)
    <3>1. owed' = owed
      BY <1>0, <1>1, <2>2
    <3>2. (sending' # None /\ Taken' <= 9 <=> sending # None /\ Taken <= 9)
          /\ (sending' # None => sending' = sending)
      <4>1. CASE clkfall
        BY <1>0, <1>4, <1>6, <4>1, TakenStep DEF LineType
      <4>2. CASE ~clkfall
        BY <1>0, <1>4, <2>2, <4>2, TakenStep
      <4> QED BY <4>1, <4>2
    <3>3. owed' = IF sending' # None /\ Taken' <= 9 THEN sending' ELSE None
      BY <3>1, <3>2 DEF Waiting
    <3>4. Waiting'
      BY <1>1, <1>2, <1>6, <3>3 DEF Waiting
    <3> QED BY <1>3, <3>1, <3>4, LinkSteps DEF PollInv
  <2> QED BY <2>1, <2>2
<1> QED BY <1>5, <1>6

LEMMA HandOverStep ==
    ASSUME LineInv, RecvInv, Flagged \/ Reading \/ Clearing, Clock
    PROVE  PollInv' /\ Link!Next
<1>0. /\ Pins /\ Receive /\ sreg' = Sampled
      /\ owed' = IF sending = None /\ sending' # None THEN sending'
                 ELSE IF r_ps2_data_en' = 1 THEN None ELSE owed
  BY DEF Clock, Receive, Owe
<1>1. Late(0) \/ Late(1) \/ Late(2)
  BY DEF Flagged, Reading, Clearing
<1>2. /\ ~clkfall /\ sending # None /\ sending' = sending /\ Taken' = 10
      /\ (Late(0) => Late(1)') /\ (Late(1) => Late(2)')
  <2>1. \A a \in {0, 1, 2} : Late(a) =>
            /\ ~clkfall /\ sending # None /\ sending' = sending /\ Taken' = 10
            /\ a # 2 => Late(a + 1)'
    BY <1>0, LateStep
  <2> QED BY <1>1, <2>1
<1>3. ps2rdata' = ps2rdata /\ valid' = IF ClearsValid THEN 0 ELSE valid
  BY <1>0, <1>2, RecvStep DEF Receive
<1>4. owed' = IF r_ps2_data_en' = 1 THEN None ELSE owed
  BY <1>0, <1>2
<1>5. CASE Flagged
  <2>1. /\ r_ps2_addr' = "READ" /\ r_ps2_data_en' = 1 /\ r_ps2_state' = 1 /\ r_ps2_write_en' = 0
    <3>1. w_ps2_data % 2 = 1
      BY <1>5 DEF Flagged, w_ps2_data
    <3> QED BY <1>5, <3>1 DEF Clock, Poll, Flagged, WriteEn, KeepsValid
  <2>2. valid' = 1 /\ owed' = None /\ Late(1)'
    BY <1>2, <1>3, <1>4, <1>5, <2>1 DEF Flagged, ClearsValid
  <2>3. Handed' = owed /\ owed # None
    BY <1>2, <1>3, <1>5, <2>1 DEF Handed, w_ps2_data, Flagged
  <2> QED BY <2>1, <2>2, <2>3, LinkSteps DEF PollInv, Reading
<1>6. CASE Reading
  <2>1. /\ r_ps2_addr' = "STATUS" /\ r_ps2_data_en' = 0 /\ r_ps2_state' = 2 /\ r_ps2_write_en' = 1
    BY <1>6 DEF Clock, Poll, Reading, WriteEn
  <2>2. valid' = 1 /\ owed' = None /\ owed = None /\ Late(2)'
    BY <1>2, <1>3, <1>4, <1>6, <2>1 DEF Reading, ClearsValid
  <2>3. Handed' = None
    BY <2>1 DEF Handed
  <2> QED BY <2>1, <2>2, <2>3, LinkSteps DEF PollInv, Clearing
<1>7. CASE Clearing
  <2>1. /\ r_ps2_addr' = "STATUS" /\ r_ps2_data_en' = 0 /\ r_ps2_state' = 0 /\ r_ps2_write_en' = 0
    BY <1>7 DEF Clock, Poll, Clearing, WriteEn, KeepsValid
  <2>2. valid' = 0 /\ owed' = None /\ owed = None
    BY <1>3, <1>4, <1>7, <2>1 DEF Clearing, ClearsValid
  <2>3. Waiting'
    BY <1>2, <2>1, <2>2 DEF Waiting
  <2>4. Handed' = None
    BY <2>1 DEF Handed
  <2> QED BY <2>2, <2>3, <2>4, LinkSteps DEF PollInv
<1> QED BY <1>5, <1>6, <1>7

-----------------------------------------------------------------------------
(* The theorems. *)

Ps2Inv == LineInv /\ RecvInv /\ PollInv

LEMMA Ps2Init == Init => Ps2Inv /\ Link!Init
<1> SUFFICES ASSUME Init PROVE Ps2Inv /\ Link!Init
  OBVIOUS
<1>1. MinPhase \in Nat /\ Taken = 0
  BY PhaseAssumption DEF Init, Taken
<1>2. LineInv /\ RecvInv /\ Waiting
  BY <1>1 DEF Init, LineInv, LineType, RecvInv, Waiting
<1>3. Link!Init
  BY DEF Init, Link!Init
<1> QED BY <1>2, <1>3 DEF Ps2Inv, PollInv

LEMMA Ps2Step == Ps2Inv /\ [Next]_vars => Ps2Inv' /\ [Link!Next]_<<owed, Handed>>
<1> SUFFICES ASSUME Ps2Inv, [Next]_vars PROVE Ps2Inv' /\ [Link!Next]_<<owed, Handed>>
  OBVIOUS
<1>1. CASE Clock
  <2>1. LineInv' /\ RecvInv'
    BY <1>1, LineStep, RecvStep DEF Ps2Inv, Clock, Receive
  <2>2. PollInv' /\ Link!Next
    BY <1>1, WaitingStep, HandOverStep DEF Ps2Inv, PollInv
  <2> QED BY <2>1, <2>2 DEF Ps2Inv
<1>2. CASE Reset
  <2>1. /\ sending' = sending /\ n' = n /\ age' = age /\ IO_PS2CLK' = IO_PS2CLK
        /\ IO_PS2DATA' = IO_PS2DATA /\ sreg' = 0 /\ sending = None
    BY <1>2 DEF Reset, line, Idle
  <2>2. LineInv' /\ Taken' = 0
    BY <2>1 DEF Ps2Inv, LineInv, LineType, Taken
  <2>3. RecvInv' /\ Waiting'
    BY <1>2, <2>1, <2>2 DEF Reset, RecvInv, Waiting
  <2>4. owed' = None /\ Handed' = None
    BY <1>2 DEF Reset, Handed
  <2> QED BY <2>2, <2>3, <2>4, LinkSteps DEF Ps2Inv, PollInv
<1>3. CASE UNCHANGED vars
  <2>1. UNCHANGED line /\ UNCHANGED receiver /\ UNCHANGED poller /\ owed' = owed
    BY <1>3 DEF vars
  <2>2. Taken' = Taken /\ LineInv'
    BY <2>1 DEF line, receiver, Taken, Ps2Inv, LineInv, LineType
  <2>3. RecvInv'
    BY <2>1, <2>2 DEF line, receiver, Ps2Inv, RecvInv
  <2>4. PollInv' /\ Handed' = Handed
    BY <2>1, <2>2 DEF line, receiver, poller, Ps2Inv, PollInv, Waiting, Flagged, Reading,
                      Clearing, Late, Handed, w_ps2_data
  <2> QED BY <2>1, <2>2, <2>3, <2>4 DEF Ps2Inv
<1> QED BY <1>1, <1>2, <1>3 DEF Next

LEMMA Ps2InvHolds == Spec => []Ps2Inv
  BY Ps2Init, Ps2Step, PTL DEF Spec

\* For every set of bytes and every clock of the keyboard: each byte is handed to the
\* keyboard controller once, unchanged, in one clock, before the next begins
\* (ps2.v:109-202, keyborad.v:134-160).
THEOREM HandsOverCorrect == Spec => HandsOver
  BY Ps2Init, Ps2Step, PTL DEF Spec, HandsOver, Link!Spec, Handed

\* Between two frames the receiver is back in HALT with nothing left to hand over, however
\* long the phases (ps2.v:109-163).
THEOREM InStepCorrect == Spec => []InStep
<1>1. Ps2Inv => InStep
  <2> SUFFICES ASSUME Ps2Inv, sending = None
               PROVE  cur = "HALT" /\ bitcnt \in {0, 8} /\ valid = 0 /\ owed = None
    BY DEF InStep, Idle
  <2>1. Taken = 0 /\ ~Late(0) /\ ~Late(1) /\ ~Late(2)
    BY DEF Taken, Late
  <2> QED BY <2>1 DEF Ps2Inv, RecvInv, PollInv, Waiting, Flagged, Reading, Clearing
<1> QED BY <1>1, Ps2InvHolds, PTL
=============================================================================
