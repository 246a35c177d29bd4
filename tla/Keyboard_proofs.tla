--------------------------- MODULE Keyboard_proofs ---------------------------
(***************************************************************************)
(* Proofs about Keyboard, for every keyboard, key map, order of reading    *)
(* and length of a machine cycle.  The last one needs the history that     *)
(* MCKeyboard adds, not its key map nor its rows.                          *)
(***************************************************************************)
EXTENDS MCKeyboard, TLAPS

-----------------------------------------------------------------------------
(* The key map and the bytes of an event. *)

LEMMA MapPlaces ==
    \A k \in Mapped : KeyMap[k] \in Place /\ k \in Keys \ Modifier
  <1> SUFFICES ASSUME NEW k \in Mapped
               PROVE  KeyMap[k] \in Place /\ k \in Keys \ Modifier
    OBVIOUS
  <1>1. k \in Keys \ Modifier /\ Hits(k) = {KeyMap[k]}
    BY MapAssumption DEF Mapped
  <1>2. Hits(k) \subseteq Place
    BY DEF Hits
  <1> QED BY <1>1, <1>2

LEMMA ShortSequences ==
    ASSUME NEW S, NEW a \in S, NEW b \in S, NEW c \in S
    PROVE  /\ <<a>> \in Seq(S) /\ Len(<<a>>) = 1
           /\ <<a, b>> \in Seq(S) /\ Len(<<a, b>>) = 2
           /\ <<a, b, c>> \in Seq(S) /\ Len(<<a, b, c>>) = 3
  <1>1. <<a>> \in Seq(S) /\ Len(<<a>>) = 1
    OBVIOUS
  <1>2. <<a, b>> \in Seq(S) /\ Len(<<a, b>>) = 2
    OBVIOUS
  <1>3. <<a, b, c>> \in Seq(S) /\ Len(<<a, b, c>>) = 3
    OBVIOUS
  <1> QED BY <1>1, <1>2, <1>3

LEMMA EventBytes ==
    ASSUME NEW k \in Keys
    PROVE  /\ Make(k) \in Seq(Code) /\ Len(Make(k)) \in 1 .. 2
           /\ Break(k) \in Seq(Code) /\ Len(Break(k)) \in 2 .. 3
  <1>1. k \in Code /\ E0 \in Code /\ BREAK \in Code
    BY DEF Code
  <1>2. Make(k) = <<E0, k>> \/ Make(k) = <<k>>
    BY DEF Make
  <1>3. Break(k) = <<E0, BREAK, k>> \/ Break(k) = <<BREAK, k>>
    BY DEF Break
  <1>4. /\ <<k>> \in Seq(Code) /\ Len(<<k>>) = 1
        /\ <<E0, k>> \in Seq(Code) /\ Len(<<E0, k>>) = 2
        /\ <<BREAK, k>> \in Seq(Code) /\ Len(<<BREAK, k>>) = 2
        /\ <<E0, BREAK, k>> \in Seq(Code) /\ Len(<<E0, BREAK, k>>) = 3
    BY <1>1, ShortSequences
  <1>5. Make(k) \in Seq(Code) /\ Len(Make(k)) \in 1 .. 2
    <2>1. Make(k) \in Seq(Code) /\ Len(Make(k)) \in {1, 2}
      BY <1>2, <1>4, Zenon
    <2> QED BY <2>1
  <1>6. Break(k) \in Seq(Code) /\ Len(Break(k)) \in 2 .. 3
    <2>1. Break(k) \in Seq(Code) /\ Len(Break(k)) \in {2, 3}
      BY <1>3, <1>4, Zenon
    <2> QED BY <2>1
  <1> QED BY <1>5, <1>6

LEMMA TailShorter ==
    ASSUME NEW s \in Seq(Code), s # <<>>
    PROVE  /\ Tail(s) \in Seq(Code) /\ Len(Tail(s)) = Len(s) - 1
           /\ Head(s) \in Code
  OBVIOUS

-----------------------------------------------------------------------------
(* Types. *)

LEMMA TypeInit == Init => TypeOK
  <1> SUFFICES ASSUME Init PROVE TypeOK
    OBVIOUS
  <1> USE KeyAssumption, BusAssumption
  <1>1. row \in 1 .. Len(Scan) /\ cyc \in 0 .. BusClocks - 1
    BY DEF Init
  <1>2. pending \in Seq(Code) /\ Len(pending) <= 3
    BY DEF Init
  <1>3. during \subseteq (SUBSET Modifier) \X (Mapped \cup {None})
    BY DEF Init
  <1>4. owed = None /\ code = None
    BY DEF Init, Link!Init
  <1>5. iorq_sreg \in 0 .. 3 /\ r_kb_scan_cnt \in 0 .. 13 /\ r_kb_addr \in 1 .. 9 \cup {15}
    BY DEF Init
  <1>6. /\ input_data \in Bits /\ r_kb_data \in Bits /\ O_KB_DATA \in Bits
        /\ down \subseteq Keys /\ known \subseteq Keys /\ r_kb_held \subseteq Modifier
        /\ key \in Mapped \cup {None}
    BY DEF Init, Bits
  <1> QED BY <1>1, <1>2, <1>3, <1>4, <1>5, <1>6, Zenon DEF Init, TypeOK

LEMMA TypeBus ==
    ASSUME TypeOK, Z80Bus
    PROVE  /\ row' \in 1 .. Len(Scan) /\ I_CPU_IORQ' \in BOOLEAN
           /\ cyc' \in 0 .. BusClocks - 1 /\ input_data' \in Bits
  <1>1. cyc' \in 0 .. BusClocks - 1 /\ row' \in 1 .. Len(Scan)
    BY BusAssumption DEF TypeOK, Z80Bus
  <1>2. I_CPU_IORQ' \in BOOLEAN
    BY Zenon DEF TypeOK, Z80Bus
  <1>3. input_data' \in Bits
    BY DEF TypeOK, Z80Bus
  <1> QED BY <1>1, <1>2, <1>3

LEMMA TypePs2 ==
    ASSUME TypeOK, Ps2Keyboard
    PROVE  /\ down' \subseteq Keys /\ known' \subseteq Keys
           /\ pending' \in Seq(Code) /\ Len(pending') <= 3
           /\ owed' \in Code \cup {None} /\ code' \in Code \cup {None}
  <1>1. CASE Hand
    <2>1. PICK k \in Keys : Press(k) \/ Repeat(k) \/ Release(k)
      BY <1>1 DEF Hand
    <2>2. down' \subseteq Keys /\ known' \subseteq Keys
      BY <2>1 DEF TypeOK, Press, Repeat, Release
    <2>3. pending' = Make(k) \/ pending' = Break(k)
      BY <2>1 DEF Press, Repeat, Release
    <2>4. pending' \in Seq(Code) /\ Len(pending') \in 1 .. 3
      <3>1. Len(Make(k)) \in 1 .. 3 /\ Make(k) \in Seq(Code)
        BY EventBytes
      <3>2. Len(Break(k)) \in 1 .. 3 /\ Break(k) \in Seq(Code)
        BY EventBytes
      <3> QED BY <2>3, <3>1, <3>2
    <2>5. owed' = owed /\ code' = None
      BY <1>1 DEF Hand, Link!Quiet
    <2>6. owed' \in Code \cup {None} /\ code' \in Code \cup {None}
      BY <2>5 DEF TypeOK
    <2>7. Len(pending') <= 3
      <3>1. \A m \in 1 .. 3 : m <= 3
        OBVIOUS
      <3> QED BY <2>4, <3>1, Zenon
    <2> QED BY <2>2, <2>4, <2>6, <2>7, Zenon
  <1>2. CASE Send
    <2>1. pending' \in Seq(Code) /\ Len(pending') <= 3 /\ owed' \in Code
      BY <1>2, TailShorter DEF Send, TypeOK
    <2>2. code' = None
      BY <1>2 DEF Send, Link!Begin
    <2> QED BY <1>2, <2>1, <2>2 DEF TypeOK, Send
  <1>3. CASE Receive
    BY <1>3 DEF Receive, TypeOK, Link!HandOver, Link!Quiet
  <1> QED BY <1>1, <1>2, <1>3 DEF Ps2Keyboard

LEMMA TypeMatrix ==
    ASSUME TypeOK, Keymatrix
    PROVE  /\ r_kb_addr' \in 1 .. 9 \cup {15} /\ r_kb_data' \in Bits
           /\ r_kb_status' \in BOOLEAN /\ r_kb_data_en' \in BOOLEAN
           /\ r_kb_scan_cnt' \in 0 .. 13
           /\ r_kb_break' \in BOOLEAN /\ r_kb_held' \subseteq Modifier
  <1> USE DEF TypeOK, matrix, modif
  <1>1. CASE BreakPrefix
    BY <1>1, Zenon DEF BreakPrefix
  <1>2. CASE KeyUp
    BY <1>2, Zenon DEF KeyUp, Released
  <1>3. CASE ModifierDown
    BY <1>3, Zenon DEF ModifierDown
  <1>4. CASE InvalidCode
    BY <1>4, Zenon DEF InvalidCode
  <1>5. CASE KeyDown
    <2>1. KeyMap[code] \in Place
      BY <1>5, MapPlaces DEF KeyDown
    <2>2. /\ KeyMap[code].addr \in 1 .. 9 /\ KeyMap[code].bit \in 0 .. 7
          /\ KeyMap[code].shift \in BOOLEAN
      BY <2>1, Zenon DEF Place
    <2>3. r_kb_data' \in Bits /\ r_kb_addr' \in 1 .. 9 \cup {15}
      BY <1>5, <2>2 DEF KeyDown, Bits
    <2> QED BY <1>5, <2>2, <2>3, Zenon DEF KeyDown, Enabled
  <1>6. CASE Withdraw
    <2>1. r_kb_scan_cnt' \in 0 .. 13 /\ r_kb_data' \in Bits /\ r_kb_addr' \in 1 .. 9 \cup {15}
      BY <1>6 DEF Withdraw, ClearedCount, Bits
    <2> QED BY <1>6, <2>1, Zenon DEF Withdraw, ClearedStatus
  <1>7. CASE CountRead
    <2>1. r_kb_scan_cnt' \in 0 .. 13
      BY <1>7 DEF CountRead, LastRead
    <2> QED BY <1>7, <2>1, Zenon DEF CountRead
  <1>8. CASE NoRead
    BY <1>8, Zenon DEF NoRead
  <1> QED BY <1>1, <1>2, <1>3, <1>4, <1>5, <1>6, <1>7, <1>8 DEF Keymatrix, Decode

LEMMA TypeHistory ==
    ASSUME TypeOK, r_kb_held' \subseteq Modifier, Remember
    PROVE  /\ key' \in Mapped \cup {None} /\ counted' \in BOOLEAN
           /\ whole' \in BOOLEAN /\ seen' \in BOOLEAN
           /\ during' \subseteq (SUBSET Modifier) \X (Mapped \cup {None})
  <1>1. key' \in Mapped \cup {None}
    <2>1. KeyDown => code \in Mapped
      BY DEF KeyDown
    <2> QED BY <2>1, Zenon DEF Remember, TypeOK
  <1>2. counted' \in BOOLEAN
    BY Zenon DEF Remember, TypeOK
  <1>3. whole' \in BOOLEAN
    BY Zenon DEF Remember, TypeOK
  <1>4. seen' \in BOOLEAN
    BY Zenon DEF Remember, TypeOK
  <1>5. <<r_kb_held', key'>> \in (SUBSET Modifier) \X (Mapped \cup {None})
    BY <1>1
  <1>6. during' \subseteq (SUBSET Modifier) \X (Mapped \cup {None})
    BY <1>5 DEF Remember, TypeOK
  <1> QED BY <1>1, <1>2, <1>3, <1>4, <1>6

LEMMA TypeOutput ==
    ASSUME TypeOK, Output
    PROVE  O_KB_DATA' \in Bits
  BY DEF TypeOK, Output, w_out_kb_data, Bits

LEMMA TypeReset ==
    ASSUME TypeOK, Reset
    PROVE  TypeOK'
  <1>1. row' \in 1 .. Len(Scan) /\ cyc' \in 0 .. BusClocks - 1
    BY BusAssumption DEF Reset
  <1>2. /\ input_data' \in Bits /\ down' \subseteq Keys
        /\ pending' \in Seq(Code) /\ Len(pending') <= 3
    BY Zenon DEF Reset, TypeOK
  <1>3. owed' = None /\ code' = None
    BY DEF Reset, Link!Reset
  <1>4. iorq_sreg' \in 0 .. 3 /\ r_kb_scan_cnt' \in 0 .. 13 /\ r_kb_addr' \in 1 .. 9 \cup {15}
    BY DEF Reset
  <1>5. /\ r_kb_data' \in Bits /\ O_KB_DATA' \in Bits /\ known' \subseteq Keys
        /\ r_kb_held' \subseteq Modifier /\ key' \in Mapped \cup {None}
    BY DEF Reset, Bits
  <1>6. during' \subseteq (SUBSET Modifier) \X (Mapped \cup {None})
    BY DEF Reset
  <1> QED BY <1>1, <1>2, <1>3, <1>4, <1>5, <1>6, Zenon DEF Reset, TypeOK

LEMMA TypeClock ==
    ASSUME TypeOK, Clock
    PROVE  TypeOK'
  <1>1. Z80Bus /\ Ps2Keyboard /\ Keymatrix /\ Output /\ Edge /\ Remember
    BY Zenon DEF Clock
  <1>2. iorq_sreg' \in 0 .. 3
    BY <1>1 DEF Edge, TypeOK
  <1>3. r_kb_held' \subseteq Modifier
    BY <1>1, TypeMatrix, Zenon
  <1> QED BY <1>1, <1>2, <1>3, TypeBus, TypePs2, TypeMatrix, TypeHistory, TypeOutput, Zenon
          DEF TypeOK

LEMMA TypeStep == TypeOK /\ [Next]_vars => TypeOK'
  <1>1. ASSUME TypeOK, UNCHANGED vars PROVE TypeOK'
    BY <1>1, Zenon DEF TypeOK, vars, bus, ps2, matrix, modif, history
  <1> QED BY <1>1, TypeClock, TypeReset, Zenon DEF Next

\* Every register stays within its width, whatever is typed and read.
THEOREM TypeCorrect == Spec => []TypeOK
  BY TypeInit, TypeStep, PTL DEF Spec

-----------------------------------------------------------------------------
(* Codes are told apart. *)

LEMMA Codes ==
    /\ BREAK \notin Modifier /\ E0 \notin Modifier /\ E0 # BREAK
    /\ BREAK # None /\ E0 # None
    /\ \A k \in Keys : k # None /\ k # BREAK /\ k # E0
    /\ Mapped \subseteq Keys \ Modifier
    /\ \A m \in Modifier : m # None /\ m \in Nat
  <1>1. \A k \in Keys : k # None /\ k # BREAK /\ k # E0
    BY KeyAssumption DEF BREAK, E0
  <1>2. Mapped \subseteq Keys \ Modifier
    BY MapPlaces
  <1> QED BY <1>1, <1>2, KeyAssumption
          DEF BREAK, E0, Modifier, LEFT_SHIFT, KANA, CTRL, GRAPH

-----------------------------------------------------------------------------
(* The presentation of a key. *)

LEMMA PresentedInit == Init => Presented
  BY DEF Init, Presented

LEMMA PresentedClock ==
    ASSUME TypeOK, Presented, Keymatrix, Remember
    PROVE  Presented'
  <1> USE Codes DEF matrix, modif
  <1>1. ASSUME UNCHANGED matrix, ~KeyDown, ~Withdraw, counted' \in {counted, FALSE}
        PROVE  Presented'
    BY <1>1 DEF Presented, Remember, TypeOK
  <1>2. ~KeyDown /\ ~Withdraw => counted' \in {counted, FALSE}
    BY DEF Remember
  <1>3. CASE BreakPrefix
    BY <1>1, <1>2, <1>3 DEF BreakPrefix, KeyDown, Withdraw, ReadCounted
  <1>4. CASE KeyUp /\ code # None
    BY <1>1, <1>2, <1>4 DEF KeyUp, KeyDown, Withdraw, ReadCounted
  <1>5. CASE ModifierDown
    BY <1>1, <1>2, <1>5 DEF ModifierDown, KeyDown, Withdraw, ReadCounted
  <1>6. CASE InvalidCode /\ code # None
    <2>1. ~KeyDown /\ ~Withdraw
      BY <1>6 DEF InvalidCode, KeyDown, Withdraw, ReadCounted
    <2>2. key' = key /\ counted' = IF CutShort THEN FALSE ELSE counted
      BY <2>1 DEF Remember
    <2>3. CutShort <=> r_kb_data_en
      BY <1>6, Zenon DEF CutShort
    <2> QED BY <1>6, <2>2, <2>3 DEF Presented, InvalidCode, TypeOK
  <1>7. CASE KeyDown
    <2>1. KeyMap[code].addr \in 1 .. 9
      BY <1>7, MapPlaces DEF KeyDown, Place
    <2>2. key' = code /\ code # None
      BY <1>7 DEF Remember, KeyDown
    <2> QED BY <1>7, <2>1, <2>2 DEF Presented, KeyDown, Enabled
  <1>8. CASE Withdraw
    <2>1. ~KeyDown
      BY <1>8 DEF Withdraw, ReadCounted, KeyDown
    <2> QED BY <1>8, <2>1 DEF Presented, Withdraw, Remember, ClearedCount
  <1>9. CASE CountRead
    <2>1. ~KeyDown /\ ~Withdraw /\ r_kb_data_en
      BY <1>9 DEF CountRead, ReadCounted, KeyDown, Withdraw
    <2>2. key' = key /\ counted' \in {counted, FALSE}
      BY <1>2, <2>1 DEF Remember
    <2>3. r_kb_addr' = r_kb_addr /\ r_kb_data_en' = r_kb_data_en
      BY <1>9 DEF CountRead
    <2>4. counted' => counted
      BY <2>2, Zenon
    <2>5. counted' => key' # None
      BY <2>1, <2>2, <2>4, Zenon DEF Presented
    <2>6. r_kb_data_en'
      BY <2>1, <2>3, Zenon
    <2>7. r_kb_addr' = 15 <=> key' = None
      BY <2>2, <2>3, Zenon DEF Presented
    <2> QED BY <2>5, <2>6, <2>7, Zenon DEF Presented
  <1>10. CASE NoRead
    BY <1>1, <1>2, <1>10 DEF NoRead, KeyDown, Withdraw, ReadCounted
  <1> QED BY <1>3, <1>4, <1>5, <1>6, <1>7, <1>8, <1>9, <1>10, Zenon DEF Keymatrix, Decode

LEMMA PresentedStep == TypeOK /\ Presented /\ [Next]_vars => Presented'
  <1>1. ASSUME TypeOK, Presented, Clock PROVE Presented'
    BY <1>1, PresentedClock, Zenon DEF Clock
  <1>2. ASSUME Reset PROVE Presented'
    BY <1>2 DEF Reset, Presented
  <1>3. ASSUME Presented, UNCHANGED vars PROVE Presented'
    BY <1>3 DEF Presented, vars, matrix, history
  <1> QED BY <1>1, <1>2, <1>3, Zenon DEF Next

\* The registers agree on the key presented, and its reads are counted from the
\* first, unless a code outside the matrix has cut a presentation short.
THEOREM PresentedCorrect == Spec => []Presented
  BY TypeCorrect, PresentedInit, PresentedStep, PTL DEF Spec

-----------------------------------------------------------------------------
(* The modifiers: an event on its way to KEYBOARD, and the flags so far. *)

\* The bytes still on their way, the one in the receiver first.
InFlight(s) ==
    \/ pending = s /\ owed = None /\ code = None
    \/ s # <<>> /\ pending = Tail(s) /\ owed = Head(s) /\ code = None
    \/ s # <<>> /\ pending = Tail(s) /\ owed = None /\ code = Head(s)

Making(k)   == known \cap Modifier = r_kb_held \cup ({k} \cap Modifier)
Breaking(k) == known \cap Modifier = r_kb_held \ {k}

Settled   == InFlight(<<>>) /\ ~r_kb_break /\ known \cap Modifier = r_kb_held
Pressing  == \E k \in Keys : /\ InFlight(<<k>>) \/ InFlight(<<E0, k>>)
                             /\ ~r_kb_break /\ Making(k)
Releasing == \E k \in Keys : /\ InFlight(<<BREAK, k>>) \/ InFlight(<<E0, BREAK, k>>)
                             /\ ~r_kb_break /\ Breaking(k)
Letting   == \E k \in Keys : InFlight(<<k>>) /\ r_kb_break /\ Breaking(k)

FlightInv == Settled \/ Pressing \/ Releasing \/ Letting

\* The bytes move on by one place or stay.
LEMMA FlightMoves ==
    ASSUME NEW s, InFlight(s), code = None, s # <<>> => Head(s) # None,
           Send \/ Receive
    PROVE  InFlight(s)'
  <1>1. CASE Send
    BY <1>1 DEF InFlight, Send, Link!Begin
  <1>2. CASE Receive
    BY <1>2 DEF InFlight, Receive, Link!HandOver, Link!Quiet
  <1> QED BY <1>1, <1>2

LEMMA FlightAdvances ==
    ASSUME NEW s, InFlight(s), code # None, Send \/ Receive
    PROVE  s # <<>> /\ code = Head(s) /\ InFlight(Tail(s))'
  <1>1. s # <<>> /\ pending = Tail(s) /\ owed = None /\ code = Head(s)
    BY DEF InFlight
  <1>2. CASE Send
    BY <1>1, <1>2 DEF InFlight, Send, Link!Begin
  <1>3. CASE Receive
    BY <1>1, <1>3 DEF InFlight, Receive, Link!HandOver, Link!Quiet
  <1> QED BY <1>1, <1>2, <1>3

LEMMA Bytes ==
    ASSUME NEW a, NEW b, NEW c
    PROVE  /\ <<a>> # <<>> /\ Head(<<a>>) = a /\ Tail(<<a>>) = <<>>
           /\ <<a, b>> # <<>> /\ Head(<<a, b>>) = a /\ Tail(<<a, b>>) = <<b>>
           /\ <<a, b, c>> # <<>> /\ Head(<<a, b, c>>) = a /\ Tail(<<a, b, c>>) = <<b, c>>
  <1>1. <<a>> # <<>> /\ Head(<<a>>) = a /\ Tail(<<a>>) = <<>>
    OBVIOUS
  <1>2. <<a, b>> # <<>> /\ Head(<<a, b>>) = a /\ Tail(<<a, b>>) = <<b>>
    OBVIOUS
  <1>3. <<a, b, c>> # <<>> /\ Head(<<a, b, c>>) = a /\ Tail(<<a, b, c>>) = <<b, c>>
    OBVIOUS
  <1> QED BY <1>1, <1>2, <1>3

\* The bytes of an event, one after the other.
LEMMA EventOrder ==
    ASSUME NEW k
    PROVE  /\ <<k>> # <<>> /\ Head(<<k>>) = k /\ Tail(<<k>>) = <<>>
           /\ <<E0, k>> # <<>> /\ Head(<<E0, k>>) = E0 /\ Tail(<<E0, k>>) = <<k>>
           /\ <<BREAK, k>> # <<>> /\ Head(<<BREAK, k>>) = BREAK /\ Tail(<<BREAK, k>>) = <<k>>
           /\ <<E0, BREAK, k>> # <<>> /\ Head(<<E0, BREAK, k>>) = E0
           /\ Tail(<<E0, BREAK, k>>) = <<BREAK, k>>
  <1>1. <<k>> # <<>> /\ Head(<<k>>) = k /\ Tail(<<k>>) = <<>>
    BY Bytes
  <1>2. <<E0, k>> # <<>> /\ Head(<<E0, k>>) = E0 /\ Tail(<<E0, k>>) = <<k>>
    BY Bytes
  <1>3. <<BREAK, k>> # <<>> /\ Head(<<BREAK, k>>) = BREAK /\ Tail(<<BREAK, k>>) = <<k>>
    BY Bytes
  <1>4. /\ <<E0, BREAK, k>> # <<>> /\ Head(<<E0, BREAK, k>>) = E0
        /\ Tail(<<E0, BREAK, k>>) = <<BREAK, k>>
    BY Bytes
  <1> QED BY <1>1, <1>2, <1>3, <1>4

\* What KEYBOARD makes of a byte.
LEMMA NoByte ==
    ASSUME Keymatrix, code = None
    PROVE  UNCHANGED modif
  BY DEF Keymatrix, Decode, Withdraw, CountRead, NoRead, modif

LEMMA Prefix ==
    ASSUME Keymatrix, code = E0, ~r_kb_break
    PROVE  UNCHANGED modif
  BY Codes DEF Keymatrix, Decode, BreakPrefix, KeyUp, ModifierDown, InvalidCode, KeyDown,
     Withdraw, CountRead, NoRead, ReadCounted, modif

LEMMA BreakByte ==
    ASSUME Keymatrix, code = BREAK, ~r_kb_break
    PROVE  r_kb_break' /\ r_kb_held' = r_kb_held
  BY Codes DEF Keymatrix, Decode, BreakPrefix, KeyUp, ModifierDown, InvalidCode, KeyDown,
     Withdraw, CountRead, NoRead, ReadCounted

LEMMA KeyByte ==
    ASSUME NEW k \in Keys, Keymatrix, code = k
    PROVE  /\ ~r_kb_break => ~r_kb_break' /\ r_kb_held' = r_kb_held \cup ({k} \cap Modifier)
           /\ r_kb_break => ~r_kb_break' /\ r_kb_held' = r_kb_held \ {k}
  <1>1. k # None /\ k # BREAK /\ (k \in Mapped => k \notin Modifier)
    BY Codes
  <1>2. CASE r_kb_break
    BY <1>1, <1>2 DEF Keymatrix, Decode, BreakPrefix, KeyUp, Released, ModifierDown,
       InvalidCode, KeyDown, Withdraw, CountRead, NoRead, ReadCounted
  <1>3. CASE ~r_kb_break
    BY <1>1, <1>3 DEF Keymatrix, Decode, BreakPrefix, KeyUp, ModifierDown,
       InvalidCode, KeyDown, Withdraw, CountRead, NoRead, ReadCounted, modif
  <1> QED BY <1>1, <1>2, <1>3

LEMMA FlightInit == Init => FlightInv
  BY DEF Init, Link!Init, FlightInv, Settled, InFlight

\* A new event starts when the last one has arrived.
LEMMA SilentSettled ==
    ASSUME FlightInv, Silent
    PROVE  Settled
  <1>1. ASSUME NEW s, s # <<>>, Head(s) # None, InFlight(s)
        PROVE  FALSE
    BY <1>1 DEF InFlight, Silent
  <1>2. \A k \in Keys : /\ ~InFlight(<<k>>) /\ ~InFlight(<<E0, k>>)
                        /\ ~InFlight(<<BREAK, k>>) /\ ~InFlight(<<E0, BREAK, k>>)
    <2> TAKE k \in Keys
    <2>1. k # None /\ E0 # None /\ BREAK # None
      BY Codes
    <2>2. ~InFlight(<<k>>)
      BY <1>1, <2>1, EventOrder, Zenon
    <2>3. ~InFlight(<<E0, k>>)
      BY <1>1, <2>1, EventOrder, Zenon
    <2>4. ~InFlight(<<BREAK, k>>)
      BY <1>1, <2>1, EventOrder, Zenon
    <2>5. ~InFlight(<<E0, BREAK, k>>)
      BY <1>1, <2>1, EventOrder, Zenon
    <2> QED BY <2>2, <2>3, <2>4, <2>5
  <1> QED BY <1>2, Zenon DEF FlightInv, Pressing, Releasing, Letting

LEMMA FlightEvent ==
    ASSUME TypeOK, FlightInv, Hand, Keymatrix
    PROVE  FlightInv'
  <1>1. Silent /\ owed' = None /\ code' = None
    BY DEF Hand, Silent, Link!Quiet
  <1>2. Settled
    BY <1>1, SilentSettled
  <1>3. r_kb_held' = r_kb_held /\ ~r_kb_break'
    BY <1>1, <1>2, NoByte DEF Silent, Settled, modif
  <1>4. PICK k \in Keys : Press(k) \/ Repeat(k) \/ Release(k)
    BY DEF Hand
  <1>5. \A s : pending' = s => InFlight(s)'
    BY <1>1 DEF InFlight
  <1>6. CASE Press(k) \/ Repeat(k)
    <2>1. known' = known \cup {k} /\ (pending' = <<k>> \/ pending' = <<E0, k>>)
      BY <1>6 DEF Press, Repeat, Make
    <2>2. Making(k)'
      BY <1>2, <1>3, <2>1 DEF Making, Settled
    <2>3. InFlight(<<k>>)' \/ InFlight(<<E0, k>>)'
      BY <1>5, <2>1
    <2> QED BY <1>3, <2>2, <2>3 DEF FlightInv, Pressing
  <1>7. CASE Release(k)
    <2>1. known' = known \ {k} /\ (pending' = <<BREAK, k>> \/ pending' = <<E0, BREAK, k>>)
      BY <1>7 DEF Release, Break
    <2>2. Breaking(k)'
      BY <1>2, <1>3, <2>1 DEF Breaking, Settled
    <2>3. InFlight(<<BREAK, k>>)' \/ InFlight(<<E0, BREAK, k>>)'
      BY <1>5, <2>1
    <2> QED BY <1>3, <2>2, <2>3 DEF FlightInv, Releasing
  <1> QED BY <1>4, <1>6, <1>7

\* A byte moves on, and KEYBOARD takes the one it has.
LEMMA FlightBytes ==
    ASSUME TypeOK, FlightInv, Send \/ Receive, Keymatrix
    PROVE  FlightInv'
  <1>1. known' = known /\ r_kb_held \subseteq Modifier
    BY DEF Send, Receive, TypeOK
  <1>2. CASE Settled
    <2>1. code = None
      BY <1>2 DEF Settled, InFlight
    <2>2. InFlight(<<>>)'
      BY <1>2, <2>1, FlightMoves DEF Settled
    <2> QED BY <1>1, <1>2, <2>1, <2>2, NoByte DEF FlightInv, Settled, modif
  <1>3. ASSUME NEW s, InFlight(s), s # <<>>, Head(s) # None, code = None
        PROVE  InFlight(s)' /\ UNCHANGED modif
    BY <1>3, FlightMoves, NoByte
  <1>4. ASSUME NEW s, InFlight(s), code # None
        PROVE  code = Head(s) /\ InFlight(Tail(s))'
    BY <1>4, FlightAdvances
  <1>5. CASE Pressing
    <2>1. PICK k \in Keys : /\ InFlight(<<k>>) \/ InFlight(<<E0, k>>)
                            /\ ~r_kb_break /\ Making(k)
      BY <1>5 DEF Pressing
    <2> USE EventOrder
    <2>2. k # None /\ E0 # None
      BY Codes
    <2>3. CASE code = None
      <3>1. (InFlight(<<k>>) \/ InFlight(<<E0, k>>))' /\ UNCHANGED modif
        BY <1>3, <2>1, <2>2, <2>3, Zenon
      <3>2. ~r_kb_break' /\ Making(k)'
        BY <1>1, <2>1, <3>1 DEF modif, Making
      <3> QED BY <3>1, <3>2 DEF FlightInv, Pressing
    <2>4. CASE code # None /\ InFlight(<<k>>)
      <3>1. code = k /\ InFlight(<<>>)'
        BY <1>4, <2>4, Zenon
      <3>2. ~r_kb_break' /\ known' \cap Modifier = r_kb_held'
        BY <1>1, <2>1, <3>1, KeyByte DEF Making
      <3> QED BY <3>1, <3>2 DEF FlightInv, Settled
    <2>5. CASE code # None /\ InFlight(<<E0, k>>)
      <3>1. code = E0 /\ InFlight(<<k>>)'
        BY <1>4, <2>5, Zenon
      <3>2. ~r_kb_break' /\ Making(k)'
        BY <1>1, <2>1, <3>1, Prefix DEF Making, modif
      <3> QED BY <3>1, <3>2 DEF FlightInv, Pressing
    <2> QED BY <2>1, <2>3, <2>4, <2>5
  <1>6. CASE Releasing
    <2>1. PICK k \in Keys : /\ InFlight(<<BREAK, k>>) \/ InFlight(<<E0, BREAK, k>>)
                            /\ ~r_kb_break /\ Breaking(k)
      BY <1>6 DEF Releasing
    <2> USE EventOrder
    <2>2. BREAK # None /\ E0 # None
      BY Codes
    <2>3. CASE code = None
      <3>1. (InFlight(<<BREAK, k>>) \/ InFlight(<<E0, BREAK, k>>))' /\ UNCHANGED modif
        BY <1>3, <2>1, <2>2, <2>3, Zenon
      <3>2. ~r_kb_break' /\ Breaking(k)'
        BY <1>1, <2>1, <3>1 DEF modif, Breaking
      <3> QED BY <3>1, <3>2 DEF FlightInv, Releasing
    <2>4. CASE code # None /\ InFlight(<<BREAK, k>>)
      <3>1. code = BREAK /\ InFlight(<<k>>)'
        BY <1>4, <2>4, Zenon
      <3>2. r_kb_break' /\ Breaking(k)'
        BY <1>1, <2>1, <3>1, BreakByte DEF Breaking
      <3> QED BY <3>1, <3>2 DEF FlightInv, Letting
    <2>5. CASE code # None /\ InFlight(<<E0, BREAK, k>>)
      <3>1. code = E0 /\ InFlight(<<BREAK, k>>)'
        BY <1>4, <2>5, Zenon
      <3>2. ~r_kb_break' /\ Breaking(k)'
        BY <1>1, <2>1, <3>1, Prefix DEF Breaking, modif
      <3> QED BY <3>1, <3>2 DEF FlightInv, Releasing
    <2> QED BY <2>1, <2>3, <2>4, <2>5
  <1>7. CASE Letting
    <2>1. PICK k \in Keys : InFlight(<<k>>) /\ r_kb_break /\ Breaking(k)
      BY <1>7 DEF Letting
    <2> USE EventOrder
    <2>2. k # None
      BY Codes
    <2>3. CASE code = None
      <3>1. InFlight(<<k>>)' /\ UNCHANGED modif
        BY <1>3, <2>1, <2>2, <2>3, Zenon
      <3>2. r_kb_break' /\ Breaking(k)'
        BY <1>1, <2>1, <3>1 DEF modif, Breaking
      <3> QED BY <3>1, <3>2 DEF FlightInv, Letting
    <2>4. CASE code # None
      <3>1. code = k /\ InFlight(<<>>)'
        BY <1>4, <2>1, <2>4, Zenon
      <3>2. ~r_kb_break' /\ known' \cap Modifier = r_kb_held'
        BY <1>1, <2>1, <3>1, KeyByte DEF Breaking
      <3> QED BY <3>1, <3>2 DEF FlightInv, Settled
    <2> QED BY <2>3, <2>4
  <1> QED BY <1>2, <1>5, <1>6, <1>7 DEF FlightInv

LEMMA FlightStep == TypeOK /\ FlightInv /\ [Next]_vars => FlightInv'
  <1>1. ASSUME TypeOK, FlightInv, Clock PROVE FlightInv'
    BY <1>1, FlightEvent, FlightBytes, Zenon DEF Clock, Ps2Keyboard
  <1>2. ASSUME FlightInv, Reset PROVE FlightInv'
    <2>1. Settled
      BY <1>2, SilentSettled DEF Reset
    <2> QED BY <1>2, <2>1 DEF Reset, Silent, Link!Reset, FlightInv, Settled, InFlight
  <1>3. ASSUME FlightInv, UNCHANGED vars PROVE FlightInv'
    BY <1>3 DEF FlightInv, Settled, Pressing, Releasing, Letting, InFlight, Making, Breaking,
       vars, ps2, modif, history
  <1> QED BY <1>1, <1>2, <1>3, Zenon DEF Next

LEMMA FlightKept == FlightInv => ModifiersKept
  BY SilentSettled DEF ModifiersKept, Settled

\* Whenever nothing is on its way, the flags are the modifiers that are down.
THEOREM ModifiersKeptCorrect == Spec => []ModifiersKept
  BY TypeCorrect, FlightInit, FlightStep, FlightKept, PTL DEF Spec

-----------------------------------------------------------------------------
(* What the Z80 reads. *)

\* The output registers hold the key that the history names.
ShownInv ==
    /\ key = None => r_kb_addr = 15 /\ r_kb_data = {} /\ ~r_kb_status
    /\ key # None => /\ r_kb_addr = KeyMap[key].addr /\ r_kb_data = {KeyMap[key].bit}
                     /\ r_kb_status <=> KeyMap[key].shift

LEMMA ShownKept ==
    ASSUME TypeOK, ShownInv, Keymatrix, Remember
    PROVE  ShownInv'
  <1>1. CASE KeyDown
    <2>1. key' = code /\ code \in Mapped /\ code # None
      BY <1>1, Codes DEF Remember, KeyDown
    <2>2. /\ r_kb_addr' = KeyMap[code].addr /\ r_kb_data' = {KeyMap[code].bit}
          /\ r_kb_status' = KeyMap[code].shift
      BY <1>1 DEF KeyDown
    <2> QED BY <2>1, <2>2, Zenon DEF ShownInv
  <1>2. CASE Withdraw /\ ~KeyDown
    BY <1>2 DEF Withdraw, ClearedStatus, Remember, ShownInv
  <1>3. CASE ~KeyDown /\ ~Withdraw
    <2>1. key' = key
      BY <1>3 DEF Remember
    <2>2. r_kb_addr' = r_kb_addr /\ r_kb_data' = r_kb_data /\ r_kb_status' = r_kb_status
      BY <1>3 DEF Keymatrix, Decode, BreakPrefix, KeyUp, ModifierDown, InvalidCode, CountRead,
                  NoRead, matrix
    <2> QED BY <2>1, <2>2, Zenon DEF ShownInv
  <1> QED BY <1>1, <1>2, <1>3

\* A byte of a row that these modifiers and this key account for.
Fits(d, held, k, r) ==
    /\ d \subseteq Shows(held, k, r)
    /\ d = {} => Shows(held, k, r) = {}
    /\ r # 8 => d = Shows(held, k, r)

LEMMA ModifierBits ==
    /\ ModifierBit[LEFT_SHIFT] = 6 /\ ModifierBit[KANA] = 5
    /\ ModifierBit[GRAPH] = 4 /\ ModifierBit[CTRL] = 7
    /\ {LEFT_SHIFT, KANA, GRAPH, CTRL} = Modifier
  <1>1. /\ LEFT_SHIFT # KANA /\ LEFT_SHIFT # GRAPH /\ LEFT_SHIFT # CTRL
        /\ KANA # GRAPH /\ KANA # CTRL /\ GRAPH # CTRL
    BY DEF LEFT_SHIFT, KANA, GRAPH, CTRL
  <1>2. {LEFT_SHIFT, KANA, GRAPH, CTRL} = Modifier
    BY Zenon DEF Modifier
  <1> QED BY <1>1, <1>2, Zenon DEF ModifierBit

\* The multiplexer (keyborad.v:265-284).
LEMMA OutputFits ==
    ASSUME TypeOK, ShownInv
    PROVE  Fits(w_out_kb_data, r_kb_held, key, I_CPU_ADDR)
  <1> DEFINE r == I_CPU_ADDR
             mods == {b \in 0 .. 7 : r = 8 /\ \E m \in r_kb_held : ModifierBit[m] = b}
  <1>0. /\ r \in 0 .. 9 /\ r_kb_held \subseteq Modifier /\ key \in Mapped \cup {None}
        /\ r_kb_data \subseteq 0 .. 7
    BY BusAssumption DEF TypeOK, I_CPU_ADDR, Bits
  <1>1. Shows(r_kb_held, key, r) = KeyBits(key, r) \cup mods
    BY DEF Shows
  <1>2. KeyBits(key, r) = {b \in r_kb_data : r = r_kb_addr} \cup {b \in {6} : r = 8 /\ r_kb_status}
    <2>1. CASE key = None
      BY <2>1, <1>0 DEF KeyBits, ShownInv
    <2>2. CASE key # None
      BY <2>2, <1>0 DEF KeyBits, ShownInv
    <2> QED BY <2>1, <2>2
  <1>3. ASSUME r # 8 PROVE Fits(w_out_kb_data, r_kb_held, key, r)
    <2>1. w_out_kb_data = IF r = r_kb_addr THEN r_kb_data ELSE {}
      BY <1>3 DEF w_out_kb_data
    <2>2. mods = {} /\ KeyBits(key, r) = {b \in r_kb_data : r = r_kb_addr}
      BY <1>2, <1>3
    <2> QED BY <1>1, <2>1, <2>2 DEF Fits
  <1>4. ASSUME r = 8, NEW m \in r_kb_held, NEW b, ModifierBit[m] = b, b \in 0 .. 7 PROVE b \in mods
    BY <1>4
  <1>5. ASSUME r = 8 PROVE Fits(w_out_kb_data, r_kb_held, key, r)
    <2>1. CASE LEFT_SHIFT \in r_kb_held
      <3>1. w_out_kb_data = {6} /\ 6 \in mods
        BY <1>5, <1>4, <2>1, ModifierBits DEF w_out_kb_data
      <3> QED BY <1>1, <1>5, <3>1 DEF Fits
    <2>2. CASE LEFT_SHIFT \notin r_kb_held /\ r_kb_status
      <3>1. w_out_kb_data = {6} \cup r_kb_data
        BY <1>5, <2>2 DEF w_out_kb_data
      <3>2. r_kb_addr = 8
        <4>1. key # None /\ KeyMap[key].shift /\ KeyMap[key].addr = r_kb_addr
          BY <2>2 DEF ShownInv
        <4>2. Sits(key, KeyMap[key])
          BY <1>0, <4>1, MapAssumption DEF Mapped, Hits
        <4> QED BY <4>1, <4>2 DEF Sits
      <3> QED BY <1>1, <1>2, <1>5, <2>2, <3>1, <3>2 DEF Fits
    <2>3. CASE LEFT_SHIFT \notin r_kb_held /\ ~r_kb_status /\ KANA \in r_kb_held
      <3>1. w_out_kb_data = {5} /\ 5 \in mods
        BY <1>5, <1>4, <2>3, ModifierBits DEF w_out_kb_data
      <3> QED BY <1>1, <1>5, <3>1 DEF Fits
    <2>4. CASE /\ LEFT_SHIFT \notin r_kb_held /\ ~r_kb_status /\ KANA \notin r_kb_held
               /\ GRAPH \in r_kb_held
      <3>1. w_out_kb_data = {4} /\ 4 \in mods
        BY <1>5, <1>4, <2>4, ModifierBits DEF w_out_kb_data
      <3> QED BY <1>1, <1>5, <3>1 DEF Fits
    <2>5. CASE /\ LEFT_SHIFT \notin r_kb_held /\ ~r_kb_status /\ KANA \notin r_kb_held
               /\ GRAPH \notin r_kb_held /\ CTRL \in r_kb_held
      <3>1. w_out_kb_data = {7} /\ 7 \in mods
        BY <1>5, <1>4, <2>5, ModifierBits DEF w_out_kb_data
      <3> QED BY <1>1, <1>5, <3>1 DEF Fits
    <2>6. CASE /\ LEFT_SHIFT \notin r_kb_held /\ ~r_kb_status /\ KANA \notin r_kb_held
               /\ GRAPH \notin r_kb_held /\ CTRL \notin r_kb_held
      <3>1. w_out_kb_data = IF r = r_kb_addr THEN r_kb_data ELSE {}
        BY <2>6 DEF w_out_kb_data
      <3>2. r_kb_held = {}
        BY <1>0, <2>6, ModifierBits
      <3>3. mods = {}
        BY <3>2
      <3> QED BY <1>1, <1>2, <2>6, <3>1, <3>3 DEF Fits
    <2> QED BY <2>1, <2>2, <2>3, <2>4, <2>5, <2>6
  <1> QED BY <1>3, <1>5

\* A byte that fits some clock of this machine cycle.
Due(d) == \E p \in during : Fits(d, p[1], p[2], I_CPU_ADDR)

\* The output follows the matrix by a clock, and the Z80's input the output by another.
ReadInv ==
    /\ ShownInv
    /\ <<r_kb_held, key>> \in during
    /\ I_CPU_IORQ /\ cyc >= 1 => Due(O_KB_DATA)
    /\ I_CPU_IORQ /\ cyc >= 2 => Due(input_data)

LEMMA ReadClock ==
    ASSUME TypeOK, ReadInv, Clock
    PROVE  ReadInv'
  <1>1. ShownInv'
    BY ShownKept DEF Clock, ReadInv
  <1>2. during' = {<<r_kb_held', key'>>} \cup (IF cyc' = 0 THEN {} ELSE during)
    BY DEF Clock, Remember
  <1>3. <<r_kb_held, key>>' \in during'
    BY <1>2
  <1>4. ASSUME I_CPU_IORQ', cyc' >= 1
        PROVE  I_CPU_IORQ /\ row' = row /\ cyc' = cyc + 1 /\ cyc \in Nat /\ during \subseteq during'
    <2>1. cyc \in Nat /\ BusClocks \in Nat /\ cyc' # 0
      BY <1>4, BusAssumption DEF TypeOK
    <2>2. \/ cyc' = cyc + 1 /\ row' = row /\ I_CPU_IORQ' = I_CPU_IORQ
          \/ ~I_CPU_IORQ /\ I_CPU_IORQ' = I_CPU_IORQ
      BY <2>1 DEF Clock, Z80Bus
    <2> QED BY <1>2, <1>4, <2>1, <2>2
  <1>5. ASSUME NEW d, NEW p \in during, Fits(d, p[1], p[2], I_CPU_ADDR), row' = row,
               during \subseteq during'
        PROVE  \E q \in during' : Fits(d, q[1], q[2], I_CPU_ADDR')
    BY <1>5 DEF I_CPU_ADDR
  <1>6. ASSUME I_CPU_IORQ', cyc' >= 1 PROVE Due(O_KB_DATA)'
    <2>1. O_KB_DATA' = w_out_kb_data /\ Fits(w_out_kb_data, r_kb_held, key, I_CPU_ADDR)
      BY OutputFits DEF Clock, Output, ReadInv
    <2>2. <<r_kb_held, key>> \in during /\ <<r_kb_held, key>>[1] = r_kb_held
          /\ <<r_kb_held, key>>[2] = key
      BY DEF ReadInv
    <2>3. \E p \in during : Fits(w_out_kb_data, p[1], p[2], I_CPU_ADDR)
      BY <2>1, <2>2, Zenon
    <2>4. \E q \in during' : Fits(w_out_kb_data, q[1], q[2], I_CPU_ADDR')
      BY <1>4, <1>5, <1>6, <2>3
    <2> QED BY <2>1, <2>4, Zenon DEF Due
  <1>7. ASSUME I_CPU_IORQ', cyc' >= 2 PROVE Due(input_data)'
    <2>1. cyc' >= 1
      <3>1. cyc' \in 0 .. BusClocks - 1
        BY TypeBus DEF Clock
      <3> QED BY <1>7, <3>1, BusAssumption
    <2>2. I_CPU_IORQ /\ cyc >= 1
      BY <1>4, <1>7, <2>1
    <2>3. input_data' = O_KB_DATA
      BY <2>2 DEF Clock, Z80Bus
    <2>4. \E p \in during : Fits(O_KB_DATA, p[1], p[2], I_CPU_ADDR)
      BY <2>2 DEF ReadInv, Due
    <2>5. \E q \in during' : Fits(O_KB_DATA, q[1], q[2], I_CPU_ADDR')
      BY <1>4, <1>5, <1>7, <2>1, <2>4
    <2> QED BY <2>3, <2>5, Zenon DEF Due
  <1> QED BY <1>1, <1>3, <1>6, <1>7, Zenon DEF ReadInv

LEMMA ReadInvHolds == Spec => []ReadInv
  <1>1. Init => ReadInv
    BY DEF Init, ReadInv, ShownInv
  <1>2. ASSUME TypeOK, ReadInv, [Next]_vars PROVE ReadInv'
    <2>1. CASE Clock
      BY <1>2, <2>1, ReadClock
    <2>2. CASE Reset
      <3>1. ShownInv' /\ <<r_kb_held, key>>' \in during' /\ ~I_CPU_IORQ'
        BY <2>2 DEF Reset, ShownInv
      <3> QED BY <3>1 DEF ReadInv
    <2>3. CASE UNCHANGED vars
      BY <1>2, <2>3 DEF ReadInv, ShownInv, Due, I_CPU_ADDR, vars, bus, matrix, modif, history
    <2> QED BY <1>2, <2>1, <2>2, <2>3 DEF Next
  <1> QED BY <1>1, <1>2, TypeCorrect, PTL DEF Spec

\* For every key map, order of reading and length of a machine cycle: what the Z80 reads
\* of a row is what the keyboard stood for at some clock of that very read, in row 8 a part
\* of it (keyborad.v:265-284).
THEOREM RowReadCorrect == Spec => []RowRead
  <1>1. TypeOK /\ ReadInv => RowRead
    <2> SUFFICES ASSUME TypeOK, ReadInv, ReadEnds
                 PROVE  \E p \in during :
                            LET due == Shows(p[1], p[2], I_CPU_ADDR) IN
                            /\ input_data \subseteq due
                            /\ input_data = {} => due = {}
                            /\ I_CPU_ADDR # 8 => input_data = due
      BY DEF RowRead
    <2>1. Due(input_data)
      BY BusAssumption DEF ReadEnds, ReadInv, TypeOK
    <2> QED BY <2>1, Zenon DEF Due, Fits
  <1> QED BY <1>1, TypeCorrect, ReadInvHolds, PTL

-----------------------------------------------------------------------------
(* The fourteen reads. *)

\* The place in Scan, d reads after place s.
After(s, d) == ((s - 1 + d) % Len(Scan)) + 1

\* A program whose reads visit every row that has a key within any thirteen.
ScanCovers ==
    \A k \in Mapped : \A s \in 1 .. Len(Scan) : \E d \in 0 .. 12 :
        Scan[After(s, d)] = KeyMap[k].addr

LEMMA NextRemainder ==
    ASSUME NEW n \in Nat, n >= 1, NEW x \in Nat
    PROVE  (x + 1) % n = ((x % n) + 1) % n
  <1> DEFINE r == x % n
             q == x \div n
  <1>1. r \in 0 .. n - 1 /\ q \in Nat /\ x = (n * q) + r
    OBVIOUS
  <1> HIDE DEF r, q
  <1>2. CASE r + 1 < n
    <2>1. x + 1 = (n * q) + (r + 1)
      BY <1>1
    <2>2. (x + 1) % n = r + 1
      BY <1>1, <1>2, <2>1
    <2>3. (r + 1) % n = r + 1
      BY <1>1, <1>2
    <2> QED BY <2>2, <2>3 DEF r
  <1>3. CASE r + 1 = n
    <2>1. x + 1 = n * (q + 1)
      BY <1>1, <1>3
    <2>2. (x + 1) % n = 0
      BY <1>1, <2>1
    <2>3. (r + 1) % n = 0
      BY <1>1, <1>3
    <2> QED BY <2>2, <2>3 DEF r
  <1> QED BY <1>1, <1>2, <1>3

LEMMA AfterMoves ==
    ASSUME NEW s \in 1 .. Len(Scan), NEW m \in Nat
    PROVE  /\ After(s, m) \in 1 .. Len(Scan)
           /\ After(s, 0) = s
           /\ After(s, m + 1) = (After(s, m) % Len(Scan)) + 1
  <1>1. Len(Scan) \in Nat /\ Len(Scan) >= 1
    BY BusAssumption
  <1>2. After(s, m) \in 1 .. Len(Scan)
    BY <1>1 DEF After
  <1>3. After(s, 0) = s
    BY <1>1 DEF After
  <1>4. After(s, m + 1) = (After(s, m) % Len(Scan)) + 1
    <2>1. (s - 1 + m) \in Nat /\ s - 1 + (m + 1) = (s - 1 + m) + 1
      OBVIOUS
    <2>2. ((s - 1 + m) + 1) % Len(Scan) = (((s - 1 + m) % Len(Scan)) + 1) % Len(Scan)
      BY <1>1, <2>1, NextRemainder
    <2> QED BY <2>1, <2>2 DEF After
  <1> QED BY <1>2, <1>3, <1>4

-----------------------------------------------------------------------------
\* The edge detector: the two levels seen last, in a read and between two reads.
SregInv ==
    /\ I_CPU_IORQ => iorq_sreg = IF cyc = 0 THEN 0 ELSE IF cyc = 1 THEN 1 ELSE 3
    /\ ~I_CPU_IORQ => /\ cyc = 0 => iorq_sreg \in {0, 3}
                      /\ cyc = 1 => iorq_sreg \in {0, 2}
                      /\ cyc >= 2 => iorq_sreg = 0

LEMMA BusSteps ==
    ASSUME TypeOK, Z80Bus
    PROVE  /\ cyc \in Nat /\ BusClocks \in Nat /\ BusClocks >= 5 /\ cyc <= BusClocks - 1
           /\ \/ /\ cyc' = cyc + 1 /\ cyc < BusClocks - 1
                 /\ (I_CPU_IORQ' <=> I_CPU_IORQ) /\ row' = row
              \/ /\ cyc' = cyc /\ cyc = BusClocks - 1 /\ ~I_CPU_IORQ /\ ~I_CPU_IORQ' /\ row' = row
              \/ /\ cyc' = 0 /\ cyc = BusClocks - 1 /\ I_CPU_IORQ /\ ~I_CPU_IORQ'
                 /\ row' = (row % Len(Scan)) + 1
              \/ /\ cyc' = 0 /\ cyc = BusClocks - 1 /\ ~I_CPU_IORQ /\ I_CPU_IORQ' /\ row' = row
  <1>1. cyc \in Nat /\ BusClocks \in Nat /\ BusClocks >= 5 /\ cyc <= BusClocks - 1
    BY BusAssumption DEF TypeOK
  <1>2. CASE /\ cyc < BusClocks - 1 /\ cyc' = cyc + 1
             /\ UNCHANGED <<row, I_CPU_IORQ>>
    BY <1>1, <1>2
  <1>3. CASE /\ cyc = BusClocks - 1 /\ ~I_CPU_IORQ
             /\ UNCHANGED <<row, I_CPU_IORQ, cyc>>
    BY <1>1, <1>3
  <1>4. CASE /\ cyc = BusClocks - 1
             /\ cyc' = 0 /\ I_CPU_IORQ' = ~I_CPU_IORQ
             /\ row' = IF I_CPU_IORQ THEN (row % Len(Scan)) + 1 ELSE row
    <2>1. I_CPU_IORQ' <=> ~I_CPU_IORQ
      BY <1>4, Zenon
    <2>2. cyc' = 0 /\ cyc = BusClocks - 1
      BY <1>4
    <2>3. CASE I_CPU_IORQ
      <3>1. row' = (row % Len(Scan)) + 1
        BY <1>4, <2>3
      <3> QED BY <1>1, <2>1, <2>2, <2>3, <3>1, Zenon
    <2>4. CASE ~I_CPU_IORQ
      <3>1. row' = row
        BY <1>4, <2>4
      <3> QED BY <1>1, <2>1, <2>2, <2>4, <3>1, Zenon
    <2> QED BY <2>3, <2>4
  <1> QED BY <1>1, <1>2, <1>3, <1>4, Zenon DEF Z80Bus

LEMMA SregClock ==
    ASSUME TypeOK, SregInv, Z80Bus, Edge
    PROVE  SregInv'
  <1>1. iorq_sreg \in 0 .. 3 /\ I_CPU_IORQ \in BOOLEAN
    BY DEF TypeOK
  <1>2. /\ I_CPU_IORQ => iorq_sreg' = (2 * iorq_sreg + 1) % 4
        /\ ~I_CPU_IORQ => iorq_sreg' = (2 * iorq_sreg) % 4
    <2>1. CASE I_CPU_IORQ
      BY <1>1, <2>1 DEF Edge
    <2>2. CASE ~I_CPU_IORQ
      BY <1>1, <2>2 DEF Edge
    <2> QED BY <2>1, <2>2
  <1>3. /\ (0 * 2) % 4 = 0 /\ (2 * 0) % 4 = 0 /\ (2 * 2) % 4 = 0 /\ (2 * 3) % 4 = 2
        /\ (2 * 0 + 1) % 4 = 1 /\ (2 * 1 + 1) % 4 = 3 /\ (2 * 3 + 1) % 4 = 3
    OBVIOUS
  <1>4. CASE I_CPU_IORQ
    <2>1. /\ cyc = 0 => iorq_sreg' = 1
          /\ cyc >= 1 => iorq_sreg' = 3
      BY <1>2, <1>3, <1>4, BusSteps DEF SregInv
    <2> QED BY <1>4, <2>1, BusSteps DEF SregInv
  <1>5. CASE ~I_CPU_IORQ
    <2>1. /\ cyc = 0 => iorq_sreg' \in {0, 2}
          /\ cyc >= 1 => iorq_sreg' = 0
      BY <1>2, <1>3, <1>5, BusSteps DEF SregInv
    <2> QED BY <1>5, <2>1, BusSteps DEF SregInv
  <1> QED BY <1>4, <1>5

\* A read is counted in the second clock of it.
LEMMA CountedThen ==
    ASSUME TypeOK, SregInv, w_cpu_iorq_rise
    PROVE  I_CPU_IORQ /\ cyc = 1
  <1>1. iorq_sreg = 1 /\ cyc \in Nat
    BY BusAssumption DEF w_cpu_iorq_rise, TypeOK
  <1> QED BY <1>1 DEF SregInv

-----------------------------------------------------------------------------
\* A presentation that is whole is counted, and no modifier masks it in row 8.
WholeInv ==
    whole => /\ counted
             /\ key # None => ~(r_kb_addr = 8 /\ r_kb_held # {})

\* From its second counted clock on, a read of the key's row shows the key.
VisInv ==
    whole /\ key # None /\ r_kb_scan_cnt >= 1 /\ I_CPU_IORQ /\ I_CPU_ADDR = KeyMap[key].addr =>
        /\ cyc >= 2 => KeyBits(key, I_CPU_ADDR) \subseteq O_KB_DATA
        /\ cyc >= 3 => KeyBits(key, I_CPU_ADDR) \subseteq input_data

\* The reads counted since this place in the scan have not been of the key's row.
Missed(s, m) ==
    /\ row = After(s, m)
    /\ \A d \in 0 .. m - 1 : Scan[After(s, d)] # KeyMap[key].addr
    /\ r_kb_scan_cnt <= IF I_CPU_IORQ /\ cyc >= 2 THEN m + 1 ELSE m

SearchInv ==
    key # None /\ whole /\ ~seen => \E s \in 1 .. Len(Scan) : \E m \in Nat : Missed(s, m)

ScanInv == SregInv /\ Presented /\ ShownInv /\ WholeInv /\ VisInv /\ SearchInv

\* What a clock does to the presentation: it begins, it ends, or it goes on, and counts
\* a read at most in the read's second clock.
LEMMA Presentation ==
    ASSUME TypeOK, SregInv, Presented, Clock
    PROVE  \/ /\ KeyDown /\ key' = code /\ code \in Mapped /\ counted' = counted
              /\ r_kb_scan_cnt' = r_kb_scan_cnt /\ r_kb_held' = r_kb_held /\ ~seen'
              /\ whole' => ~r_kb_data_en /\ counted /\ ~(r_kb_addr' = 8 /\ r_kb_held # {})
           \/ ~KeyDown /\ Withdraw /\ key' = None /\ counted'
           \/ /\ ~KeyDown /\ ~Withdraw /\ key' = key /\ r_kb_addr' = r_kb_addr
              /\ (whole' => whole) /\ (whole' => (counted' <=> counted))
              /\ (whole' => ~(r_kb_addr = 8 /\ r_kb_held' # {}))
              /\ \/ r_kb_scan_cnt' = r_kb_scan_cnt
                 \/ /\ r_kb_scan_cnt' = r_kb_scan_cnt + 1 /\ I_CPU_IORQ /\ cyc = 1 /\ code = None
                    /\ r_kb_data_en
  <1>1. Keymatrix /\ Remember
    BY DEF Clock
  <1>2. CASE KeyDown
    <2>1. code \in Mapped /\ r_kb_scan_cnt' = r_kb_scan_cnt /\ r_kb_held' = r_kb_held
      BY <1>2 DEF KeyDown, modif
    <2>2. ~CutShort /\ ~Withdraw
      BY <1>2, <2>1, Codes DEF KeyDown, CutShort, InvalidCode, Withdraw, ReadCounted
    <2>3. key' = code /\ counted' = counted /\ seen' = FALSE
      BY <1>1, <1>2, <2>2 DEF Remember
    <2>4. whole' = (~r_kb_data_en /\ counted /\ ~(r_kb_addr' = 8 /\ r_kb_held # {}))
      BY <1>1, <1>2, Zenon DEF Remember
    <2> QED BY <1>2, <2>1, <2>3, <2>4, Zenon
  <1>3. CASE ~KeyDown /\ Withdraw
    <2>1. ~CutShort
      BY <1>3 DEF CutShort, InvalidCode, Withdraw, LastRead, ClearedCount
    <2> QED BY <1>1, <1>3, <2>1 DEF Remember
  <1>4. CASE ~KeyDown /\ ~Withdraw
    <2>1. key' = key
      BY <1>1, <1>4 DEF Remember
    <2>2. whole' = (whole /\ ~CutShort /\ ~(r_kb_addr = 8 /\ r_kb_held' # {}))
      BY <1>1, <1>4, Zenon DEF Remember
    <2>3. counted' = IF CutShort THEN FALSE ELSE counted
      BY <1>1, <1>4 DEF Remember
    <2>4. r_kb_addr' = r_kb_addr
      BY <1>1, <1>4 DEF Keymatrix, Decode, BreakPrefix, KeyUp, ModifierDown, InvalidCode, CountRead,
                        NoRead, matrix
    <2>5. CASE CountRead
      <3>1. r_kb_scan_cnt' = r_kb_scan_cnt + 1 /\ w_cpu_iorq_rise /\ code = None /\ r_kb_data_en
        BY <2>5 DEF CountRead, ReadCounted
      <3>2. I_CPU_IORQ /\ cyc = 1
        BY <3>1, CountedThen
      <3> QED BY <1>4, <2>1, <2>2, <2>3, <2>4, <3>1, <3>2, Zenon
    <2>6. CASE ~CountRead
      <3>1. r_kb_scan_cnt' = r_kb_scan_cnt
        BY <1>1, <1>4, <2>6 DEF Keymatrix, Decode, BreakPrefix, KeyUp, ModifierDown, InvalidCode,
                                NoRead, matrix
      <3> QED BY <1>4, <2>1, <2>2, <2>3, <2>4, <3>1, Zenon
    <2> QED BY <2>5, <2>6
  <1> QED BY <1>2, <1>3, <1>4

LEMMA WholeClock ==
    ASSUME TypeOK, SregInv, Presented, WholeInv, Clock
    PROVE  WholeInv'
  <1>1. CASE /\ counted' = counted
             /\ whole' => ~r_kb_data_en /\ counted /\ ~(r_kb_addr' = 8 /\ r_kb_held # {})
             /\ r_kb_held' = r_kb_held
    BY <1>1, Zenon DEF WholeInv
  <1>2. CASE key' = None /\ counted'
    BY <1>2, Zenon DEF WholeInv
  <1>3. CASE /\ r_kb_addr' = r_kb_addr
             /\ (whole' => whole) /\ (whole' => (counted' <=> counted))
             /\ (whole' => ~(r_kb_addr = 8 /\ r_kb_held' # {}))
    BY <1>3, Zenon DEF WholeInv
  <1> QED BY <1>1, <1>2, <1>3, Presentation, Zenon

\* The multiplexer shows an unmasked key in its row.
LEMMA OutputShows ==
    ASSUME TypeOK, ShownInv, WholeInv, whole, key # None, I_CPU_ADDR = KeyMap[key].addr
    PROVE  /\ KeyBits(key, I_CPU_ADDR) \subseteq w_out_kb_data
           /\ KeyBits(key, I_CPU_ADDR) # {}
  <1>1. /\ r_kb_addr = KeyMap[key].addr /\ r_kb_data = {KeyMap[key].bit}
        /\ r_kb_status <=> KeyMap[key].shift
    BY DEF ShownInv
  <1>2. I_CPU_ADDR = 8 => r_kb_held = {}
    BY <1>1 DEF WholeInv
  <1>3. KeyBits(key, I_CPU_ADDR) = r_kb_data \cup {b \in {6} : I_CPU_ADDR = 8 /\ r_kb_status}
    BY <1>1 DEF KeyBits
  <1>4. w_out_kb_data = IF I_CPU_ADDR = 8 /\ r_kb_status THEN {6} \cup r_kb_data ELSE r_kb_data
    BY <1>1, <1>2 DEF w_out_kb_data
  <1> QED BY <1>1, <1>3, <1>4

LEMMA VisClock ==
    ASSUME TypeOK, SregInv, Presented, ShownInv, WholeInv, VisInv, Clock
    PROVE  VisInv'
  <1> SUFFICES ASSUME whole', key' # None, r_kb_scan_cnt' >= 1, I_CPU_IORQ', cyc' >= 2,
                      I_CPU_ADDR' = KeyMap[key'].addr
               PROVE  /\ KeyBits(key', I_CPU_ADDR') \subseteq O_KB_DATA'
                      /\ cyc' >= 3 => KeyBits(key', I_CPU_ADDR') \subseteq input_data'
    <2>1. cyc' \in Nat
      BY TypeBus DEF Clock
    <2> QED BY <2>1 DEF VisInv
  <1>1. I_CPU_IORQ /\ row' = row /\ cyc' = cyc + 1 /\ cyc \in Nat
    BY BusSteps DEF Clock
  <1>2. /\ key' = key /\ whole
        /\ r_kb_scan_cnt' = r_kb_scan_cnt \/ cyc = 1
    <2>1. CASE KeyDown
      <3>1. ~r_kb_data_en /\ counted /\ r_kb_scan_cnt' = r_kb_scan_cnt
        BY <2>1, Presentation
      <3>2. r_kb_scan_cnt = 0
        BY <3>1 DEF Presented
      <3> QED BY <3>1, <3>2
    <2>2. CASE ~KeyDown
      BY <2>2, Presentation
    <2> QED BY <2>1, <2>2
  <1>3. I_CPU_ADDR' = I_CPU_ADDR
    BY <1>1 DEF I_CPU_ADDR
  <1>4. KeyBits(key', I_CPU_ADDR') = KeyBits(key, I_CPU_ADDR)
    BY <1>2, <1>3
  <1>5. KeyBits(key, I_CPU_ADDR) \subseteq O_KB_DATA'
    BY <1>2, <1>3, OutputShows DEF Clock, Output
  <1>6. ASSUME cyc' >= 3 PROVE KeyBits(key, I_CPU_ADDR) \subseteq input_data'
    <2>1. cyc >= 2 /\ r_kb_scan_cnt >= 1
      BY <1>1, <1>2, <1>6
    <2>2. KeyBits(key, I_CPU_ADDR) \subseteq O_KB_DATA
      BY <1>1, <1>2, <1>3, <2>1 DEF VisInv
    <2>3. input_data' = O_KB_DATA
      BY <1>1 DEF Clock, Z80Bus
    <2> QED BY <2>2, <2>3
  <1> QED BY <1>4, <1>5, <1>6, Zenon

LEMMA SearchClock ==
    ASSUME TypeOK, SregInv, Presented, ShownInv, WholeInv, VisInv, SearchInv, Clock
    PROVE  SearchInv'
  <1> SUFFICES ASSUME key' # None, whole', ~seen'
               PROVE  \E s \in 1 .. Len(Scan) : \E m \in Nat : Missed(s, m)'
    BY Zenon DEF SearchInv
  <1>0. row' \in 1 .. Len(Scan) /\ r_kb_scan_cnt \in Nat /\ row \in 1 .. Len(Scan)
    BY TypeBus DEF Clock, TypeOK
  <1>1. ASSUME r_kb_scan_cnt' = 0
        PROVE  \E s \in 1 .. Len(Scan) : \E m \in Nat : Missed(s, m)'
    <2>1. PICK s \in 1 .. Len(Scan) : s = row'
      BY <1>0
    <2>2. After(s, 0) = s
      BY AfterMoves
    <2>3. Missed(s, 0)'
      BY <1>1, <2>1, <2>2 DEF Missed, After
    <2> QED BY <2>3
  <1>2. CASE KeyDown
    <2>1. ~r_kb_data_en /\ counted /\ r_kb_scan_cnt' = r_kb_scan_cnt
      BY <1>2, Presentation
    <2>2. r_kb_scan_cnt' = 0
      <3>1. key = None
        BY <2>1, Zenon DEF Presented
      <3> QED BY <2>1, <3>1 DEF Presented
    <2> QED BY <1>1, <2>2
  <1>3. CASE ~KeyDown
    <2>1. /\ key' = key /\ whole
          /\ \/ r_kb_scan_cnt' = r_kb_scan_cnt
             \/ r_kb_scan_cnt' = r_kb_scan_cnt + 1 /\ I_CPU_IORQ /\ cyc = 1
      BY <1>3, Presentation
    <2>2. /\ ~seen
          /\ ReadEnds /\ KeyBits(key, I_CPU_ADDR) # {} => ~(KeyBits(key, I_CPU_ADDR) \subseteq input_data)
      <3>1. seen' = (seen \/ (ReadEnds /\ key # None /\ KeyBits(key, I_CPU_ADDR) # {}
                              /\ KeyBits(key, I_CPU_ADDR) \subseteq input_data))
        BY <1>3, Zenon DEF Clock, Remember
      <3> QED BY <2>1, <3>1, Zenon
    <2>3. PICK s \in 1 .. Len(Scan) : \E m \in Nat : Missed(s, m)
      BY <2>1, <2>2 DEF SearchInv
    <2>4. PICK m \in Nat : Missed(s, m)
      BY <2>3
    <2>5. CASE row' = row /\ ~ReadEnds
      <3>1. r_kb_scan_cnt' <= IF I_CPU_IORQ' /\ cyc' >= 2 THEN m + 1 ELSE m
        BY <1>0, <2>1, <2>4, <2>5, BusSteps DEF Clock, Missed, ReadEnds
      <3>2. Missed(s, m)'
        BY <2>1, <2>4, <2>5, <3>1, Zenon DEF Missed, After
      <3> QED BY <3>2
    <2>6. CASE ReadEnds
      <3>1. cyc' = 0 /\ row' = (row % Len(Scan)) + 1 /\ r_kb_scan_cnt' = r_kb_scan_cnt
        BY <2>1, <2>6, BusSteps DEF Clock, ReadEnds
      <3>2. CASE r_kb_scan_cnt = 0
        BY <1>1, <3>1, <3>2
      <3>3. CASE r_kb_scan_cnt >= 1
        <4>1. I_CPU_ADDR # KeyMap[key].addr
          <5> SUFFICES ASSUME I_CPU_ADDR = KeyMap[key].addr PROVE FALSE
            OBVIOUS
          <5>1. I_CPU_IORQ /\ cyc >= 3
            BY <2>6, BusAssumption DEF ReadEnds
          <5>2. KeyBits(key, I_CPU_ADDR) \subseteq input_data
            BY <2>1, <3>3, <5>1 DEF VisInv
          <5>3. KeyBits(key, I_CPU_ADDR) # {}
            BY <2>1, OutputShows
          <5> QED BY <2>2, <2>6, <5>2, <5>3
        <4>2. row' = After(s, m + 1)
          BY <2>4, <3>1, AfterMoves DEF Missed
        <4>3. \A d \in 0 .. (m + 1) - 1 : Scan[After(s, d)] # KeyMap[key].addr
          <5> SUFFICES ASSUME NEW d \in 0 .. (m + 1) - 1
                       PROVE  Scan[After(s, d)] # KeyMap[key].addr
            OBVIOUS
          <5>1. CASE d = m
            BY <2>4, <4>1, <5>1 DEF Missed, I_CPU_ADDR
          <5>2. CASE d # m
            BY <2>4, <5>2 DEF Missed
          <5> QED BY <5>1, <5>2
        <4>4. r_kb_scan_cnt' <= m + 1 /\ cyc' = 0
          BY <2>4, <3>1, <1>0 DEF Missed
        <4>5. Missed(s, m + 1)'
          BY <2>1, <4>2, <4>3, <4>4 DEF Missed, After
        <4> QED BY <4>5
      <3> QED BY <1>0, <3>2, <3>3
    <2> QED BY <2>5, <2>6, BusSteps DEF Clock, ReadEnds
  <1> QED BY <1>2, <1>3

LEMMA ScanInvHolds == Spec => []ScanInv
  <1>1. Init => ScanInv
    <2>1. Init => SregInv /\ WholeInv /\ VisInv /\ SearchInv
      BY DEF Init, SregInv, WholeInv, VisInv, SearchInv
    <2> QED BY <2>1, PresentedInit DEF ScanInv, Init, ShownInv
  <1>2. ASSUME TypeOK, ScanInv, [Next]_vars PROVE ScanInv'
    <2> USE <1>2 DEF ScanInv
    <2>1. CASE Clock
      <3>1. Z80Bus /\ Edge /\ Keymatrix /\ Remember
        BY <2>1, Zenon DEF Clock
      <3> QED BY <2>1, <3>1, SregClock, PresentedClock, ShownKept, WholeClock, VisClock, SearchClock, Zenon
    <2>2. CASE Reset
      <3>1. SregInv' /\ ShownInv' /\ WholeInv' /\ VisInv' /\ SearchInv'
        BY <2>2 DEF Reset, SregInv, ShownInv, WholeInv, VisInv, SearchInv
      <3>2. Presented'
        BY <2>2 DEF Reset, Presented
      <3> QED BY <3>1, <3>2
    <2>3. CASE UNCHANGED vars
      <3> USE <2>3 DEF vars, bus, matrix, modif, history
      <3>1. SregInv' /\ ShownInv' /\ Presented' /\ WholeInv'
        BY DEF SregInv, ShownInv, Presented, WholeInv
      <3>2. VisInv'
        BY DEF VisInv, I_CPU_ADDR
      <3>3. \A s, m : Missed(s, m)' <=> Missed(s, m)
        BY Zenon DEF Missed, After
      <3>4. SearchInv'
        BY <3>3, Zenon DEF SearchInv
      <3> QED BY <3>1, <3>2, <3>4
    <2> QED BY <2>1, <2>2, <2>3 DEF Next
  <1> QED BY <1>1, <1>2, TypeCorrect, PTL DEF Spec

\* For every key map, length of a machine cycle and order of reading that comes to every
\* row with a key within thirteen reads: a key presented in full has been read before it is
\* withdrawn (keyborad.v:247-259).
THEOREM KeySeenCorrect ==
    ASSUME ScanCovers
    PROVE  Spec => KeySeen
  <1>1. ASSUME TypeOK, ScanInv, Withdraw, whole PROVE seen
    <2> SUFFICES ASSUME ~seen PROVE FALSE
      OBVIOUS
    <2>1. w_cpu_iorq_rise /\ r_kb_data_en /\ r_kb_scan_cnt = 13
      BY <1>1 DEF Withdraw, ReadCounted, LastRead
    <2>2. I_CPU_IORQ /\ cyc = 1
      BY <1>1, <2>1, CountedThen DEF ScanInv
    <2>3. key # None
      BY <1>1, <2>1 DEF ScanInv, WholeInv, Presented
    <2>4. PICK s \in 1 .. Len(Scan) : \E m \in Nat : Missed(s, m)
      BY <1>1, <2>3 DEF ScanInv, SearchInv
    <2>5. PICK m \in Nat : Missed(s, m)
      BY <2>4
    <2>6. m >= 13
      BY <2>1, <2>2, <2>5 DEF Missed
    <2>7. key \in Mapped
      BY <1>1, <2>3 DEF TypeOK
    <2>8. PICK d \in 0 .. 12 : Scan[After(s, d)] = KeyMap[key].addr
      BY <2>7 DEF ScanCovers
    <2> QED BY <2>5, <2>6, <2>8 DEF Missed
  <1>2. TypeOK /\ ScanInv /\ [Next]_vars => [Withdraw /\ whole => seen]_vars
    BY <1>1
  <1> QED BY <1>2, TypeCorrect, ScanInvHolds, PTL DEF Spec, KeySeen

-----------------------------------------------------------------------------
\* reads runs ahead of the counter by one at most: by a read that had begun, and was not
\* counted, when the key came on.
GoesInv ==
    /\ reads \in Nat /\ spoilt \in BOOLEAN
    /\ key = None \/ ~counted => reads = 0
    /\ reads <= r_kb_scan_cnt + 1
    /\ I_CPU_IORQ /\ cyc >= 2 /\ ~spoilt => reads <= r_kb_scan_cnt

LEMMA OneAhead ==
    \A a, b, c \in Nat :
        b <= c => /\ (a <= b => (a + 1 \in Nat /\ a + 1 <= c + 1))
                  /\ (a <= b + 1 => a <= c + 1)
  OBVIOUS

LEMMA GoesClock ==
    ASSUME TypeOK, SregInv, Presented, GoesInv, MCNext, Clock
    PROVE  GoesInv'
  <1>0. /\ reads \in Nat /\ r_kb_scan_cnt \in Nat /\ r_kb_scan_cnt' \in Nat
        /\ cyc \in Nat /\ cyc' \in Nat /\ (counted \in BOOLEAN) /\ (counted' \in BOOLEAN)
    <2>1. r_kb_scan_cnt' \in 0 .. 13 /\ cyc' \in 0 .. BusClocks - 1 /\ counted' \in BOOLEAN
      BY TypeClock DEF TypeOK
    <2> QED BY <2>1, BusAssumption DEF TypeOK, GoesInv
  <1>1. spoilt' \in BOOLEAN
    BY Zenon DEF MCNext
  <1>2. ASSUME key' = None \/ ~counted' PROVE reads' = 0
    BY <1>2 DEF MCNext
  <1>3. CASE key' = None \/ ~counted'
    BY <1>0, <1>1, <1>2, <1>3 DEF GoesInv
  <1>4. CASE key' # None /\ counted'
    <2>1. reads' = IF ReadEnds /\ ~spoilt THEN reads + 1 ELSE reads
      BY <1>4 DEF MCNext
    <2>2. \/ ~KeyDown /\ key' = key /\ counted
          \/ KeyDown /\ code \in Mapped /\ counted
      BY <1>4, <1>0, Presentation DEF Clock, Remember
    <2>3. r_kb_scan_cnt' >= r_kb_scan_cnt
      <3>1. \/ r_kb_scan_cnt' = r_kb_scan_cnt
            \/ r_kb_scan_cnt' = r_kb_scan_cnt + 1
        BY <1>4, Presentation, Zenon
      <3> QED BY <1>0, <3>1
    <2>4. ReadEnds => I_CPU_IORQ /\ cyc >= 2
      BY BusAssumption DEF ReadEnds
    <2>5. reads' \in Nat /\ reads' <= r_kb_scan_cnt' + 1
      <3>1. CASE ReadEnds /\ ~spoilt
        <4>1. reads <= r_kb_scan_cnt /\ reads' = reads + 1
          BY <2>1, <2>4, <3>1, Zenon DEF GoesInv
        <4>2. r_kb_scan_cnt <= r_kb_scan_cnt'
          BY <1>0, <2>3
        <4> QED BY <1>0, <4>1, <4>2, OneAhead, Zenon
      <3>2. CASE ~(ReadEnds /\ ~spoilt)
        <4>1. reads <= r_kb_scan_cnt + 1 /\ reads' = reads
          BY <2>1, <3>2, Zenon DEF GoesInv
        <4>2. r_kb_scan_cnt <= r_kb_scan_cnt'
          BY <1>0, <2>3
        <4> QED BY <1>0, <4>1, <4>2, OneAhead, Zenon
      <3> QED BY <3>1, <3>2
    <2>6. ASSUME I_CPU_IORQ', cyc' >= 2, ~spoilt' PROVE reads' <= r_kb_scan_cnt'
      <3>1. I_CPU_IORQ /\ cyc' = cyc + 1 /\ cyc < BusClocks - 1 /\ BusClocks \in Nat
        BY <2>6, BusSteps DEF Clock
      <3>2. reads' = reads
        BY <1>0, <2>1, <3>1 DEF ReadEnds
      <3>3. ~spoilt /\ (w_cpu_iorq_rise => code = None)
        <4>1. spoilt' = (cyc' # 0 /\ (spoilt \/ (w_cpu_iorq_rise /\ code # None)))
          BY Zenon DEF MCNext
        <4>2. cyc' # 0
          BY <2>6
        <4> QED BY <2>6, <4>1, <4>2, Zenon
      <3>4. CASE cyc >= 2
        BY <1>0, <2>3, <3>1, <3>2, <3>3, <3>4 DEF GoesInv
      <3>5. CASE cyc = 1
        <4>1. w_cpu_iorq_rise /\ code = None
          BY <3>1, <3>3, <3>5 DEF SregInv, w_cpu_iorq_rise
        <4>2. ~KeyDown
          BY <4>1, Codes DEF KeyDown
        <4>3. key # None /\ counted /\ r_kb_data_en
          BY <1>4, <2>2, <4>2 DEF Presented
        <4>4. ~Withdraw /\ ReadCounted
          BY <1>4, <4>1, <4>2, <4>3 DEF Clock, Remember, ReadCounted
        <4>5. CountRead
          BY <4>1, <4>4, Zenon DEF Clock, Keymatrix, Decode, NoRead
        <4>6. r_kb_scan_cnt' = r_kb_scan_cnt + 1
          BY <4>5 DEF CountRead
        <4> QED BY <1>0, <3>2, <4>6 DEF GoesInv
      <3> QED BY <1>0, <2>6, <3>1, <3>4, <3>5
    <2>7. key' # None /\ counted'
      BY <1>4
    <2> QED BY <1>1, <2>5, <2>6, <2>7, Zenon DEF GoesInv
  <1> QED BY <1>3, <1>4

LEMMA MCImplements == MCSpec => Spec
  <1>1. MCInit => Init
    BY DEF MCInit
  <1>2. [MCNext]_mcvars => [Next]_vars
    BY Zenon DEF MCNext, mcvars
  <1> QED BY <1>1, <1>2, PTL DEF MCSpec, Spec

\* No key sticks: released or not, repeated or not, it is gone after fourteen reads of the
\* port, as long as no code outside the matrix interferes (keyborad.v:247-253).
THEOREM KeyGoesCorrect == MCSpec => []KeyGoes
  <1>1. MCInit => GoesInv
    <2> SUFFICES ASSUME MCInit PROVE GoesInv
      OBVIOUS
    <2>1. reads = 0 /\ spoilt \in BOOLEAN /\ r_kb_scan_cnt = 0 /\ ~I_CPU_IORQ
      BY Zenon DEF MCInit, Init
    <2>2. reads \in Nat /\ reads <= r_kb_scan_cnt + 1
      BY <2>1
    <2> QED BY <2>1, <2>2, Zenon DEF GoesInv
  <1>2. ASSUME TypeOK, ScanInv, GoesInv, [MCNext]_mcvars PROVE GoesInv'
    <2>1. CASE MCNext /\ Clock
      BY <1>2, <2>1, GoesClock DEF ScanInv
    <2>2. CASE MCNext /\ Reset
      <3>1. key' = None /\ r_kb_scan_cnt' = 0 /\ I_CPU_IORQ' = FALSE
        BY <2>2 DEF Reset
      <3>2. reads' = 0 /\ spoilt' \in BOOLEAN
        BY <2>2, <3>1, Zenon DEF MCNext
      <3> QED BY <3>1, <3>2 DEF GoesInv
    <2>3. CASE UNCHANGED mcvars
      BY <1>2, <2>3 DEF GoesInv, mcvars, vars, bus, matrix, history
    <2> QED BY <1>2, <2>1, <2>2, <2>3 DEF MCNext, Next
  <1>3. TypeOK /\ GoesInv => KeyGoes
    BY DEF TypeOK, GoesInv, KeyGoes
  <1> QED BY <1>1, <1>2, <1>3, MCImplements, TypeCorrect, ScanInvHolds, PTL DEF MCSpec
=============================================================================
