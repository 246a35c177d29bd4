------------------------------ MODULE Keyboard ------------------------------
(***************************************************************************)
(* KEYBOARD (keyborad.v), clock by clock: it turns the bytes of a PS/2     *)
(* keyboard into the PC-8001's key matrix, which the Z80 reads row by row  *)
(* through ports 00h to 0Fh.                                               *)
(*                                                                         *)
(* A PS/2 key tells when it is pressed and released; the matrix shows a    *)
(* key while it is down.  KEYBOARD keeps the modifiers that way, and shows *)
(* any other key for fourteen reads of its ports from when it is pressed,  *)
(* whether it is still down or not.                                        *)
(*                                                                         *)
(* A step is one rising edge of I_CLK.  The bytes come from the receiver,  *)
(* as Ps2Link promises them.  A byte of the matrix is the set of its 1     *)
(* bits; pc.v:240 inverts it on its way to the Z80.                        *)
(***************************************************************************)
EXTENDS Naturals, Sequences

CONSTANTS
    Keys,         \* the keys of the PS/2 keyboard, by the last byte they send
    Extended,     \* those that send E0 first
    KeyMap,       \* where the tables place them in the matrix: see MapAssumption
    Scan,         \* the rows the Z80's program reads, in order, again and again
    BusClocks,    \* clocks in a machine cycle of the Z80 (18 in pc.v)
    None          \* no byte

BREAK == 240                               \* F0
E0    == 224
LEFT_SHIFT == 18   KANA == 19   CTRL == 20   GRAPH == 17
Modifier   == {LEFT_SHIFT, KANA, CTRL, GRAPH}
Code       == Keys \cup {BREAK, E0}

ASSUME KeyAssumption ==
    /\ Keys \subseteq (1 .. 255) \ {BREAK, E0}
    /\ Extended \subseteq Keys /\ None \notin 0 .. 255
\* Five clocks take a read's address to the matrix and its byte back to the Z80.
ASSUME BusAssumption ==
    /\ BusClocks \in Nat /\ BusClocks >= 5
    /\ Scan \in Seq(0 .. 9) /\ Len(Scan) >= 1

-----------------------------------------------------------------------------
(* The key map: table, bit and forced shift of a PS/2 code. *)

\* KBTBL_1 to KBTBL_9, from bit 0; 0 where the table has no key.
KBTBL == <<
    <<  0,   0,   0,   0,   0,   0,   0,  90>>,     \* 1: ENTER
    << 84,  28,  50,  33,  35,  36,  43,  52>>,     \* 2: @ A B C D E F G
    << 51,  67,  59,  66,  75,  58,  49,  68>>,     \* 3: H I J K L M N O
    << 77,  21,  45,  27,  44,  60,  42,  29>>,     \* 4: P Q R S T U V W
    << 34,  53,  26,  91, 106,  93,  85,  78>>,     \* 5: X Y Z [ yen ] ^ -
    << 69,  22,  30,  38,  37,  46,  54,  61>>,     \* 6: 0 1 2 3 4 5 6 7
    << 62,  70,  82,  76,  65,  73,  74,  81>>,     \* 7: 8 9 : ; , . / _
    <<108, 117, 116, 113,   0,   0,   0,   0>>,     \* 8: CLR UP RIGHT DEL
    <<119,   5,   6,   4,  12,   3,  41, 118>> >>   \* 9: STOP F1 .. F5 SPACE ESC

\* KBTBL_8's keys that exist on a PC-8001 with SHIFT only: DOWN, LEFT, INS.
Shifted == <<0, 114, 107, 112, 0, 0, 0, 0>>

Place == [addr : 1 .. 9, bit : 0 .. 7, shift : BOOLEAN]

Sits(key, p) == IF p.shift THEN p.addr = 8 /\ Shifted[p.bit + 1] = key
                           ELSE KBTBL[p.addr][p.bit + 1] = key

Hits(key) == {p \in Place : Sits(key, p)}

\* f_kbtbldata_sel: a code counts where exactly one table answers, and a modifier is
\* none of the matrix's keys, whose bytes have a single bit.
ASSUME MapAssumption ==
    /\ \A key \in Keys \ Modifier : key \in DOMAIN KeyMap <=> \E p \in Place : Hits(key) = {p}
    /\ \A key \in DOMAIN KeyMap : key \in Keys \ Modifier /\ Hits(key) = {KeyMap[key]}
Mapped == DOMAIN KeyMap

VARIABLES
    \* the Z80's bus: place in Scan, in a machine cycle that reads the port, its clock
    row, I_CPU_IORQ, cyc, input_data,
    \* the PS/2 keyboard: keys down, bytes of the event it still has to send
    down, pending,
    \* the receiver
    owed, code,
    \* KEYBOARD; r_kb_held is the set of the four modifier flags
    iorq_sreg, r_kb_addr, r_kb_data, r_kb_status, r_kb_data_en, r_kb_scan_cnt,
    r_kb_break, r_kb_held, O_KB_DATA,
    \* history, see below
    known, key, counted, whole, seen, during

bus     == <<row, I_CPU_IORQ, cyc, input_data>>
ps2     == <<down, pending, owed, code>>
matrix  == <<r_kb_addr, r_kb_data, r_kb_status, r_kb_data_en, r_kb_scan_cnt>>
modif   == <<r_kb_break, r_kb_held>>
history == <<known, key, counted, whole, seen, during>>
vars    == <<bus, ps2, iorq_sreg, matrix, modif, O_KB_DATA, history>>

Link == INSTANCE Ps2Link

I_CPU_ADDR == Scan[row]
Bits       == SUBSET (0 .. 7)

\* ~sreg[1] & sreg[0]
w_cpu_iorq_rise == iorq_sreg = 1

TypeOK ==
    /\ row \in 1 .. Len(Scan) /\ I_CPU_IORQ \in BOOLEAN
    /\ cyc \in 0 .. BusClocks - 1 /\ input_data \in Bits
    /\ down \subseteq Keys /\ pending \in Seq(Code) /\ Len(pending) <= 3
    /\ owed \in Code \cup {None} /\ code \in Code \cup {None}
    /\ iorq_sreg \in 0 .. 3
    /\ r_kb_addr \in 1 .. 9 \cup {15} /\ r_kb_data \in Bits
    /\ r_kb_status \in BOOLEAN /\ r_kb_data_en \in BOOLEAN
    /\ r_kb_scan_cnt \in 0 .. 13
    /\ r_kb_break \in BOOLEAN /\ r_kb_held \subseteq Modifier
    /\ O_KB_DATA \in Bits
    /\ known \subseteq Keys /\ key \in Mapped \cup {None}
    /\ counted \in BOOLEAN /\ whole \in BOOLEAN /\ seen \in BOOLEAN
    /\ during \subseteq (SUBSET Modifier) \X (Mapped \cup {None})

Init ==
    /\ row = 1 /\ I_CPU_IORQ = FALSE /\ cyc = 0 /\ input_data = {}
    /\ down = {} /\ pending = <<>>
    /\ Link!Init
    /\ iorq_sreg = 0 /\ O_KB_DATA = {}
    /\ r_kb_addr = 15 /\ r_kb_data = {} /\ r_kb_status = FALSE
    /\ r_kb_data_en = FALSE /\ r_kb_scan_cnt = 0
    /\ r_kb_break = FALSE /\ r_kb_held = {}
    /\ known = {} /\ key = None /\ counted = TRUE /\ whole = FALSE /\ seen = FALSE
    /\ during = {<<{}, None>>}

-----------------------------------------------------------------------------
(* The environment of one clock. *)

\* A machine cycle that reads a port is followed by others that do not, at least a
\* fetch; those are one phase here, which may last.
Z80Bus ==
    /\ input_data' = IF I_CPU_IORQ THEN O_KB_DATA ELSE input_data
    /\ \/ /\ cyc < BusClocks - 1
          /\ cyc' = cyc + 1
          /\ UNCHANGED <<row, I_CPU_IORQ>>
       \/ /\ cyc = BusClocks - 1 /\ ~I_CPU_IORQ
          /\ UNCHANGED <<row, I_CPU_IORQ, cyc>>
       \/ /\ cyc = BusClocks - 1
          /\ cyc' = 0 /\ I_CPU_IORQ' = ~I_CPU_IORQ
          /\ row' = IF I_CPU_IORQ THEN (row % Len(Scan)) + 1 ELSE row

\* A key goes down, repeats, or goes up.
Make(k)  == IF k \in Extended THEN <<E0, k>> ELSE <<k>>
Break(k) == IF k \in Extended THEN <<E0, BREAK, k>> ELSE <<BREAK, k>>

Press(k) ==
    /\ k \notin down /\ down' = down \cup {k}
    /\ pending' = Make(k) /\ known' = known \cup {k}

Repeat(k) ==
    /\ k \in down /\ UNCHANGED down
    /\ pending' = Make(k) /\ known' = known \cup {k}

Release(k) ==
    /\ k \in down /\ down' = down \ {k}
    /\ pending' = Break(k) /\ known' = known \ {k}

Silent == pending = <<>> /\ owed = None /\ code = None

Hand ==
    /\ Silent
    /\ Link!Quiet
    /\ \E k \in Keys : Press(k) \/ Repeat(k) \/ Release(k)

Send ==
    /\ pending # <<>>
    /\ Link!Begin /\ owed' = Head(pending)
    /\ pending' = Tail(pending)
    /\ UNCHANGED <<down, known>>

Receive == (Link!HandOver \/ Link!Quiet) /\ UNCHANGED <<down, pending, known>>

Ps2Keyboard == Hand \/ Send \/ Receive

-----------------------------------------------------------------------------
(* KEYBOARD: a code, a read of the port, the output. *)

\* The comparisons look at w_kb_data[7:0], which for a modifier and the prefix F0 is
\* the code itself (KBTBL_10) and for a key of the matrix a single bit.
BreakPrefix ==
    /\ code = BREAK
    /\ r_kb_break' = TRUE
    /\ UNCHANGED <<matrix, r_kb_held>>

\* Of the keys that go up only a modifier matters.
KeepHeld == r_kb_held                          \* mutant: no key is released
Released == r_kb_held \ {code}

KeyUp ==
    /\ code # BREAK /\ r_kb_break
    /\ r_kb_break' = FALSE /\ r_kb_held' = Released
    /\ UNCHANGED matrix

ModifierDown ==
    /\ code \in Modifier /\ ~r_kb_break
    /\ r_kb_held' = r_kb_held \cup {code}
    /\ UNCHANGED <<matrix, r_kb_break>>

InvalidCode ==
    /\ code \notin Modifier \cup Mapped \cup {BREAK} /\ ~r_kb_break
    /\ r_kb_data_en' = FALSE
    /\ UNCHANGED <<r_kb_addr, r_kb_data, r_kb_status, r_kb_scan_cnt, modif>>

NotEnabled == r_kb_data_en                     \* mutant: data_en is not set
Enabled    == TRUE

KeyDown ==
    /\ code \in Mapped /\ ~r_kb_break
    /\ r_kb_addr' = KeyMap[code].addr
    /\ r_kb_data' = {KeyMap[code].bit}
    /\ r_kb_status' = KeyMap[code].shift
    /\ r_kb_data_en' = Enabled
    /\ UNCHANGED <<r_kb_scan_cnt, modif>>

Decode == code # None /\ (BreakPrefix \/ KeyUp \/ ModifierDown \/ InvalidCode \/ KeyDown)

\* A read that falls on the clock of a code is not counted.
ReadCounted == code = None /\ r_kb_data_en /\ w_cpu_iorq_rise

LastShort == r_kb_scan_cnt = 7                 \* mutant: half the reads
LastRead  == r_kb_scan_cnt = 13

StaleStatus   == r_kb_status                   \* mutant: the shift is not withdrawn
ClearedStatus == FALSE
StaleCount    == r_kb_scan_cnt                 \* mutant: the count goes on
ClearedCount  == 0

Withdraw ==
    /\ ReadCounted /\ LastRead
    /\ r_kb_addr' = 15 /\ r_kb_data' = {} /\ r_kb_status' = ClearedStatus
    /\ r_kb_data_en' = FALSE /\ r_kb_scan_cnt' = ClearedCount
    /\ UNCHANGED modif

CountRead ==
    /\ ReadCounted /\ ~LastRead
    /\ r_kb_scan_cnt' = r_kb_scan_cnt + 1
    /\ UNCHANGED <<r_kb_addr, r_kb_data, r_kb_status, r_kb_data_en, modif>>

NoRead == code = None /\ ~ReadCounted /\ UNCHANGED <<matrix, modif>>

Keymatrix == Decode \/ Withdraw \/ CountRead \/ NoRead

\* Row 8 has the modifiers, one at a time; a key of another row is never masked.
w_out_kb_data ==
    IF I_CPU_ADDR = 8 /\ LEFT_SHIFT \in r_kb_held THEN {6}
    ELSE IF I_CPU_ADDR = 8 /\ r_kb_status THEN {6} \cup r_kb_data
    ELSE IF I_CPU_ADDR = 8 /\ KANA \in r_kb_held THEN {5}
    ELSE IF I_CPU_ADDR = 8 /\ GRAPH \in r_kb_held THEN {4}
    ELSE IF I_CPU_ADDR = 8 /\ CTRL \in r_kb_held THEN {7}
    ELSE IF I_CPU_ADDR = r_kb_addr THEN r_kb_data
    ELSE {}

Output == O_KB_DATA' = w_out_kb_data

Edge == iorq_sreg' = (2 * iorq_sreg + (IF I_CPU_IORQ THEN 1 ELSE 0)) % 4

-----------------------------------------------------------------------------
(* History: what the properties remember. *)

\* What a PC-8001 keyboard shows in a row while these modifiers and this key are down.
ModifierBit == [m \in Modifier |->
    CASE m = LEFT_SHIFT -> 6 [] m = KANA -> 5 [] m = GRAPH -> 4 [] m = CTRL -> 7]

KeyBits(k, r) ==
    IF k = None THEN {}
    ELSE {b \in {KeyMap[k].bit} : r = KeyMap[k].addr}
         \cup {b \in {6} : r = 8 /\ KeyMap[k].shift}

Shows(held, k, r) == KeyBits(k, r) \cup {b \in 0 .. 7 : r = 8 /\ \E m \in held : ModifierBit[m] = b}

\* A code that is no key of the matrix cuts a presentation short.
CutShort == InvalidCode /\ r_kb_data_en

\* The Z80 has the byte of a read.
ReadEnds == I_CPU_IORQ /\ cyc = BusClocks - 1

\* known: the keys down whose pressing this side has been told since the reset.
\* key: the key presented.
\* counted: r_kb_scan_cnt counts the reads of this presentation.
\* whole: the presentation began with none before it, and nothing has replaced or
\*        masked the key since.  seen: the Z80 has read the key's bit since.
\* during: what the matrix stood for in the clocks of this machine cycle.
Remember ==
    /\ key' = IF KeyDown THEN code ELSE IF Withdraw THEN None ELSE key
    /\ counted' = IF CutShort THEN FALSE ELSE IF Withdraw THEN TRUE ELSE counted
    /\ whole' = IF KeyDown THEN ~r_kb_data_en /\ counted /\ ~(r_kb_addr' = 8 /\ r_kb_held # {})
                ELSE whole /\ ~CutShort /\ ~(r_kb_addr = 8 /\ r_kb_held' # {})
    /\ seen' = IF KeyDown THEN FALSE
               ELSE seen \/ (ReadEnds /\ key # None /\ KeyBits(key, I_CPU_ADDR) # {}
                             /\ KeyBits(key, I_CPU_ADDR) \subseteq input_data)
    /\ during' = {<<r_kb_held', key'>>} \cup (IF cyc' = 0 THEN {} ELSE during)

Clock == Z80Bus /\ Ps2Keyboard /\ Keymatrix /\ Output /\ Edge /\ Remember

\* The button resets KEYBOARD, the receiver and the Z80; keys that are down stay down.
\* It comes while the PS/2 keyboard is silent: see Ps2.
Reset ==
    /\ Silent
    /\ row' = 1 /\ I_CPU_IORQ' = FALSE /\ cyc' = 0 /\ UNCHANGED input_data
    /\ Link!Reset /\ UNCHANGED <<down, pending>>
    /\ iorq_sreg' = 0 /\ O_KB_DATA' = {}
    /\ r_kb_addr' = 15 /\ r_kb_data' = {} /\ r_kb_status' = FALSE
    /\ r_kb_data_en' = FALSE /\ r_kb_scan_cnt' = 0
    /\ r_kb_break' = FALSE /\ r_kb_held' = {}
    /\ known' = {} /\ key' = None /\ counted' = TRUE /\ whole' = FALSE /\ seen' = FALSE
    /\ during' = {<<{}, None>>}

Next == Clock \/ Reset

Spec == Init /\ [][Next]_vars

-----------------------------------------------------------------------------
(* Properties. *)

\* The four flags are the modifiers that are down: "held until the break code comes,
\* released when it does" (keyborad.v:201), whatever else is pressed meanwhile.
\* After a reset it is the modifiers pressed, or repeated, since.
ModifiersKept == Silent => r_kb_held = known \cap Modifier /\ ~r_kb_break

\* The registers agree on whether a key is presented, and its reads are counted from
\* the first, as long as no code outside the matrix cuts a presentation short
\* (keyborad.v:237-259).
Presented ==
    /\ r_kb_addr = 15 <=> key = None
    /\ counted => (r_kb_data_en <=> key # None)
    /\ counted /\ key = None => r_kb_scan_cnt = 0

\* What the Z80 reads of a row is what the keyboard stood for at some clock of that
\* very read, never a mixture of two keys or the rest of one withdrawn; of several
\* bits due in row 8 it may see a part, but at least one (keyborad.v:265-284).
RowRead ==
    ReadEnds => \E p \in during :
        LET due == Shows(p[1], p[2], I_CPU_ADDR) IN
        /\ input_data \subseteq due
        /\ input_data = {} => due = {}
        /\ I_CPU_ADDR # 8 => input_data = due

\* Fourteen reads are enough: a key that is presented in full has been read by a
\* program that goes through the rows in turn before it is withdrawn
\* (keyborad.v:247-259).
KeySeen == [][Withdraw /\ whole => seen]_vars
=============================================================================
