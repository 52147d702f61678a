-------------------------- MODULE TimerWait_proofs --------------------------
(***************************************************************************)
(* Proofs about TimerWait, for counters and words of every width, all      *)
(* cycles and ticks a sleep may ask for, and instructions of every length. *)
(***************************************************************************)
EXTENDS TimerWait, DataLemmas

-----------------------------------------------------------------------------
(* Numbers.                                                                *)

LEMMA Widths ==
  /\ 2^CounterBits \in Nat /\ 2^CounterBits >= 2
  /\ Timer!Range = 2^CounterBits
  /\ CLINT!Word = 2^WordBits /\ CLINT!Word \in Nat /\ CLINT!Word >= 2
  /\ CLINT!MaxTime \in Nat /\ CLINT!MaxTime + 1 = CLINT!Word * CLINT!Word
  /\ CLINT!MaxTime >= 1
<1>1. \A n \in Nat \ {0} : 2^n \in Nat /\ 2^n >= 2
  <2> SUFFICES ASSUME NEW n \in Nat \ {0} PROVE 2^n \in Nat /\ 2^n >= 2
    OBVIOUS
  <2>1. CASE n = 1
    BY <2>1
  <2>2. CASE n >= 2
    BY <2>2, PowerOfTwo
  <2> QED BY <2>1, <2>2
<1>2. /\ 2^CounterBits \in Nat /\ 2^CounterBits >= 2
      /\ 2^WordBits \in Nat /\ 2^WordBits >= 2
  BY <1>1, WaitAssumption
<1>3. \A w \in Nat : w >= 2 => w * w \in Nat /\ w * w >= 4
  OBVIOUS
<1> QED BY <1>2, <1>3 DEF Timer!Range, CLINT!Word, CLINT!MaxTime

\* The words of a time.
LEMMA Words ==
  ASSUME NEW t \in 0..CLINT!MaxTime
  PROVE  /\ CLINT!High(t) \in 0..CLINT!Word-1 /\ CLINT!Low(t) \in 0..CLINT!Word-1
         /\ t = CLINT!High(t) * CLINT!Word + CLINT!Low(t)
<1> DEFINE w == CLINT!Word
           h == t \div w
           l == t % w
<1>1. w \in Nat \ {0} /\ t \in Nat /\ t < w * w
  BY Widths
<1> HIDE DEF w
<1>2. h \in Nat /\ l \in 0..w-1 /\ t = h * w + l
  BY <1>1
<1> HIDE DEF h, l
<1>3. h < w
  <2>1. ASSUME h >= w PROVE h * w >= w * w
    BY <1>1, <1>2, <2>1
  <2> QED BY <1>1, <1>2, <2>1
<1> QED BY <1>1, <1>2, <1>3 DEF CLINT!High, CLINT!Low, w, h, l

LEMMA JoinedWords ==
  ASSUME NEW h \in 0..CLINT!Word-1, NEW l \in 0..CLINT!Word-1
  PROVE  /\ h * CLINT!Word + l \in 0..CLINT!MaxTime
         /\ CLINT!High(h * CLINT!Word + l) = h
         /\ CLINT!Low(h * CLINT!Word + l) = l
<1> DEFINE w == CLINT!Word
           x == h * w + l
<1>1. w \in Nat \ {0} /\ CLINT!MaxTime = w * w - 1
  BY Widths
<1> HIDE DEF w
<1>2. h * w \in Nat /\ h * w <= (w - 1) * w /\ (w - 1) * w = w * w - w /\ w * w \in Nat
  <2>1. \A v \in Nat \ {0} : \A g \in 0..v-1 : g * v \in Nat /\ g * v <= (v - 1) * v
    OBVIOUS
  <2>2. \A v \in Nat \ {0} : (v - 1) * v = v * v - v /\ v * v \in Nat
    OBVIOUS
  <2> QED BY <1>1, <2>1, <2>2 DEF w
<1>3. x \in 0..CLINT!MaxTime
  BY <1>1, <1>2 DEF w
<1>4. x \div w = h /\ x % w = l
  <2>1. x \in Int /\ h \in Int /\ l \in Int /\ 0 <= l /\ l < w
    BY <1>1, <1>2 DEF w
  <2> QED BY <1>1, <2>1, Division
<1> QED BY <1>3, <1>4 DEF CLINT!High, CLINT!Low, w

\* The high word of the next time is the same or the next one.
LEMMA NextHigh ==
  ASSUME NEW t \in 0..CLINT!MaxTime, t < CLINT!MaxTime
  PROVE  \/ CLINT!High(t) = CLINT!High(t + 1)
         \/ CLINT!High(t) * CLINT!Word = CLINT!High(t + 1) * CLINT!Word - CLINT!Word
<1> DEFINE w == CLINT!Word
           h == CLINT!High(t)
           l == CLINT!Low(t)
<1>1. h \in Nat /\ l \in 0..w-1 /\ t = h * w + l /\ w \in Nat /\ w >= 2
  BY Words, Widths
<1>a. w = CLINT!Word /\ h = CLINT!High(t)
  OBVIOUS
<1>b. h \in 0..w-1
  BY Words
<1> HIDE DEF w, h, l
<1>2. CASE l < w - 1
  <2>1. t + 1 = h * w + (l + 1) /\ l + 1 \in 0..w-1
    BY <1>1, <1>2
  <2>2. CLINT!High(t + 1) = h
    BY <1>a, <1>b, <2>1, JoinedWords
  <2> QED BY <1>a, <2>2
<1>3. CASE l = w - 1
  <2>1. t + 1 = (h + 1) * w + 0
    <3>1. \A v, g, k \in Nat : k = v - 1 => (g * v + k) + 1 = (g + 1) * v + 0
      OBVIOUS
    <3> QED BY <1>1, <1>3, <3>1
  <2>2. t + 1 \in 0..CLINT!MaxTime
    BY Widths
  <2>3. (t + 1) \div w = h + 1
    <3>1. w \in Nat \ {0} /\ h + 1 \in Nat
      BY <1>1
    <3>2. \A v \in Nat \ {0} : \A g \in Nat : (g * v + 0) \div v = g
      OBVIOUS
    <3> QED BY <2>1, <3>1, <3>2, Zenon
  <2>4. CLINT!High(t + 1) = h + 1
    BY <1>a, <2>3 DEF CLINT!High
  <2>5. (h + 1) * w - w = h * w
    BY <1>1
  <2> QED BY <1>a, <2>4, <2>5
<1> QED BY <1>1, <1>2, <1>3

-----------------------------------------------------------------------------
(* Operations and programs.                                                *)

Registers == {"COUNT", "COMPARE", "CTRL", "STATUS"}
CtrlBits == {"ENABLE", "AUTORESET"}
CmpWords == {"MTIMECMP_HIGH0", "MTIMECMP_LOW0"}
Plain == {"read_ctrl", "save", "wfi", "asleep", "restore_mie", "restore_gie", "read_high",
          "read_low", "mret", "spin"}
Operation ==
  [op : Plain]
  \cup [op : {"write"}, req : [reg : {"COUNT", "COMPARE"}, value : Values, bits : {{}}]]
  \cup [op : {"write"}, req : [reg : {"CTRL"}, value : Values, bits : SUBSET CtrlBits]]
  \cup [op : {"write"}, req : [reg : {"STATUS"}, value : Values, bits : SUBSET {"EXPIRED"}]]
  \cup [op : {"write_ctrl"}, bit : CtrlBits, on : BOOLEAN]
  \cup [op : {"mie", "gie", "wait"}, on : BOOLEAN]
  \cup [op : {"write_cmp"}, reg : CmpWords, offset : Nat]
  \cup [op : {"wfi", "asleep"}, ticks : Ticks]


LEMMA OperationTypes ==
  /\ \A name \in Plain : Op(name) \in Operation
  /\ \A v \in Values : Write("COUNT", v) \in Operation /\ Write("COMPARE", v) \in Operation
  /\ \A bs \in SUBSET CtrlBits : WriteBits("CTRL", bs) \in Operation
  /\ WriteBits("STATUS", {"EXPIRED"}) \in Operation
  /\ \A bit \in CtrlBits, on \in BOOLEAN : SetBit(bit, on) \in Operation
  /\ \A name \in {"mie", "gie", "wait"}, on \in BOOLEAN : Set(name, on) \in Operation
  /\ \A reg \in CmpWords, o \in Nat : WriteCmp(reg, o) \in Operation
  /\ \A t \in Ticks : Wfi(t) \in Operation
<1>1. 0 \in Values /\ {} \in SUBSET CtrlBits
  BY Widths DEF Values
<1> QED BY <1>1 DEF Operation, Op, Write, WriteBits, SetBit, Set, WriteCmp, Wfi

\* Programs put together.
LEMMA Joined ==
  ASSUME NEW s \in Seq(Operation), NEW t \in Seq(Operation)
  PROVE  /\ s \o t \in Seq(Operation) /\ Len(s \o t) = Len(s) + Len(t)
         /\ \A i \in 1..Len(s) : (s \o t)[i] = s[i]
         /\ \A i \in 1..Len(t) : (s \o t)[Len(s) + i] = t[i]
<1>1. /\ s \o t \in Seq(Operation) /\ Len(s \o t) = Len(s) + Len(t)
      /\ \A i \in 1..Len(s) + Len(t) : (s \o t)[i] = IF i <= Len(s) THEN s[i] ELSE t[i - Len(s)]
  BY ConcatProperties
<1> QED BY <1>1

LEMMA ClintSetProgram ==
  ASSUME NEW t \in Nat
  PROVE  /\ clint_set_mtimecmp(t) \in Seq(Operation) /\ Len(clint_set_mtimecmp(t)) = 2
         /\ clint_set_mtimecmp(t)[1] = WriteCmp("MTIMECMP_HIGH0", t)
         /\ clint_set_mtimecmp(t)[2] = WriteCmp("MTIMECMP_LOW0", t)
<1>1. /\ WriteCmp("MTIMECMP_HIGH0", t) \in Operation /\ WriteCmp("MTIMECMP_LOW0", t) \in Operation
  BY OperationTypes DEF CmpWords
<1> QED BY <1>1 DEF clint_set_mtimecmp

LEMMA ClintSleepProgram ==
  ASSUME NEW t \in Ticks
  PROVE  LET P == clint_sleep_ticks(t)
         IN  /\ P \in Seq(Operation) /\ Len(P) = 10
             /\ P[1] = Op("read_high") /\ P[2] = Op("read_low")
             /\ P[3] = WriteCmp("MTIMECMP_HIGH0", t) /\ P[4] = WriteCmp("MTIMECMP_LOW0", t)
             /\ P[5] = Op("save") /\ P[6] = Set("mie", TRUE) /\ P[7] = Set("gie", TRUE)
             /\ P[8] = Wfi(t) /\ P[9] = Op("restore_mie") /\ P[10] = Op("restore_gie")
<1> DEFINE a == <<Op("read_high"), Op("read_low")>>
           b == clint_set_mtimecmp(t)
           c == <<Op("save"), Set("mie", TRUE), Set("gie", TRUE), Wfi(t), Op("restore_mie"),
                  Op("restore_gie")>>
           ab == a \o b
           abc == ab \o c
<1>1. /\ a \in Seq(Operation) /\ Len(a) = 2
      /\ a[1] = Op("read_high") /\ a[2] = Op("read_low")
  <2>1. Op("read_high") \in Operation /\ Op("read_low") \in Operation
    BY OperationTypes DEF Plain
  <2> QED BY <2>1
<1>2. /\ b \in Seq(Operation) /\ Len(b) = 2
      /\ b[1] = WriteCmp("MTIMECMP_HIGH0", t) /\ b[2] = WriteCmp("MTIMECMP_LOW0", t)
  <2>1. t \in Nat
    BY Widths, WaitAssumption
  <2> QED BY <2>1, ClintSetProgram
<1>3. /\ c \in Seq(Operation) /\ Len(c) = 6
      /\ c[1] = Op("save") /\ c[2] = Set("mie", TRUE) /\ c[3] = Set("gie", TRUE)
      /\ c[4] = Wfi(t) /\ c[5] = Op("restore_mie") /\ c[6] = Op("restore_gie")
  <2>1. /\ Op("save") \in Operation /\ Op("restore_mie") \in Operation
        /\ Op("restore_gie") \in Operation
        /\ Set("mie", TRUE) \in Operation /\ Set("gie", TRUE) \in Operation /\ Wfi(t) \in Operation
    BY OperationTypes DEF Plain
  <2>2. \A u, v, w, x, y, z \in Operation : <<u, v, w, x, y, z>> \in Seq(Operation)
    OBVIOUS
  <2>3. c \in Seq(Operation)
    BY <2>1, <2>2, Zenon
  <2> QED BY <2>3
<1>4. clint_sleep_ticks(t) = abc
  BY DEF clint_sleep_ticks, clint_get_mtime
<1> HIDE DEF a, b, c, ab
<1>5. /\ ab \in Seq(Operation) /\ Len(ab) = 4
      /\ ab[1] = a[1] /\ ab[2] = a[2] /\ ab[3] = b[1] /\ ab[4] = b[2]
  <2>1. /\ ab \in Seq(Operation) /\ Len(ab) = Len(a) + Len(b)
        /\ \A i \in 1..Len(a) : ab[i] = a[i]
        /\ \A i \in 1..Len(b) : ab[Len(a) + i] = b[i]
    BY <1>1, <1>2, Joined, Zenon DEF ab
  <2> QED BY <1>1, <1>2, <2>1
<1> HIDE DEF abc
<1>6. /\ abc \in Seq(Operation) /\ Len(abc) = 10
      /\ \A i \in 1..4 : abc[i] = ab[i]
      /\ \A i \in 1..6 : abc[4 + i] = c[i]
  <2>1. /\ abc \in Seq(Operation) /\ Len(abc) = Len(ab) + Len(c)
        /\ \A i \in 1..Len(ab) : abc[i] = ab[i]
        /\ \A i \in 1..Len(c) : abc[Len(ab) + i] = c[i]
    BY <1>3, <1>5, Joined, Zenon DEF abc
  <2> QED BY <1>3, <1>5, <2>1
<1>7. /\ abc[1] = Op("read_high") /\ abc[2] = Op("read_low")
      /\ abc[3] = WriteCmp("MTIMECMP_HIGH0", t) /\ abc[4] = WriteCmp("MTIMECMP_LOW0", t)
  BY <1>1, <1>2, <1>5, <1>6
<1>8. /\ abc[5] = c[1] /\ abc[6] = c[2] /\ abc[7] = c[3] /\ abc[8] = c[4] /\ abc[9] = c[5]
      /\ abc[10] = c[6]
  <2>1. abc[4 + 1] = c[1] /\ abc[4 + 2] = c[2] /\ abc[4 + 3] = c[3] /\ abc[4 + 4] = c[4]
        /\ abc[4 + 5] = c[5] /\ abc[4 + 6] = c[6]
    BY <1>6
  <2> QED BY <2>1
<1> QED BY <1>3, <1>4, <1>6, <1>7, <1>8, Zenon

LEMMA CtrlProgram ==
  ASSUME NEW bit \in CtrlBits, NEW on \in BOOLEAN
  PROVE  /\ write_ctrl_reg_bit(bit, on) \in Seq(Operation) /\ Len(write_ctrl_reg_bit(bit, on)) = 2
         /\ write_ctrl_reg_bit(bit, on)[1] = Op("read_ctrl")
         /\ write_ctrl_reg_bit(bit, on)[2] = SetBit(bit, on)
<1>1. Op("read_ctrl") \in Operation /\ SetBit(bit, on) \in Operation
  BY OperationTypes DEF Plain
<1> QED BY <1>1 DEF write_ctrl_reg_bit

LEMMA TimerSetProgram ==
  ASSUME NEW c \in Cycles
  PROVE  LET P == obi_timer_set(c)
         IN  /\ P \in Seq(Operation) /\ Len(P) = 8
             /\ P[1] = Op("read_ctrl") /\ P[2] = SetBit("ENABLE", FALSE)
             /\ P[3] = Write("COUNT", 0)
             /\ P[4] = Op("read_ctrl") /\ P[5] = SetBit("AUTORESET", TRUE)
             /\ P[6] = Write("COMPARE", c)
             /\ P[7] = Op("read_ctrl") /\ P[8] = SetBit("ENABLE", TRUE)
<1> DEFINE a == write_ctrl_reg_bit("ENABLE", FALSE)
           b == <<Write("COUNT", 0)>>
           d == write_ctrl_reg_bit("AUTORESET", TRUE)
           e == <<Write("COMPARE", c)>>
           f == write_ctrl_reg_bit("ENABLE", TRUE)
           ab == a \o b
           abd == ab \o d
           abde == abd \o e
           abdef == abde \o f
<1>1. /\ a \in Seq(Operation) /\ Len(a) = 2
      /\ d \in Seq(Operation) /\ Len(d) = 2
      /\ f \in Seq(Operation) /\ Len(f) = 2
  BY CtrlProgram DEF CtrlBits
<1>2. /\ b \in Seq(Operation) /\ Len(b) = 1 /\ b[1] = Write("COUNT", 0)
      /\ e \in Seq(Operation) /\ Len(e) = 1 /\ e[1] = Write("COMPARE", c)
  <2>1. 0 \in Values /\ c \in Values
    BY Widths, WaitAssumption DEF Values
  <2>2. Write("COUNT", 0) \in Operation /\ Write("COMPARE", c) \in Operation
    BY <2>1, OperationTypes
  <2> QED BY <2>2
<1>3. /\ a[1] = Op("read_ctrl") /\ a[2] = SetBit("ENABLE", FALSE)
      /\ d[1] = Op("read_ctrl") /\ d[2] = SetBit("AUTORESET", TRUE)
      /\ f[1] = Op("read_ctrl") /\ f[2] = SetBit("ENABLE", TRUE)
  BY CtrlProgram DEF CtrlBits
<1>4. obi_timer_set(c) = abdef
  BY DEF obi_timer_set
<1>5. b \in Seq(Operation) /\ Len(b) = 1 /\ e \in Seq(Operation) /\ Len(e) = 1
  BY <1>2
<1> HIDE DEF a, b, d, e, f, ab, abd, abde, abdef
<1>6. /\ ab \in Seq(Operation) /\ Len(ab) = 3
      /\ \A i \in 1..2 : ab[i] = a[i]
      /\ \A i \in 1..1 : ab[2 + i] = b[i]
  <2>1. /\ ab \in Seq(Operation) /\ Len(ab) = Len(a) + Len(b)
        /\ \A i \in 1..Len(a) : ab[i] = a[i]
        /\ \A i \in 1..Len(b) : ab[Len(a) + i] = b[i]
    BY <1>1, <1>5, Joined, Zenon DEF ab
  <2> QED BY <1>1, <1>5, <2>1
<1>7. /\ abd \in Seq(Operation) /\ Len(abd) = 5
      /\ \A i \in 1..3 : abd[i] = ab[i]
      /\ \A i \in 1..2 : abd[3 + i] = d[i]
  <2>1. /\ abd \in Seq(Operation) /\ Len(abd) = Len(ab) + Len(d)
        /\ \A i \in 1..Len(ab) : abd[i] = ab[i]
        /\ \A i \in 1..Len(d) : abd[Len(ab) + i] = d[i]
    BY <1>1, <1>6, Joined, Zenon DEF abd
  <2> QED BY <1>1, <1>6, <2>1
<1>8. /\ abde \in Seq(Operation) /\ Len(abde) = 6
      /\ \A i \in 1..5 : abde[i] = abd[i]
      /\ \A i \in 1..1 : abde[5 + i] = e[i]
  <2>1. /\ abde \in Seq(Operation) /\ Len(abde) = Len(abd) + Len(e)
        /\ \A i \in 1..Len(abd) : abde[i] = abd[i]
        /\ \A i \in 1..Len(e) : abde[Len(abd) + i] = e[i]
    BY <1>5, <1>7, Joined, Zenon DEF abde
  <2> QED BY <1>5, <1>7, <2>1
<1>9. /\ abdef \in Seq(Operation) /\ Len(abdef) = 8
      /\ \A i \in 1..6 : abdef[i] = abde[i]
      /\ \A i \in 1..2 : abdef[6 + i] = f[i]
  <2>1. /\ abdef \in Seq(Operation) /\ Len(abdef) = Len(abde) + Len(f)
        /\ \A i \in 1..Len(abde) : abdef[i] = abde[i]
        /\ \A i \in 1..Len(f) : abdef[Len(abde) + i] = f[i]
    BY <1>1, <1>8, Joined, Zenon DEF abdef
  <2> QED BY <1>1, <1>8, <2>1
<1>10. abdef[1] = a[1] /\ abdef[2] = a[2]
  BY <1>6, <1>7, <1>8, <1>9
<1>11. abdef[3] = b[1]
  <2>1. ab[2 + 1] = b[1]
    BY <1>6
  <2> QED BY <2>1, <1>7, <1>8, <1>9
<1>12. abdef[4] = d[1] /\ abdef[5] = d[2]
  <2>1. abd[3 + 1] = d[1] /\ abd[3 + 2] = d[2]
    BY <1>7
  <2> QED BY <2>1, <1>8, <1>9
<1>13. abdef[6] = e[1] /\ abdef[7] = f[1] /\ abdef[8] = f[2]
  <2>1. abde[5 + 1] = e[1] /\ abdef[6 + 1] = f[1] /\ abdef[6 + 2] = f[2]
    BY <1>8, <1>9
  <2> QED BY <2>1, <1>9
<1> QED BY <1>2, <1>3, <1>4, <1>9, <1>10, <1>11, <1>12, <1>13, Zenon

LEMMA TimerSleepProgram ==
  ASSUME NEW c \in Cycles
  PROVE  LET P == obi_timer_sleep(c)
         IN  /\ P \in Seq(Operation) /\ Len(P) = 14
             /\ P[1] = Op("save")
             /\ P[2] = Op("read_ctrl") /\ P[3] = SetBit("ENABLE", FALSE)
             /\ P[4] = Write("COUNT", 0)
             /\ P[5] = Op("read_ctrl") /\ P[6] = SetBit("AUTORESET", TRUE)
             /\ P[7] = Write("COMPARE", c)
             /\ P[8] = Op("read_ctrl") /\ P[9] = SetBit("ENABLE", TRUE)
             /\ P[10] = Set("mie", TRUE) /\ P[11] = Set("gie", TRUE) /\ P[12] = Op("wfi")
             /\ P[13] = Op("restore_mie") /\ P[14] = Op("restore_gie")
<1> DEFINE a == <<Op("save")>>
           b == obi_timer_set(c)
           d == <<Set("mie", TRUE), Set("gie", TRUE), Op("wfi"), Op("restore_mie"),
                  Op("restore_gie")>>
           ab == a \o b
           abd == ab \o d
<1>1. a \in Seq(Operation) /\ Len(a) = 1 /\ a[1] = Op("save")
  <2>1. Op("save") \in Operation
    BY OperationTypes DEF Plain
  <2> QED BY <2>1
<1>2. /\ b \in Seq(Operation) /\ Len(b) = 8
      /\ b[1] = Op("read_ctrl") /\ b[2] = SetBit("ENABLE", FALSE)
      /\ b[3] = Write("COUNT", 0)
      /\ b[4] = Op("read_ctrl") /\ b[5] = SetBit("AUTORESET", TRUE)
      /\ b[6] = Write("COMPARE", c)
      /\ b[7] = Op("read_ctrl") /\ b[8] = SetBit("ENABLE", TRUE)
  BY TimerSetProgram, Zenon
<1>3. /\ d \in Seq(Operation) /\ Len(d) = 5
      /\ d[1] = Set("mie", TRUE) /\ d[2] = Set("gie", TRUE) /\ d[3] = Op("wfi")
      /\ d[4] = Op("restore_mie") /\ d[5] = Op("restore_gie")
  <2>1. /\ Op("wfi") \in Operation /\ Op("restore_mie") \in Operation
        /\ Op("restore_gie") \in Operation
        /\ Set("mie", TRUE) \in Operation /\ Set("gie", TRUE) \in Operation
    BY OperationTypes DEF Plain
  <2>2. \A v, w, x, y, z \in Operation : <<v, w, x, y, z>> \in Seq(Operation)
    OBVIOUS
  <2>3. d \in Seq(Operation)
    BY <2>1, <2>2, Zenon
  <2> QED BY <2>3
<1>4. obi_timer_sleep(c) = abd
  BY DEF obi_timer_sleep
<1> HIDE DEF a, b, d, ab, abd
<1>5. /\ ab \in Seq(Operation) /\ Len(ab) = 9 /\ ab[1] = a[1]
      /\ \A i \in 1..8 : ab[1 + i] = b[i]
  <2>1. /\ ab \in Seq(Operation) /\ Len(ab) = Len(a) + Len(b)
        /\ \A i \in 1..Len(a) : ab[i] = a[i]
        /\ \A i \in 1..Len(b) : ab[Len(a) + i] = b[i]
    BY <1>1, <1>2, Joined, Zenon DEF ab
  <2> QED BY <1>1, <1>2, <2>1
<1>6. /\ abd \in Seq(Operation) /\ Len(abd) = 14
      /\ \A i \in 1..9 : abd[i] = ab[i]
      /\ \A i \in 1..5 : abd[9 + i] = d[i]
  <2>1. /\ abd \in Seq(Operation) /\ Len(abd) = Len(ab) + Len(d)
        /\ \A i \in 1..Len(ab) : abd[i] = ab[i]
        /\ \A i \in 1..Len(d) : abd[Len(ab) + i] = d[i]
    BY <1>3, <1>5, Joined, Zenon DEF abd
  <2> QED BY <1>3, <1>5, <2>1
<1>7. /\ abd[1] = a[1] /\ abd[1 + 1] = b[1] /\ abd[1 + 2] = b[2] /\ abd[1 + 3] = b[3]
      /\ abd[1 + 4] = b[4] /\ abd[1 + 5] = b[5] /\ abd[1 + 6] = b[6] /\ abd[1 + 7] = b[7]
      /\ abd[1 + 8] = b[8]
  BY <1>5, <1>6
<1>8. /\ abd[9 + 1] = d[1] /\ abd[9 + 2] = d[2] /\ abd[9 + 3] = d[3] /\ abd[9 + 4] = d[4]
      /\ abd[9 + 5] = d[5]
  BY <1>6
<1>9. /\ abd[2] = b[1] /\ abd[3] = b[2] /\ abd[4] = b[3] /\ abd[5] = b[4] /\ abd[6] = b[5]
      /\ abd[7] = b[6] /\ abd[8] = b[7] /\ abd[9] = b[8]
  BY <1>7
<1>10. /\ abd[10] = d[1] /\ abd[11] = d[2] /\ abd[12] = d[3] /\ abd[13] = d[4] /\ abd[14] = d[5]
  BY <1>8
<1> QED BY <1>1, <1>2, <1>3, <1>4, <1>6, <1>7, <1>9, <1>10, Zenon

LEMMA MawProgram ==
  ASSUME NEW c \in Cycles
  PROVE  LET P == MawMain(c)
         IN  /\ P \in Seq(Operation) /\ Len(P) = 8
             /\ P[1] = Set("mie", TRUE) /\ P[2] = Set("gie", TRUE) /\ P[3] = Set("wait", TRUE)
             /\ P[4] = Write("COUNT", 1) /\ P[5] = Write("COMPARE", c)
             /\ P[6] = WriteBits("CTRL", CtrlBits) /\ P[7] = Op("spin")
             /\ P[8] = Set("wait", TRUE)
<1>1. 1 \in Values /\ c \in Values
  BY Widths, WaitAssumption DEF Values
<1>2. /\ Set("mie", TRUE) \in Operation /\ Set("gie", TRUE) \in Operation
      /\ Set("wait", TRUE) \in Operation /\ Op("spin") \in Operation
      /\ Write("COUNT", 1) \in Operation /\ Write("COMPARE", c) \in Operation
      /\ WriteBits("CTRL", CtrlBits) \in Operation
  BY <1>1, OperationTypes DEF Plain
<1>3. ASSUME NEW s \in Operation, NEW t \in Operation, NEW u \in Operation, NEW v \in Operation,
             NEW w \in Operation, NEW x \in Operation, NEW y \in Operation, NEW z \in Operation
      PROVE  <<s, t, u, v, w, x, y, z>> \in Seq(Operation)
  OBVIOUS
<1> DEFINE P == <<Set("mie", TRUE), Set("gie", TRUE), Set("wait", TRUE), Write("COUNT", 1),
                  Write("COMPARE", c), WriteBits("CTRL", CtrlBits), Op("spin"),
                  Set("wait", TRUE)>>
<1>4. MawMain(c) = P
  BY Zenon DEF MawMain, CtrlBits
<1>5. P \in Seq(Operation)
  BY <1>2, <1>3, Zenon
<1>6. /\ Len(P) = 8
      /\ P[1] = Set("mie", TRUE) /\ P[2] = Set("gie", TRUE) /\ P[3] = Set("wait", TRUE)
      /\ P[4] = Write("COUNT", 1) /\ P[5] = Write("COMPARE", c)
      /\ P[6] = WriteBits("CTRL", CtrlBits) /\ P[7] = Op("spin") /\ P[8] = Set("wait", TRUE)
  OBVIOUS
<1> HIDE DEF P
<1> QED BY <1>4, <1>5, <1>6, Zenon

LEMMA HandlerPrograms ==
  /\ croc_interrupt_handler \in Seq(Operation) /\ Len(croc_interrupt_handler) = 2
  /\ croc_interrupt_handler[1] = WriteBits("STATUS", {"EXPIRED"})
  /\ croc_interrupt_handler[2] = Op("mret")
  /\ direct_handler \in Seq(Operation) /\ Len(direct_handler) = 4
  /\ direct_handler[1] = WriteBits("STATUS", {"EXPIRED"})
  /\ direct_handler[2] = WriteBits("CTRL", {})
  /\ direct_handler[3] = Set("wait", FALSE) /\ direct_handler[4] = Op("mret")
  /\ default_handler \in Seq(Operation) /\ Len(default_handler) = 2
  /\ default_handler[1] = Set("mie", FALSE) /\ default_handler[2] = Op("mret")
<1>1. /\ WriteBits("STATUS", {"EXPIRED"}) \in Operation /\ WriteBits("CTRL", {}) \in Operation
      /\ Set("wait", FALSE) \in Operation /\ Set("mie", FALSE) \in Operation
      /\ Op("mret") \in Operation
  BY OperationTypes DEF Plain
<1>2. /\ croc_interrupt_handler \in Seq(Operation) /\ Len(croc_interrupt_handler) = 2
      /\ croc_interrupt_handler[1] = WriteBits("STATUS", {"EXPIRED"})
      /\ croc_interrupt_handler[2] = Op("mret")
  <2> DEFINE a == <<WriteBits("STATUS", {"EXPIRED"})>>
             b == <<Op("mret")>>
  <2>1. a \in Seq(Operation) /\ Len(a) = 1 /\ a[1] = WriteBits("STATUS", {"EXPIRED"})
    BY <1>1
  <2>2. b \in Seq(Operation) /\ Len(b) = 1 /\ b[1] = Op("mret")
    BY <1>1
  <2>3. croc_interrupt_handler = a \o b
    BY DEF croc_interrupt_handler, obi_timer_clear_expired
  <2> HIDE DEF a, b
  <2>4. /\ a \o b \in Seq(Operation) /\ Len(a \o b) = Len(a) + Len(b)
        /\ \A i \in 1..Len(a) : (a \o b)[i] = a[i]
        /\ \A i \in 1..Len(b) : (a \o b)[Len(a) + i] = b[i]
    BY <2>1, <2>2, Joined, Zenon
  <2>5. (a \o b)[1] = a[1] /\ (a \o b)[1 + 1] = b[1]
    BY <2>1, <2>2, <2>4
  <2> QED BY <2>1, <2>2, <2>3, <2>4, <2>5
<1>3. \A x, y \in Operation : <<x, y>> \in Seq(Operation)
  OBVIOUS
<1>4. \A w, x, y, z \in Operation : <<w, x, y, z>> \in Seq(Operation)
  OBVIOUS
<1>5. direct_handler \in Seq(Operation) /\ default_handler \in Seq(Operation)
  BY <1>1, <1>3, <1>4, Zenon DEF direct_handler, default_handler
<1> QED BY <1>2, <1>5 DEF direct_handler, default_handler

LEMMA HandlerProgram ==
  ASSUME program \in {"driver", "maw", "clint"}
  PROVE  /\ Handler \in Seq(Operation)
         /\ \A i \in 1..Len(Handler) :
              /\ Handler[i].op \in {"write", "mie", "wait", "mret"}
              /\ Handler[i].op = "mret" <=> i = Len(Handler)
<1>1. CASE program = "driver"
  <2>1. Handler = croc_interrupt_handler
    BY <1>1 DEF Handler
  <2> QED BY <2>1, HandlerPrograms DEF WriteBits, Op
<1>2. CASE program = "maw"
  <2>1. Handler = direct_handler
    BY <1>2 DEF Handler
  <2> QED BY <2>1, HandlerPrograms DEF WriteBits, Op, Set
<1>3. CASE program = "clint"
  <2>1. Handler = default_handler
    BY <1>3 DEF Handler
  <2> QED BY <2>1, HandlerPrograms DEF Set, Op
<1> QED BY <1>1, <1>2, <1>3

-----------------------------------------------------------------------------
(* Types.                                                                  *)

\* The running handler is in the middle of its program.
IsrOK == \E k \in 0..Len(Handler) : isr = Rest(Handler, k)

TypeInv ==
  /\ TypeOK
  /\ program \in {"driver", "maw", "clint"}
  /\ main \in Seq(Operation) /\ IsrOK
  /\ ctrl \subseteq CtrlBits /\ before \in [mie : BOOLEAN, gie : BOOLEAN]
  /\ time \in Nat /\ ticked \in BOOLEAN /\ clean \in BOOLEAN

Step == Operation \cup {Op("none"), Op("interrupt")}

LEMMA WrittenType ==
  ASSUME time \in Nat, NEW o, o.offset \in Nat
  PROVE  Written(o) \in 0..CLINT!MaxTime
<1>1. \A x \in Nat : x % (CLINT!MaxTime + 1) \in 0..CLINT!MaxTime
  BY Widths
<1> QED BY <1>1 DEF Written

\* What reaches the ports of the timers.
LEMMA RequestTypes ==
  ASSUME TypeInv, NEW o \in Step
  PROVE  /\ Request(o).reg \in {"COUNT", "COMPARE"} => Request(o).value \in Values
         /\ Request(o).reg = "CTRL" => Request(o).bits \subseteq CtrlBits
         /\ Request(o).reg \in CmpWords => Request(o).value \in 0..CLINT!Word-1
<1>1. CASE o.op = "write"
  <2>1. Request(o) = o.req
    BY <1>1 DEF Request
  <2>2. o \in [op : {"write"}, req : [reg : {"COUNT", "COMPARE"}, value : Values, bits : {{}}]]
           \cup [op : {"write"}, req : [reg : {"CTRL"}, value : Values, bits : SUBSET CtrlBits]]
           \cup [op : {"write"}, req : [reg : {"STATUS"}, value : Values,
                                        bits : SUBSET {"EXPIRED"}]]
    BY <1>1 DEF Step, Operation, Op, Plain
  <2> QED BY <2>1, <2>2 DEF CmpWords
<1>2. CASE o.op = "write_ctrl"
  <2>1. o \in [op : {"write_ctrl"}, bit : CtrlBits, on : BOOLEAN]
    BY <1>2 DEF Step, Operation, Op, Plain
  <2>2. Request(o) = WriteBits("CTRL", IF o.on THEN ctrl \cup {o.bit} ELSE ctrl \ {o.bit}).req
    BY <1>2 DEF Request
  <2>3. Request(o).reg = "CTRL" /\ Request(o).bits \subseteq ctrl \cup {o.bit}
    BY <2>2 DEF WriteBits
  <2> QED BY <2>1, <2>3 DEF TypeInv, CmpWords
<1>3. CASE o.op = "write_cmp"
  <2>1. o \in [op : {"write_cmp"}, reg : CmpWords, offset : Nat]
    BY <1>3 DEF Step, Operation, Op, Plain
  <2>2. CLINT!High(Written(o)) \in 0..CLINT!Word-1 /\ CLINT!Low(Written(o)) \in 0..CLINT!Word-1
    BY <2>1, WrittenType, Words DEF TypeInv
  <2>3. /\ Request(o).reg = o.reg
        /\ Request(o).value \in {CLINT!High(Written(o)), CLINT!Low(Written(o))}
    BY <1>3 DEF Request, Write
  <2> QED BY <2>1, <2>2, <2>3 DEF CmpWords
<1>4. CASE o.op \notin {"write", "write_ctrl", "write_cmp"}
  <2>1. Request(o) = Timer!NoWrite
    BY <1>4 DEF Request
  <2> QED BY <2>1 DEF Timer!NoWrite, CmpWords
<1> QED BY <1>1, <1>2, <1>3, <1>4

LEMMA TimerTypes ==
  ASSUME TypeInv, NEW o \in Step, TimerCycle(o), program # "clint", program' = program
  PROVE  /\ count_q' \in Values /\ compare_q' \in Values
         /\ ctrl_q' \subseteq CtrlBits /\ status_q' \subseteq {"EXPIRED", "OVERFLOW"}
         /\ age' \in 0..(IF program' = "clint" THEN CLINT!Word - 1 ELSE 2^CounterBits + 1)
         /\ mtime_q' \in 0..CLINT!MaxTime /\ mtimecmp_q' \in 0..CLINT!MaxTime
         /\ ticked' \in BOOLEAN /\ clean' \in BOOLEAN
<1> DEFINE r == Request(o)
<1>0. Timer!Step(r)
  BY DEF TimerCycle
<1>1. /\ r.reg \in {"COUNT", "COMPARE"} => r.value \in Values
      /\ r.reg = "CTRL" => r.bits \subseteq CtrlBits
  BY RequestTypes
<1> HIDE DEF r
<1>2. count_q \in Values /\ compare_q \in Values /\ ctrl_q \subseteq CtrlBits
  BY DEF TypeInv, TypeOK, CtrlBits
<1>3. count_q' \in Values
  <2>1. (count_q + 1) % Timer!Range \in Values /\ 0 \in Values
    BY <1>2, Widths DEF Values
  <2> QED BY <1>0, <1>1, <1>2, <2>1 DEF Timer!Step, Timer!Count
<1>4. compare_q' \in Values /\ ctrl_q' \subseteq CtrlBits
  BY <1>0, <1>1, <1>2 DEF Timer!Step
<1>5. status_q' \subseteq {"EXPIRED", "OVERFLOW"}
  <2>1. status_q \subseteq {"EXPIRED", "OVERFLOW"}
    BY DEF TypeInv, TypeOK
  <2>2. status_q' \subseteq status_q \cup {"EXPIRED"} \cup {"OVERFLOW"}
    BY <1>0 DEF Timer!Step, Timer!Flags
  <2> QED BY <2>1, <2>2
<1>6. age' \in 0..(IF program' = "clint" THEN CLINT!Word - 1 ELSE 2^CounterBits + 1)
  <2>1. age \in 0..2^CounterBits + 1 /\ compare_q <= 2^CounterBits - 1 /\ compare_q \in Nat
    BY <1>2, Widths DEF TypeInv, TypeOK, Values
  <2>2. age' \in 0..2^CounterBits + 1
    BY <2>1, Widths DEF TimerCycle
  <2> QED BY <2>2
<1>7. /\ mtime_q' \in 0..CLINT!MaxTime /\ mtimecmp_q' \in 0..CLINT!MaxTime
      /\ ticked' \in BOOLEAN
  BY DEF TimerCycle, clintvars, TypeInv, TypeOK
<1>8. clean' \in BOOLEAN
  BY DEF TimerCycle, TypeInv
<1> QED BY <1>3, <1>4, <1>5, <1>6, <1>7, <1>8

\* What a cycle does to the CLINT.
LEMMA ClintMoves ==
  ASSUME TypeInv, NEW o \in Step, ClintCycle(o)
  PROVE  \E tick \in BOOLEAN :
           /\ mtime_q' = (IF tick THEN mtime_q + 1 ELSE mtime_q) /\ mtime_q' \in 0..CLINT!MaxTime
           /\ tick => (Waiting \/ ~ticked) /\ mtime_q < CLINT!MaxTime
           /\ mtimecmp_q' = IF o.op # "write_cmp" THEN mtimecmp_q
                            ELSE IF o.reg = "MTIMECMP_HIGH0"
                            THEN CLINT!High(Written(o)) * CLINT!Word + CLINT!Low(mtimecmp_q)
                            ELSE CLINT!High(mtimecmp_q) * CLINT!Word + CLINT!Low(Written(o))
           /\ ticked' = (~Waiting /\ (ticked \/ tick))
           /\ age' = IF o.op = "read_low" THEN (IF tick THEN 1 ELSE 0)
                     ELSE IF tick /\ (\E t \in Ticks : age < t) THEN age + 1 ELSE age
<1> DEFINE r == Request(o)
<1>1. PICK tick \in BOOLEAN :
        /\ tick => (Waiting \/ ~ticked) /\ mtime_q < CLINT!MaxTime
        /\ CLINT!Step(r, tick)
        /\ ticked' = (~Waiting /\ (ticked \/ tick))
        /\ age' = IF o.op = "read_low" THEN (IF tick THEN 1 ELSE 0)
                  ELSE IF tick /\ (\E t \in Ticks : age < t) THEN age + 1 ELSE age
  BY Zenon DEF ClintCycle
<1>2. mtime_q' = (IF tick THEN mtime_q + 1 ELSE mtime_q) /\ mtime_q' \in 0..CLINT!MaxTime
  <2>1. mtime_q \in 0..CLINT!MaxTime
    BY DEF TypeInv, TypeOK
  <2>2. CASE tick
    <3>1. mtime_q + 1 \in 0..CLINT!MaxTime
      BY <1>1, <2>1, <2>2, Widths
    <3>2. (mtime_q + 1) % (CLINT!MaxTime + 1) = mtime_q + 1
      <4>1. \A m \in Nat : \A x \in 0..m : x % (m + 1) = x
        OBVIOUS
      <4> QED BY <3>1, <4>1, Widths
    <3> QED BY <1>1, <2>2, <3>1, <3>2 DEF CLINT!Step, CLINT!count_time
  <2>3. CASE ~tick
    BY <1>1, <2>1, <2>3 DEF CLINT!Step, CLINT!count_time
  <2> QED BY <2>2, <2>3
<1>3. mtimecmp_q' = IF o.op # "write_cmp" THEN mtimecmp_q
                    ELSE IF o.reg = "MTIMECMP_HIGH0"
                    THEN CLINT!High(Written(o)) * CLINT!Word + CLINT!Low(mtimecmp_q)
                    ELSE CLINT!High(mtimecmp_q) * CLINT!Word + CLINT!Low(Written(o))
  <2>0. CLINT!write(r)
    BY <1>1 DEF CLINT!Step
  <2>1. CASE o.op = "write_cmp" /\ o.reg = "MTIMECMP_HIGH0"
    <3>1. r = Write("MTIMECMP_HIGH0", CLINT!High(Written(o))).req
      BY <2>1 DEF Request
    <3>2. r.reg = "MTIMECMP_HIGH0" /\ r.value = CLINT!High(Written(o))
      BY <3>1 DEF Write
    <3> HIDE DEF r
    <3> QED BY <2>0, <2>1, <3>2 DEF CLINT!write
  <2>2. CASE o.op = "write_cmp" /\ o.reg # "MTIMECMP_HIGH0"
    <3>0. o.reg = "MTIMECMP_LOW0"
      BY <2>2 DEF Step, Operation, Op, CmpWords, Plain
    <3>1. r = Write("MTIMECMP_LOW0", CLINT!Low(Written(o))).req
      BY <2>2, <3>0 DEF Request
    <3>2. r.reg = "MTIMECMP_LOW0" /\ r.value = CLINT!Low(Written(o))
      BY <3>1 DEF Write
    <3> HIDE DEF r
    <3> QED BY <2>0, <2>2, <3>2 DEF CLINT!write
  <2>3. CASE o.op # "write_cmp"
    <3>1. r.reg \notin CmpWords
      <4>1. CASE o.op = "write"
        BY <4>1 DEF Step, Operation, Op, CmpWords, Plain, Request
      <4>2. CASE o.op = "write_ctrl"
        BY <4>2 DEF CmpWords, Request, WriteBits
      <4>3. CASE o.op \notin {"write", "write_ctrl"}
        BY <2>3, <4>3 DEF CmpWords, Request, Timer!NoWrite
      <4> QED BY <4>1, <4>2, <4>3
    <3> HIDE DEF r
    <3> QED BY <2>0, <2>3, <3>1 DEF CLINT!write, CmpWords
  <2> QED BY <2>1, <2>2, <2>3
<1> QED BY <1>1, <1>2, <1>3, Zenon

LEMMA ClintTypes ==
  ASSUME TypeInv, NEW o \in Step, ClintCycle(o), program = "clint", program' = program
  PROVE  /\ count_q' \in Values /\ compare_q' \in Values
         /\ ctrl_q' \subseteq CtrlBits /\ status_q' \subseteq {"EXPIRED", "OVERFLOW"}
         /\ age' \in 0..(IF program' = "clint" THEN CLINT!Word - 1 ELSE 2^CounterBits + 1)
         /\ mtime_q' \in 0..CLINT!MaxTime /\ mtimecmp_q' \in 0..CLINT!MaxTime
         /\ ticked' \in BOOLEAN /\ clean' \in BOOLEAN
<1>1. /\ count_q' \in Values /\ compare_q' \in Values
      /\ ctrl_q' \subseteq CtrlBits /\ status_q' \subseteq {"EXPIRED", "OVERFLOW"}
  BY DEF ClintCycle, timervars, TypeInv, TypeOK, CtrlBits
<1>2. mtime_q' \in 0..CLINT!MaxTime
  BY ClintMoves
<1>3. mtimecmp_q' \in 0..CLINT!MaxTime
  <2>1. mtimecmp_q \in 0..CLINT!MaxTime
    BY DEF TypeInv, TypeOK
  <2>2. CLINT!High(mtimecmp_q) \in 0..CLINT!Word-1 /\ CLINT!Low(mtimecmp_q) \in 0..CLINT!Word-1
    BY <2>1, Words
  <2>3. CASE o.op = "write_cmp"
    <3>1. Written(o) \in 0..CLINT!MaxTime
      <4>1. o.offset \in Nat
        BY <2>3 DEF Step, Operation, Op, Plain
      <4> QED BY <4>1, WrittenType DEF TypeInv
    <3>2. /\ CLINT!High(Written(o)) \in 0..CLINT!Word-1
          /\ CLINT!Low(Written(o)) \in 0..CLINT!Word-1
      BY <3>1, Words
    <3>3. /\ CLINT!High(Written(o)) * CLINT!Word + CLINT!Low(mtimecmp_q) \in 0..CLINT!MaxTime
          /\ CLINT!High(mtimecmp_q) * CLINT!Word + CLINT!Low(Written(o)) \in 0..CLINT!MaxTime
      BY <2>2, <3>2, JoinedWords, Zenon
    <3> QED BY <2>3, <3>3, ClintMoves, Zenon
  <2>4. CASE o.op # "write_cmp"
    BY <2>1, <2>4, ClintMoves, Zenon
  <2> QED BY <2>3, <2>4
<1>4. age' \in 0..CLINT!Word - 1
  <2>1. age \in 0..CLINT!Word - 1 /\ \A t \in Ticks : t \in Int /\ t <= CLINT!Word - 1
    BY Widths, WaitAssumption DEF TypeInv, TypeOK
  <2>2. \/ age' \in {0, 1, age}
        \/ age' = age + 1 /\ \E t \in Ticks : age < t
    BY ClintMoves, Zenon
  <2> QED BY <2>1, <2>2, Widths
<1>5. ticked' \in BOOLEAN
  BY Zenon DEF ClintCycle
<1>6. clean' \in BOOLEAN
  BY DEF ClintCycle
<1> QED BY <1>1, <1>2, <1>3, <1>4, <1>5, <1>6

LEMMA LocalsTypes ==
  ASSUME TypeInv, NEW o \in Step, Locals(o)
  PROVE  /\ ctrl' \subseteq CtrlBits /\ before' \in [mie : BOOLEAN, gie : BOOLEAN]
         /\ time' \in Nat /\ wait_for_timer' \in BOOLEAN
<1>1. ctrl' \subseteq CtrlBits
  BY DEF Locals, TypeInv, TypeOK, CtrlBits
<1>2. before' \in [mie : BOOLEAN, gie : BOOLEAN]
  BY DEF Locals, TypeInv, TypeOK, NoEnables
<1>3. time' \in Nat
  <2>1. /\ CLINT!High(mtime_q) \in Nat /\ CLINT!Low(mtime_q) \in Nat
        /\ CLINT!High(mtime_q) * CLINT!Word \in Nat
    <3>1. mtime_q \in 0..CLINT!MaxTime
      BY DEF TypeInv, TypeOK
    <3>2. CLINT!High(mtime_q) \in Nat /\ CLINT!Low(mtime_q) \in Nat
      BY <3>1, Words, Widths
    <3> QED BY <3>2, Widths
  <2> QED BY <2>1 DEF Locals, TypeInv
<1>4. wait_for_timer' \in BOOLEAN
  BY DEF Locals, TypeInv, TypeOK, Step, Operation, Op, Plain
<1> QED BY <1>1, <1>2, <1>3, <1>4

LEMMA EnablesTypes ==
  ASSUME TypeInv, NEW o \in Step, Enables(o)
  PROVE  mie' \in BOOLEAN /\ gie' \in BOOLEAN
<1>1. /\ o.op = "mie" => o.on \in BOOLEAN
      /\ o.op = "gie" => o.on \in BOOLEAN
  BY DEF Step, Operation, Op, Plain
<1>2. mie \in BOOLEAN /\ gie \in BOOLEAN
  BY DEF TypeInv, TypeOK
<1>3. mie' \in BOOLEAN
  BY <1>1, <1>2 DEF Enables
<1>4. gie' \in BOOLEAN
  BY <1>1, <1>2 DEF Enables
<1> QED BY <1>3, <1>4

LEMMA CycleTypes ==
  ASSUME TypeInv, NEW o \in Step, Cycle(o), program' = program
  PROVE  /\ count_q' \in Values /\ compare_q' \in Values
         /\ ctrl_q' \subseteq CtrlBits /\ status_q' \subseteq {"EXPIRED", "OVERFLOW"}
         /\ age' \in 0..(IF program' = "clint" THEN CLINT!Word - 1 ELSE 2^CounterBits + 1)
         /\ mtime_q' \in 0..CLINT!MaxTime /\ mtimecmp_q' \in 0..CLINT!MaxTime
         /\ ticked' \in BOOLEAN /\ clean' \in BOOLEAN
<1>1. CASE program = "clint"
  <2>1. ClintCycle(o)
    BY <1>1 DEF Cycle
  <2> QED BY <1>1, <2>1, ClintTypes
<1>2. CASE program # "clint"
  <2>1. TimerCycle(o)
    BY <1>2 DEF Cycle
  <2> QED BY <1>2, <2>1, TimerTypes
<1> QED BY <1>1, <1>2

\* The operations that a cycle may carry out.
LEMMA Carried ==
  ASSUME TypeInv
  PROVE  /\ Op("none") \in Step /\ Op("interrupt") \in Step
         /\ main # <<>> => Head(main) \in Step /\ Tail(main) \in Seq(Operation)
         /\ isr # <<>> => Head(isr) \in Step
<1>1. main # <<>> => Head(main) \in Operation /\ Tail(main) \in Seq(Operation)
  BY DEF TypeInv
<1>2. isr # <<>> => Head(isr) \in Operation
  <2>1. isr \in Seq(Operation)
    BY HandlerProgram, RestOf DEF TypeInv, IsrOK
  <2> QED BY <2>1
<1> QED BY <1>1, <1>2 DEF Step

LEMMA Calls ==
  ASSUME NEW P, P \in ClintCalls \cup DriverCalls
  PROVE  P \in Seq(Operation)
<1>1. \A on \in BOOLEAN : <<Set("mie", on)>> \in Seq(Operation) /\ <<Set("gie", on)>> \in Seq(Operation)
  <2>1. \A on \in BOOLEAN : Set("mie", on) \in Operation /\ Set("gie", on) \in Operation
    BY OperationTypes
  <2>2. \A o \in Operation : <<o>> \in Seq(Operation)
    OBVIOUS
  <2> QED BY <2>1, <2>2, Zenon
<1>2. \A t \in Ticks : clint_sleep_ticks(t) \in Seq(Operation)
  BY ClintSleepProgram, Zenon
<1>3. \A t \in Times : clint_set_mtimecmp(t) \in Seq(Operation)
  <2>1. \A t \in Times : t \in Nat
    BY Widths, WaitAssumption
  <2> QED BY <2>1, ClintSetProgram, Zenon
<1>4. \A c \in Cycles : obi_timer_sleep(c) \in Seq(Operation) /\ obi_timer_set(c) \in Seq(Operation)
  BY TimerSleepProgram, TimerSetProgram, Zenon
<1>5. \A bit \in CtrlBits : write_ctrl_reg_bit(bit, FALSE) \in Seq(Operation)
  BY CtrlProgram, Zenon
<1>6. obi_timer_clear_expired \in Seq(Operation)
  <2>1. WriteBits("STATUS", {"EXPIRED"}) \in Operation
    BY OperationTypes
  <2> QED BY <2>1 DEF obi_timer_clear_expired
<1>7. /\ write_ctrl_reg_bit("ENABLE", FALSE) \in Seq(Operation)
      /\ write_ctrl_reg_bit("AUTORESET", FALSE) \in Seq(Operation)
  BY <1>5 DEF CtrlBits
<1> QED BY <1>1, <1>2, <1>3, <1>4, <1>6, <1>7, Zenon DEF ClintCalls, DriverCalls

\* The handler steps through its program, and only its last operation enables interrupts.
LEMMA Handling ==
  ASSUME TypeInv, Handle, program' = program
  PROVE  /\ \E k \in 0..Len(Handler)-1 :
              /\ isr = Rest(Handler, k) /\ isr' = Rest(Handler, k + 1)
              /\ Head(isr) = Handler[k + 1]
         /\ IsrOK' /\ (isr' # <<>> => ~gie')
<1>1. PICK k \in 0..Len(Handler) : isr = Rest(Handler, k)
  BY DEF TypeInv, IsrOK
<1>2. Handler \in Seq(Operation) /\ Handler' = Handler /\ Len(Handler) \in Nat
  BY HandlerProgram DEF TypeInv, Handler
<1>3. k < Len(Handler)
  BY <1>1, <1>2, RestOf DEF Handle
<1>4. Head(isr) = Handler[k + 1] /\ isr' = Rest(Handler, k + 1)
  BY <1>1, <1>2, <1>3, RestOf DEF Handle
<1>5. IsrOK'
  BY <1>2, <1>3, <1>4 DEF IsrOK
<1>6. isr' # <<>> => ~gie'
  <2>1. CASE k + 1 = Len(Handler)
    <3>1. isr' = <<>>
      BY <1>2, <1>3, <1>4, <2>1, RestOf
    <3> QED BY <3>1
  <2>2. CASE k + 1 # Len(Handler)
    <3>1. Head(isr).op \in {"write", "mie", "wait"}
      BY <1>2, <1>3, <1>4, <2>2, HandlerProgram DEF TypeInv
    <3>2. ~gie
      BY DEF TypeInv, TypeOK, Handle
    <3> QED BY <3>1, <3>2 DEF Handle, Do, Enables
  <2> QED BY <2>1, <2>2
<1> QED BY <1>1, <1>3, <1>4, <1>5, <1>6

LEMMA TypeStep ==
  ASSUME TypeInv, [Next]_vars
  PROVE  TypeInv'
<1>0. CASE UNCHANGED vars
  BY <1>0 DEF vars, timervars, clintvars, locals, TypeInv, TypeOK, IsrOK, Handler
<1> SUFFICES ASSUME Next PROVE TypeInv'
  BY <1>0
<1>1. program' = program
  BY DEF Next
<1>2. Handler \in Seq(Operation) /\ Handler' = Handler
  BY <1>1, HandlerProgram DEF TypeInv, Handler
<1> DEFINE Others == /\ main' \in Seq(Operation) /\ IsrOK' /\ (isr' # <<>> => ~gie')
                    /\ mie' \in BOOLEAN /\ gie' \in BOOLEAN /\ wait_for_timer' \in BOOLEAN
                    /\ ctrl' \subseteq CtrlBits /\ before' \in [mie : BOOLEAN, gie : BOOLEAN]
                    /\ time' \in Nat /\ stall' \in 0..MaxStall
           Types == /\ mie \in BOOLEAN /\ gie \in BOOLEAN /\ wait_for_timer \in BOOLEAN
                    /\ ctrl \subseteq CtrlBits /\ before \in [mie : BOOLEAN, gie : BOOLEAN]
                    /\ time \in Nat /\ stall \in 0..MaxStall /\ MaxStall \in Nat
                    /\ main \in Seq(Operation)
<1>3. Types
  BY WaitAssumption DEF TypeInv, TypeOK
<1>4. ASSUME NEW o \in Step, Cycle(o), Others PROVE TypeInv'
  BY <1>1, <1>4, CycleTypes DEF TypeInv, TypeOK, CtrlBits
<1>5. CASE Interrupt
  <2>1. isr' = Rest(Handler, 0)
    BY <1>2, <1>5, RestOf DEF Interrupt
  <2>2. IsrOK'
    BY <1>2, <2>1 DEF IsrOK
  <2>3. gie' = FALSE /\ main' = main /\ mie' = mie /\ stall' = 0 /\ locals' = locals
    BY <1>5 DEF Interrupt
  <2>4. /\ ctrl' = ctrl /\ before' = before /\ wait_for_timer' = wait_for_timer
        /\ time' = time /\ ~gie' /\ gie' \in BOOLEAN
    BY <2>3 DEF locals
  <2>5. stall' \in 0..MaxStall
    BY <1>3, <2>3
  <2>6. Others
    BY <1>3, <2>2, <2>3, <2>4, <2>5, Zenon
  <2> QED BY <1>4, <1>5, <2>6, Carried DEF Interrupt
<1>6. CASE Handle
  <2>1. Head(isr) \in Step /\ Do(Head(isr))
    BY <1>6, Carried DEF Handle
  <2>2. IsrOK' /\ (isr' # <<>> => ~gie')
    BY <1>1, <1>6, Handling
  <2>3. /\ mie' \in BOOLEAN /\ gie' \in BOOLEAN /\ wait_for_timer' \in BOOLEAN
        /\ ctrl' \subseteq CtrlBits /\ before' \in [mie : BOOLEAN, gie : BOOLEAN]
        /\ time' \in Nat
    BY <2>1, LocalsTypes, EnablesTypes DEF Do
  <2>4. main' \in Seq(Operation) /\ stall' \in 0..MaxStall
    BY <1>3, <1>6, <2>1 DEF Handle, Do
  <2>5. Others
    BY <2>2, <2>3, <2>4
  <2> QED BY <1>4, <2>1, <2>5 DEF Do
<1>7. CASE Instruction
  <2>1. main # <<>> /\ isr' = isr /\ isr = <<>>
    BY <1>7 DEF Instruction, Waiting
  <2>2. Head(main) \in Step /\ Do(Head(main)) /\ Tail(main) \in Seq(Operation)
    BY <1>7, <2>1, Carried DEF Instruction
  <2>3. main' \in Seq(Operation)
    <3>1. CASE At(main, "wfi")
      <4>1. [Head(main) EXCEPT !.op = "asleep"] \in Operation
        <5>1. Head(main) \in Operation /\ Head(main).op = "wfi"
          BY <1>3, <2>1, <3>1 DEF At
        <5>2. Head(main) \in [op : {"wfi"}] \cup [op : {"wfi"}, ticks : Ticks]
          BY <5>1 DEF Operation
        <5> QED BY <5>2 DEF Operation, Plain
      <4>2. main' = <<[Head(main) EXCEPT !.op = "asleep"]>> \o Tail(main)
        BY <1>7, <3>1 DEF Instruction
      <4>3. <<[Head(main) EXCEPT !.op = "asleep"]>> \in Seq(Operation)
        BY <4>1
      <4> QED BY <2>2, <4>2, <4>3, Joined
    <3>2. CASE ~At(main, "wfi")
      <4>1. main' = <<>> \o Tail(main)
        BY <1>7, <3>2 DEF Instruction
      <4>2. <<>> \in Seq(Operation)
        OBVIOUS
      <4> QED BY <2>2, <4>1, <4>2, Joined
    <3> QED BY <3>1, <3>2
  <2>4. IsrOK'
    BY <1>2, <2>1 DEF IsrOK, TypeInv
  <2>5. Others
    BY <1>3, <2>1, <2>2, <2>3, <2>4, LocalsTypes, EnablesTypes DEF Do
  <2> QED BY <1>4, <2>2, <2>5 DEF Do
<1>8. CASE Call
  <2>1. main' \in ClintCalls \cup DriverCalls
    BY <1>8 DEF Call
  <2>2. main' \in Seq(Operation)
    BY <2>1, Calls
  <2>3. IsrOK' /\ isr' = <<>>
    BY <1>2, <1>8 DEF Call, IsrOK, TypeInv
  <2>4. Others
    BY <1>3, <1>8, <2>2, <2>3 DEF Call, locals
  <2> QED BY <1>4, <1>8, <2>4, Carried DEF Call
<1>9. CASE Elapse
  <2>1. IsrOK' /\ (isr' # <<>> => ~gie')
    BY <1>2, <1>9 DEF Elapse, IsrOK, TypeInv, TypeOK
  <2>2. stall' \in 0..MaxStall
    BY <1>3, <1>9 DEF Elapse
  <2>3. Others
    BY <1>3, <1>9, <2>1, <2>2 DEF Elapse, locals
  <2> QED BY <1>4, <1>9, <2>3, Carried DEF Elapse
<1> QED BY <1>5, <1>6, <1>7, <1>8, <1>9 DEF Next

LEMMA TypeInit == Init => TypeInv
<1> SUFFICES ASSUME Init PROVE TypeInv
  OBVIOUS
<1>1. 0 \in Values /\ 0 \in 0..CLINT!MaxTime /\ 0 \in 0..CLINT!Word - 1 /\ 0 \in 0..2^CounterBits + 1
      /\ 0 \in 0..MaxStall
  BY Widths, WaitAssumption DEF Values
<1>2. program \in {"driver", "maw", "clint"} /\ main \in Seq(Operation)
  <2>1. \A c \in Cycles : MawMain(c) \in Seq(Operation)
    BY MawProgram, Zenon
  <2>2. <<>> \in Seq(Operation)
    OBVIOUS
  <2> QED BY <2>1, <2>2 DEF Init
<1>3. IsrOK
  <2>1. Handler \in Seq(Operation) /\ Len(Handler) \in 0..Len(Handler)
    BY <1>2, HandlerProgram
  <2>2. isr = Rest(Handler, Len(Handler))
    BY <2>1, RestOf DEF Init
  <2> QED BY <2>1, <2>2 DEF IsrOK
<1> QED BY <1>1, <1>2, <1>3 DEF Init, TypeInv, TypeOK, Timer!Init, CLINT!Init, NoEnables, CtrlBits

\* The values of the registers and locals fit their widths, and no handler runs with
\* interrupts enabled.
THEOREM Typing == Spec => []TypeOK
<1>1. TypeInv => TypeOK
  BY DEF TypeInv
<1> QED BY <1>1, TypeInit, TypeStep, PTL DEF Spec

-----------------------------------------------------------------------------
(* The sleep of the CLINT.                                                 *)

\* Every number of ticks that may be asked for has passed.
Outlasted == \A t \in Ticks : age >= t

\* The time was t when the low word was read, or a word more.
Since(t) == Outlasted \/ mtime_q - age = t \/ mtime_q - age = t + CLINT!Word

\* The time does not run out before t ticks have passed.
Room(t) == mtime_q + (IF ticked THEN 0 ELSE 1) + t <= CLINT!MaxTime

\* The high word that has been read is that of the time, or was before the last tick.
ReadHigh ==
  \/ time = CLINT!High(mtime_q) * CLINT!Word
  \/ ticked /\ mtime_q > 0 /\ time = CLINT!High(mtime_q - 1) * CLINT!Word

\* The first k operations of a sleep have been done, and it has not come to wfi.
ClintSleepAt(t, k) ==
  /\ main = Rest(clint_sleep_ticks(t), k)
  /\ k \in {0} \cup 4..7 => time = 0
  /\ k < 2 => Room(t)
  /\ k = 1 => ReadHigh
  /\ k \in 2..3 => time + t <= CLINT!MaxTime /\ Since(time)
  /\ k = 3 => CLINT!High(mtimecmp_q) = CLINT!High(time + t)
  /\ k >= 4 => Since(mtimecmp_q - t)
  /\ k = 7 => gie \/ isr # <<>>

\* If the interrupt can wake the processor, the time that was read is not late.
ClintAsleep(t) ==
  /\ main = <<[op |-> "asleep", ticks |-> t]>> \o Rest(clint_sleep_ticks(t), 8)
  /\ isr = <<>> /\ gie /\ time = 0
  /\ mie => Outlasted \/ mtime_q - age = mtimecmp_q - t

\* The handler that has woken the processor comes first, and disables the interrupt.
ClintWoken(t) ==
  /\ main = Rest(clint_sleep_ticks(t), 8)
  /\ time = 0
  /\ \/ Taken
     \/ isr = default_handler
     \/ ~mie /\ (gie \/ isr # <<>>)

ClintLeaving(t) ==
  /\ main = Rest(clint_sleep_ticks(t), 9)
  /\ time = 0 /\ ~mie /\ (gie \/ isr # <<>>)

ClintInv ==
  \/ \E t \in Ticks : \/ \E k \in 0..7 : ClintSleepAt(t, k)
                      \/ ClintAsleep(t) \/ ClintWoken(t) \/ ClintLeaving(t)
  \/ \E t \in Times, k \in 0..1 : main = Rest(clint_set_mtimecmp(t), k) /\ time = 0
  \/ main = <<>> /\ time = 0
  \/ \E on \in BOOLEAN : main \in {<<Set("mie", on)>>, <<Set("gie", on)>>} /\ time = 0

\* The next operation of a program in the middle.
LEMMA Ahead ==
  ASSUME NEW P \in Seq(Operation), NEW k \in 0..Len(P)-1, main = Rest(P, k)
  PROVE  /\ main # <<>> /\ Head(main) = P[k + 1] /\ Tail(main) = Rest(P, k + 1)
         /\ P[k + 1].op \notin {"asleep", "spin"} => ~Waiting
<1>1. main # <<>> /\ Head(main) = P[k + 1] /\ Tail(main) = Rest(P, k + 1)
  <2>1. k \in 0..Len(P) /\ k < Len(P)
    OBVIOUS
  <2> QED BY <2>1, RestOf
<1> QED BY <1>1 DEF Waiting, At

LEMMA InstructionAt ==
  ASSUME NEW P \in Seq(Operation), NEW k \in 0..Len(P)-1, main = Rest(P, k), Instruction
  PROVE  /\ Do(P[k + 1]) /\ isr = <<>> /\ isr' = isr /\ ~Taken /\ ~Waiting
         /\ main' = IF P[k + 1].op = "wfi"
                    THEN <<[P[k + 1] EXCEPT !.op = "asleep"]>> \o Rest(P, k + 1)
                    ELSE Rest(P, k + 1)
<1>1. main # <<>> /\ Head(main) = P[k + 1] /\ Tail(main) = Rest(P, k + 1)
  BY Ahead
<1>2. Rest(P, k + 1) \in Seq(Operation)
  BY RestOf
<1>3. <<>> \o Rest(P, k + 1) = Rest(P, k + 1)
  BY <1>2, ConcatEmptySeq
<1> QED BY <1>1, <1>3 DEF Instruction, At

LEMMA FallsAsleepAt ==
  ASSUME NEW P \in Seq(Operation), NEW k \in 0..Len(P)-1, main = Rest(P, k), Instruction,
         NEW o, P[k + 1] = o, o.op = "wfi"
  PROVE  /\ Do(o) /\ isr = <<>> /\ isr' = isr /\ ~Taken
         /\ main' = <<[o EXCEPT !.op = "asleep"]>> \o Rest(P, k + 1)
BY InstructionAt

LEMMA PassesAt ==
  ASSUME NEW P \in Seq(Operation), NEW k \in 0..Len(P)-1, main = Rest(P, k), Instruction,
         NEW o, P[k + 1] = o, o.op # "wfi"
  PROVE  Do(o) /\ isr = <<>> /\ isr' = isr /\ ~Taken /\ main' = Rest(P, k + 1)
BY InstructionAt

LEMMA ClockKeeps ==
  ASSUME TypeInv, NEW o \in Step, ClintCycle(o), o.op # "read_low"
  PROVE  /\ \A x \in Int : Since(x) => Since(x)'
         /\ \A x \in Int : (Outlasted \/ mtime_q - age = x) => (Outlasted \/ mtime_q - age = x)'
         /\ ~Waiting => \A t \in Ticks : Room(t) => Room(t)'
         /\ ~Waiting /\ time' = time /\ ReadHigh => ReadHigh'
         /\ o.op # "write_cmp" => mtimecmp_q' = mtimecmp_q
<1>1. PICK tick \in BOOLEAN :
        /\ mtime_q' = (IF tick THEN mtime_q + 1 ELSE mtime_q) /\ mtime_q' \in 0..CLINT!MaxTime
        /\ tick => (Waiting \/ ~ticked) /\ mtime_q < CLINT!MaxTime
        /\ o.op # "write_cmp" => mtimecmp_q' = mtimecmp_q
        /\ ticked' = (~Waiting /\ (ticked \/ tick))
        /\ age' = IF tick /\ (\E t \in Ticks : age < t) THEN age + 1 ELSE age
  BY ClintMoves, Zenon
<1>2. mtime_q \in Nat /\ age \in Nat
  BY Widths DEF TypeInv, TypeOK
<1>3. Outlasted => Outlasted'
  BY <1>1, <1>2, Widths, WaitAssumption DEF Outlasted
<1>4. tick /\ ~Outlasted => age' = age + 1
  BY <1>1, <1>2, Widths, WaitAssumption DEF Outlasted
<1>5. ~tick => age' = age
  BY <1>1
<1>6. Outlasted' \/ mtime_q' - age' = mtime_q - age
  BY <1>1, <1>2, <1>3, <1>4, <1>5
<1>7. \A x \in Int : Since(x) => Since(x)'
  BY <1>3, <1>6, Widths DEF Since
<1>8. \A x \in Int : (Outlasted \/ mtime_q - age = x) => (Outlasted \/ mtime_q - age = x)'
  BY <1>3, <1>6
<1>9. ~Waiting => \A t \in Ticks : Room(t) => Room(t)'
  <2>1. \A t \in Ticks : t \in Int
    BY Widths, WaitAssumption
  <2>2. CASE tick
    <3>1. ~Waiting => ticked' /\ ~ticked
      BY <1>1, <2>2, Zenon
    <3> QED BY <1>1, <1>2, <2>1, <2>2, <3>1, Widths DEF Room
  <2>3. CASE ~tick
    <3>1. ~Waiting => (ticked' <=> ticked)
      BY <1>1, <2>3, Zenon
    <3> QED BY <1>1, <1>2, <2>1, <2>3, <3>1, Widths DEF Room
  <2> QED BY <2>2, <2>3
<1>10. ~Waiting /\ time' = time /\ ReadHigh => ReadHigh'
  <2> SUFFICES ASSUME ~Waiting, time' = time, ReadHigh PROVE ReadHigh'
    OBVIOUS
  <2>1. CASE tick
    <3>1. ticked' /\ ~ticked
      BY <1>1, <2>1, Zenon
    <3>2. mtime_q' - 1 = mtime_q /\ mtime_q' > 0
      BY <1>1, <1>2, <2>1
    <3> QED BY <3>1, <3>2 DEF ReadHigh
  <2>2. CASE ~tick
    <3>1. mtime_q' = mtime_q /\ (ticked => ticked')
      BY <1>1, <2>2, Zenon
    <3> QED BY <3>1 DEF ReadHigh
  <2> QED BY <2>1, <2>2
<1> QED BY <1>1, <1>7, <1>8, <1>9, <1>10, Zenon

\* Interrupts, handlers and waiting leave the sleep where it is.
LEMMA ClintKeeps ==
  ASSUME TypeInv, program = "clint", program' = program, Interrupt \/ Handle \/ Elapse
  PROVE  /\ main' = main /\ time' = time /\ mtimecmp_q' = mtimecmp_q
         /\ \A x \in Int : Since(x) => Since(x)'
         /\ \A x \in Int : (Outlasted \/ mtime_q - age = x) => (Outlasted \/ mtime_q - age = x)'
         /\ ~Waiting => \A t \in Ticks : Room(t) => Room(t)'
         /\ ~Waiting /\ ReadHigh => ReadHigh'
         /\ (gie \/ isr # <<>>) => (gie' \/ isr' # <<>>)
<1>1. ASSUME NEW o \in Step, ClintCycle(o), o.op \in {"none", "interrupt", "mie", "mret"},
             main' = main, time' = time, (gie \/ isr # <<>>) => (gie' \/ isr' # <<>>)
      PROVE  /\ main' = main /\ time' = time /\ mtimecmp_q' = mtimecmp_q
             /\ \A x \in Int : Since(x) => Since(x)'
             /\ \A x \in Int : (Outlasted \/ mtime_q - age = x)
                               => (Outlasted \/ mtime_q - age = x)'
             /\ ~Waiting => \A t \in Ticks : Room(t) => Room(t)'
             /\ ~Waiting /\ ReadHigh => ReadHigh'
             /\ (gie \/ isr # <<>>) => (gie' \/ isr' # <<>>)
  BY <1>1, ClockKeeps, Zenon
<1>2. Op("none").op = "none" /\ Op("interrupt").op = "interrupt"
  BY DEF Op
<1>3. CASE Interrupt
  <2>1. /\ ClintCycle(Op("interrupt")) /\ main' = main /\ time' = time /\ isr' = default_handler
        /\ Op("interrupt") \in Step
    BY <1>3, Carried DEF Interrupt, Cycle, locals, Handler
  <2>2. isr' # <<>>
    BY <2>1 DEF default_handler
  <2> QED BY <1>1, <1>2, <2>1, <2>2
<1>4. CASE Handle
  <2>1. /\ ClintCycle(Head(isr)) /\ Head(isr) \in Step /\ main' = main
        /\ Locals(Head(isr)) /\ Enables(Head(isr))
    BY <1>4, Carried DEF Handle, Do, Cycle
  <2>2. PICK k \in 0..Len(Handler)-1 : isr' = Rest(Handler, k + 1) /\ Head(isr) = Handler[k + 1]
    BY <1>4, Handling
  <2>3. Handler = default_handler
    BY DEF Handler
  <2>a. /\ Len(Handler) = 2 /\ Handler[1] = Set("mie", FALSE) /\ Handler[2] = Op("mret")
        /\ Handler \in Seq(Operation)
    BY <2>3, HandlerPrograms
  <2>b. k = 0 \/ k = 1
    BY <2>a
  <2>4. Head(isr) \in {Set("mie", FALSE), Op("mret")}
    <3>1. k + 1 = 1 \/ k + 1 = 2
      BY <2>b
    <3> QED BY <2>2, <2>a, <3>1, Zenon
  <2>5. Head(isr).op \in {"mie", "mret"}
    BY <2>4 DEF Set, Op
  <2>6. time' = time
    BY <2>1, <2>5 DEF Locals
  <2>7. gie' \/ isr' # <<>>
    <3>1. CASE k = 0
      <4>1. isr' # <<>>
        <5>1. isr' = Rest(Handler, 1) /\ 1 \in 0..Len(Handler) /\ 1 < Len(Handler)
          BY <2>2, <2>a, <3>1
        <5> QED BY <2>a, <5>1, RestOf
      <4> QED BY <4>1
    <3>2. CASE k = 1
      <4>1. Head(isr) = Op("mret")
        BY <2>2, <2>a, <3>2
      <4> QED BY <2>1, <4>1 DEF Enables, Op
    <3> QED BY <2>b, <3>1, <3>2
  <2> QED BY <1>1, <2>1, <2>5, <2>6, <2>7
<1>5. CASE Elapse
  <2>1. /\ ClintCycle(Op("none")) /\ main' = main /\ time' = time /\ isr' = isr /\ gie' = gie
        /\ Op("none") \in Step
    BY <1>5, Carried DEF Elapse, Cycle, locals
  <2> QED BY <1>1, <1>2, <2>1
<1> QED BY <1>3, <1>4, <1>5

\* The two words that are read give the time, or are late by the span of a word.
LEMMA ReadLow ==
  ASSUME TypeInv, ReadHigh
  PROVE  time + CLINT!Low(mtime_q) \in {mtime_q, mtime_q - CLINT!Word}
<1>1. mtime_q \in 0..CLINT!MaxTime /\ mtime_q \in Nat /\ CLINT!Word \in Nat
  BY Widths DEF TypeInv, TypeOK
<1>2. /\ mtime_q = CLINT!High(mtime_q) * CLINT!Word + CLINT!Low(mtime_q)
      /\ CLINT!High(mtime_q) \in Nat /\ CLINT!Low(mtime_q) \in Nat
      /\ CLINT!High(mtime_q) * CLINT!Word \in Nat
  <2>1. /\ mtime_q = CLINT!High(mtime_q) * CLINT!Word + CLINT!Low(mtime_q)
        /\ CLINT!High(mtime_q) \in Nat /\ CLINT!Low(mtime_q) \in Nat
    BY <1>1, Words, Widths
  <2> QED BY <2>1, <1>1
<1>3. CASE time = CLINT!High(mtime_q) * CLINT!Word
  BY <1>2, <1>3
<1>4. CASE mtime_q > 0 /\ time = CLINT!High(mtime_q - 1) * CLINT!Word
  <2> DEFINE m == mtime_q - 1
  <2>1. m \in 0..CLINT!MaxTime /\ m < CLINT!MaxTime /\ m + 1 = mtime_q
    BY <1>1, <1>4, Widths
  <2> HIDE DEF m
  <2>2. \/ CLINT!High(m) = CLINT!High(mtime_q)
        \/ CLINT!High(m) * CLINT!Word = CLINT!High(mtime_q) * CLINT!Word - CLINT!Word
    BY <2>1, NextHigh
  <2>3. time = CLINT!High(m) * CLINT!Word
    BY <1>4 DEF m
  <2> QED BY <1>1, <1>2, <2>2, <2>3
<1> QED BY <1>3, <1>4 DEF ReadHigh

\* The first half of a sleep, in which it reads the time and writes mtimecmp.
LEMMA ClintReads ==
  ASSUME TypeInv, program = "clint", program' = program, NEW t \in Ticks, NEW k \in 0..3,
         ClintSleepAt(t, k), Instruction
  PROVE  ClintSleepAt(t, k + 1)'
<1> DEFINE P == clint_sleep_ticks(t)
           o == P[k + 1]
           x == time + t
<1>1. /\ P \in Seq(Operation) /\ Len(P) = 10
      /\ P[1] = Op("read_high") /\ P[2] = Op("read_low")
      /\ P[3] = WriteCmp("MTIMECMP_HIGH0", t) /\ P[4] = WriteCmp("MTIMECMP_LOW0", t)
  BY ClintSleepProgram, Zenon
<1> HIDE DEF P
<1>2. main = Rest(P, k)
  BY DEF ClintSleepAt, P
<1>3. k \in 0..Len(P)-1
  BY <1>1
<1>4. o \in {Op("read_high"), Op("read_low"), WriteCmp("MTIMECMP_HIGH0", t),
             WriteCmp("MTIMECMP_LOW0", t)}
  BY <1>1
<1>5. o \in Step /\ o.op \in {"read_high", "read_low", "write_cmp"}
  <2>1. o \in Operation
    <3>1. P \in Seq(Operation) /\ k + 1 \in 1..Len(P)
      BY <1>1, <1>3
    <3> QED BY <3>1
  <2> QED BY <1>4, <2>1 DEF Step, Op, WriteCmp
<1>6. ClintCycle(o) /\ Locals(o) /\ ~Waiting /\ main' = Rest(P, k + 1)
  BY <1>1, <1>2, <1>3, <1>5, InstructionAt DEF Do, Cycle
<1>7. /\ t \in Nat /\ t < CLINT!Word /\ time \in Nat /\ CLINT!Word \in Nat
      /\ mtime_q \in 0..CLINT!MaxTime /\ mtimecmp_q \in 0..CLINT!MaxTime
      /\ mtime_q \in Nat /\ age \in Nat
  BY Widths, WaitAssumption DEF TypeInv, TypeOK
<1>8. CASE k = 0
  <2>1. o = Op("read_high") /\ o.op = "read_high"
    BY <1>1, <1>8 DEF Op
  <2>2. time' = CLINT!High(mtime_q) * CLINT!Word
    <3>1. time' = time + CLINT!High(mtime_q) * CLINT!Word /\ time = 0
      BY <1>6, <1>8, <2>1 DEF Locals, ClintSleepAt
    <3>2. CLINT!High(mtime_q) \in Nat
      BY <1>7, Words, Widths
    <3> QED BY <1>7, <3>1, <3>2
  <2>3. Room(t)'
    BY <1>5, <1>6, <1>8, <2>1, ClockKeeps DEF ClintSleepAt
  <2>4. ReadHigh'
    <3>1. \/ mtime_q' = mtime_q
          \/ ticked' /\ mtime_q' = mtime_q + 1
      BY <1>5, <1>6, ClintMoves, Zenon
    <3>2. mtime_q' = mtime_q + 1 => mtime_q' - 1 = mtime_q /\ mtime_q' > 0
      BY <1>7
    <3> QED BY <2>2, <3>1, <3>2 DEF ReadHigh
  <2> QED BY <1>6, <1>8, <2>3, <2>4 DEF ClintSleepAt, P
<1>9. CASE k = 1
  <2>1. o = Op("read_low") /\ o.op = "read_low"
    BY <1>1, <1>9 DEF Op
  <2>2. time' = time + CLINT!Low(mtime_q)
    BY <1>6, <2>1 DEF Locals
  <2>3. time' \in {mtime_q, mtime_q - CLINT!Word}
    BY <1>9, <2>2, ReadLow DEF ClintSleepAt
  <2>4. mtime_q' - age' = mtime_q
    <3>1. \/ mtime_q' = mtime_q /\ age' = 0
          \/ mtime_q' = mtime_q + 1 /\ age' = 1
      BY <1>5, <1>6, <2>1, ClintMoves, Zenon
    <3> QED BY <1>7, <3>1
  <2>5. Since(time)'
    BY <1>7, <2>3, <2>4 DEF Since
  <2>6. time' + t <= CLINT!MaxTime
    <3>1. Room(t)
      BY <1>9 DEF ClintSleepAt
    <3>2. mtime_q + t <= CLINT!MaxTime
      BY <1>7, <3>1, Widths DEF Room
    <3>3. time' <= mtime_q /\ time' \in Int
      BY <1>7, <2>3
    <3>4. CLINT!MaxTime \in Int /\ mtime_q \in Int /\ t \in Int /\ time' \in Int
      BY <1>7, <3>3, Widths
    <3>5. \A a, b, c, d \in Int : a <= b /\ b + c <= d => a + c <= d
      OBVIOUS
    <3> QED BY <3>2, <3>3, <3>4, <3>5, Zenon
  <2> QED BY <1>6, <1>9, <2>5, <2>6 DEF ClintSleepAt, P
<1>10. k \in 2..3 => /\ time + t <= CLINT!MaxTime /\ Since(time)
                     /\ x \in 0..CLINT!MaxTime /\ Written(o) = x
  <2> SUFFICES ASSUME k \in 2..3
               PROVE  /\ time + t <= CLINT!MaxTime /\ Since(time)
                      /\ x \in 0..CLINT!MaxTime /\ Written(o) = x
    OBVIOUS
  <2>1. time + t <= CLINT!MaxTime /\ Since(time)
    BY DEF ClintSleepAt
  <2>2. x \in 0..CLINT!MaxTime
    BY <1>7, <2>1, Widths
  <2>3. o.offset = t
    <3>1. k = 2 \/ k = 3
      OBVIOUS
    <3> QED BY <1>1, <3>1 DEF WriteCmp
  <2>4. x % (CLINT!MaxTime + 1) = x
    <3>1. \A m \in Nat : \A y \in 0..m : y % (m + 1) = y
      OBVIOUS
    <3> QED BY <2>2, <3>1, Widths
  <2> QED BY <2>1, <2>2, <2>3, <2>4 DEF Written
<1>11. /\ CLINT!High(mtimecmp_q) \in 0..CLINT!Word-1
       /\ CLINT!Low(mtimecmp_q) \in 0..CLINT!Word-1
  BY <1>7, Words
<1>12. CASE k = 2
  <2>1. o.op = "write_cmp" /\ o.reg = "MTIMECMP_HIGH0"
    BY <1>1, <1>12 DEF WriteCmp
  <2>2. time + t <= CLINT!MaxTime /\ Since(time) /\ x \in 0..CLINT!MaxTime /\ Written(o) = x
    BY <1>10, <1>12
  <2>3. time' = time
    BY <1>6, <2>1 DEF Locals
  <2>4. CLINT!High(x) \in 0..CLINT!Word-1
    BY <2>2, Words
  <2>5. mtimecmp_q' = CLINT!High(x) * CLINT!Word + CLINT!Low(mtimecmp_q)
    BY <1>5, <1>6, <2>1, <2>2, ClintMoves, Zenon
  <2>6. CLINT!High(mtimecmp_q') = CLINT!High(x)
    BY <1>11, <2>4, <2>5, JoinedWords
  <2>7. Since(time)'
    <3>1. \A y \in Int : Since(y) => Since(y)'
      BY <1>5, <1>6, <2>1, ClockKeeps
    <3> QED BY <1>7, <2>2, <2>3, <3>1 DEF Since
  <2> QED BY <1>6, <1>12, <2>2, <2>3, <2>6, <2>7 DEF ClintSleepAt, P
<1>13. CASE k = 3
  <2>1. o.op = "write_cmp" /\ o.reg = "MTIMECMP_LOW0" /\ o.reg # "MTIMECMP_HIGH0"
    BY <1>1, <1>13 DEF WriteCmp
  <2>2. time + t <= CLINT!MaxTime /\ Since(time) /\ x \in 0..CLINT!MaxTime /\ Written(o) = x
    BY <1>10, <1>13
  <2>3. time' = 0
    BY <1>6, <2>1 DEF Locals
  <2>4. mtimecmp_q' = CLINT!High(x) * CLINT!Word + CLINT!Low(x)
    <3>1. CLINT!High(mtimecmp_q) = CLINT!High(x)
      BY <1>13 DEF ClintSleepAt
    <3> QED BY <1>5, <1>6, <2>1, <2>2, <3>1, ClintMoves, Zenon
  <2>5. mtimecmp_q' = x
    BY <2>2, <2>4, Words
  <2>6. mtimecmp_q' - t = time
    BY <1>7, <2>5
  <2>7. Since(mtimecmp_q - t)'
    <3>1. \A y \in Int : Since(y) => Since(y)'
      BY <1>5, <1>6, <2>1, ClockKeeps
    <3> QED BY <1>7, <2>2, <2>6, <3>1 DEF Since
  <2> QED BY <1>6, <1>13, <2>3, <2>7 DEF ClintSleepAt, P
<1> QED BY <1>8, <1>9, <1>12, <1>13

\* The second half, up to wfi, enables interrupts.
LEMMA ClintEnables ==
  ASSUME TypeInv, program = "clint", program' = program, NEW t \in Ticks, NEW k \in 4..6,
         ClintSleepAt(t, k), Instruction
  PROVE  ClintSleepAt(t, k + 1)'
<1> DEFINE P == clint_sleep_ticks(t)
           o == P[k + 1]
<1>1. /\ P \in Seq(Operation) /\ Len(P) = 10
      /\ P[5] = Op("save") /\ P[6] = Set("mie", TRUE) /\ P[7] = Set("gie", TRUE)
  BY ClintSleepProgram, Zenon
<1> HIDE DEF P
<1>2. main = Rest(P, k) /\ k \in 0..Len(P)-1
  BY <1>1 DEF ClintSleepAt, P
<1>3. o \in {Op("save"), Set("mie", TRUE), Set("gie", TRUE)}
  <2>1. k + 1 = 5 \/ k + 1 = 6 \/ k + 1 = 7
    OBVIOUS
  <2> QED BY <1>1, <2>1
<1>4. o \in Step /\ o.op \in {"save", "mie", "gie"}
  <2>1. o \in Operation
    <3>1. P \in Seq(Operation) /\ k + 1 \in 1..Len(P)
      BY <1>1, <1>2
    <3> QED BY <3>1
  <2> QED BY <1>3, <2>1 DEF Step, Op, Set
<1>5. ClintCycle(o) /\ Locals(o) /\ Enables(o) /\ main' = Rest(P, k + 1)
  BY <1>1, <1>2, <1>4, InstructionAt DEF Do, Cycle
<1>6. time = 0 /\ Since(mtimecmp_q - t)
  BY DEF ClintSleepAt
<1>7. time' = 0
  BY <1>4, <1>5, <1>6 DEF Locals
<1>8. Since(mtimecmp_q - t)'
  <2>1. /\ \A y \in Int : Since(y) => Since(y)'
        /\ mtimecmp_q' = mtimecmp_q
    BY <1>4, <1>5, ClockKeeps
  <2>2. mtimecmp_q - t \in Int
    BY Widths, WaitAssumption DEF TypeInv, TypeOK
  <2> QED BY <1>6, <2>1, <2>2 DEF Since
<1>9. k = 6 => gie'
  <2> SUFFICES ASSUME k = 6 PROVE gie'
    OBVIOUS
  <2>1. o = Set("gie", TRUE)
    <3>1. k + 1 = 7
      OBVIOUS
    <3> QED BY <1>1, <3>1
  <2> QED BY <1>5, <2>1 DEF Enables, Set
<1> QED BY <1>5, <1>7, <1>8, <1>9 DEF ClintSleepAt, P

LEMMA AsleepHead ==
  ASSUME NEW s \in Seq(Operation), NEW x \in Operation
  PROVE  /\ <<x>> \o s \in Seq(Operation) /\ <<x>> \o s # <<>>
         /\ Len(<<x>> \o s) = Len(s) + 1
         /\ (<<x>> \o s)[1] = x /\ \A i \in 1..Len(s) : (<<x>> \o s)[i + 1] = s[i]
         /\ Head(<<x>> \o s) = x /\ Tail(<<x>> \o s) = s
<1> DEFINE r == <<x>> \o s
<1>1. <<x>> \in Seq(Operation) /\ Len(<<x>>) = 1 /\ <<x>>[1] = x
  OBVIOUS
<1>2. /\ r \in Seq(Operation) /\ Len(r) = Len(<<x>>) + Len(s)
      /\ \A i \in 1..Len(<<x>>) : r[i] = <<x>>[i]
      /\ \A i \in 1..Len(s) : r[Len(<<x>>) + i] = s[i]
  BY <1>1, Joined, Zenon
<1> HIDE DEF r
<1>3. /\ r \in Seq(Operation) /\ Len(r) = Len(s) + 1 /\ r # <<>>
      /\ r[1] = x /\ \A i \in 1..Len(s) : r[i + 1] = s[i]
  <2>1. Len(r) = Len(s) + 1 /\ r[1] = x /\ \A i \in 1..Len(s) : r[1 + i] = s[i]
    BY <1>1, <1>2
  <2> QED BY <1>2, <2>1
<1>4. Head(r) = x
  BY <1>3
<1>5. Tail(r) = s
  <2>1. /\ Tail(r) \in Seq(Operation) /\ Len(Tail(r)) = Len(s)
        /\ \A i \in 1..Len(s) : Tail(r)[i] = r[i + 1]
    BY <1>3, HeadTailProperties
  <2> QED BY <1>3, <2>1, SeqEqual
<1> QED BY <1>3, <1>4, <1>5 DEF r

\* The processor falls asleep with the interrupt not enabled or not pending, so that a
\* time that was late by a word would not wake it in time.
LEMMA ClintFallsAsleep ==
  ASSUME TypeInv, program = "clint", program' = program, NEW t \in Ticks,
         ClintSleepAt(t, 7), Instruction
  PROVE  ClintAsleep(t)'
<1> DEFINE P == clint_sleep_ticks(t)
           o == Wfi(t)
<1>1. P \in Seq(Operation) /\ Len(P) = 10 /\ P[8] = o
  BY ClintSleepProgram, Zenon
<1> HIDE DEF P
<1>2. main = Rest(P, 7) /\ 7 \in 0..Len(P)-1 /\ P[7 + 1] = o
  BY <1>1 DEF ClintSleepAt, P
<1>3. o \in Step /\ o.op = "wfi" /\ [o EXCEPT !.op = "asleep"] = [op |-> "asleep", ticks |-> t]
  BY OperationTypes DEF Step, Wfi
<1>4. /\ ClintCycle(o) /\ Locals(o) /\ Enables(o) /\ isr = <<>> /\ isr' = isr /\ ~Taken
      /\ main' = <<[op |-> "asleep", ticks |-> t]>> \o Rest(P, 8)
  <2>1. /\ Do(o) /\ isr = <<>> /\ isr' = isr /\ ~Taken
        /\ main' = <<[o EXCEPT !.op = "asleep"]>> \o Rest(P, 7 + 1)
    BY <1>1, <1>2, <1>3, FallsAsleepAt, Zenon
  <2> QED BY <1>3, <2>1 DEF Do, Cycle
<1>5. time = 0 /\ Since(mtimecmp_q - t) /\ gie
  BY <1>4 DEF ClintSleepAt
<1>6. time' = 0 /\ mie' = mie /\ gie' = gie
  BY <1>3, <1>4, <1>5 DEF Locals, Enables
<1>7. /\ t \in Nat /\ t < CLINT!Word /\ CLINT!Word \in Nat
      /\ mtimecmp_q \in Nat /\ mtime_q \in Nat /\ age \in Nat
  BY Widths, WaitAssumption DEF TypeInv, TypeOK
<1>8. mie => Outlasted \/ mtime_q - age = mtimecmp_q - t
  <2> SUFFICES ASSUME mie PROVE Outlasted \/ mtime_q - age = mtimecmp_q - t
    OBVIOUS
  <2>1. ~At(main, "asleep")
    <3>1. Head(main) = o
      BY <1>1, <1>2, Ahead
    <3> QED BY <1>3, <3>1 DEF At
  <2>2. ~(mtime_q >= mtimecmp_q)
    BY <1>4, <1>5, <2>1 DEF Taken, Pending, CLINT!timer_irq_o
  <2> QED BY <1>5, <1>7, <2>2 DEF Since
<1>9. (mie => Outlasted \/ mtime_q - age = mtimecmp_q - t)'
  <2>1. /\ \A y \in Int : (Outlasted \/ mtime_q - age = y) => (Outlasted \/ mtime_q - age = y)'
        /\ mtimecmp_q' = mtimecmp_q
    BY <1>3, <1>4, ClockKeeps
  <2>2. mtimecmp_q - t \in Int
    BY <1>7
  <2> QED BY <1>6, <1>8, <2>1, <2>2
<1> QED BY <1>4, <1>5, <1>6, <1>9 DEF ClintAsleep, P

\* Interrupts do not come while the processor is asleep; it wakes up when one is pending.
LEMMA ClintSleeps ==
  ASSUME TypeInv, program = "clint", Next, NEW t \in Ticks, ClintAsleep(t)
  PROVE  \/ ClintAsleep(t)' /\ main' = main
         \/ ClintWoken(t)' /\ Instruction /\ gie' /\ age >= t
<1> DEFINE P == clint_sleep_ticks(t)
           o == [op |-> "asleep", ticks |-> t]
           R == Rest(P, 8)
<1>0. program' = program
  BY DEF Next
<1>1. P \in Seq(Operation) /\ Len(P) = 10 /\ P[9] = Op("restore_mie")
  BY ClintSleepProgram, Zenon
<1>2. R \in Seq(Operation) /\ R # <<>> /\ Head(R) = Op("restore_mie")
  <2>1. 8 \in 0..Len(P) /\ 8 < Len(P) /\ P[8 + 1] = Op("restore_mie") /\ P \in Seq(Operation)
    BY <1>1
  <2> HIDE DEF P
  <2> QED BY <2>1, RestOf
<1>3. o \in Step /\ o \in Operation /\ o.op = "asleep" /\ o.ticks = t
  BY DEF Step, Operation
<1>4. main = <<o>> \o R /\ isr = <<>> /\ gie /\ time = 0
      /\ (mie => Outlasted \/ mtime_q - age = mtimecmp_q - t)
  BY DEF ClintAsleep
<1> HIDE DEF P, R
<1>5. main # <<>> /\ Head(main) = o /\ Tail(main) = R
  BY <1>2, <1>3, <1>4, AsleepHead
<1>6. At(main, "asleep") /\ ~At(main, "wfi")
  BY <1>3, <1>5 DEF At
<1> HIDE DEF o
<1>7. ~Interrupt /\ ~Handle /\ ~Call
  BY <1>4, <1>5, <1>6 DEF Interrupt, Taken, Handle, Call
<1>8. CASE Elapse
  <2>1. /\ main' = main /\ time' = time /\ mtimecmp_q' = mtimecmp_q
        /\ \A x \in Int : (Outlasted \/ mtime_q - age = x) => (Outlasted \/ mtime_q - age = x)'
    BY <1>0, <1>8, ClintKeeps
  <2>2. isr' = isr /\ mie' = mie /\ gie' = gie
    BY <1>8 DEF Elapse
  <2>3. mtimecmp_q - t \in Int
    BY Widths, WaitAssumption DEF TypeInv, TypeOK
  <2>4. (mie => Outlasted \/ mtime_q - age = mtimecmp_q - t)'
    BY <1>4, <2>1, <2>2, <2>3
  <2>5. main' = <<[op |-> "asleep", ticks |-> t]>> \o Rest(clint_sleep_ticks(t), 8)
    BY <2>1 DEF ClintAsleep
  <2> QED BY <1>4, <2>1, <2>2, <2>4, <2>5 DEF ClintAsleep
<1>9. CASE Instruction
  <2>1. /\ isr' = isr /\ Do(o) /\ mie /\ Pending
        /\ main' = <<>> \o R
    BY <1>5, <1>6, <1>9 DEF Instruction, Waiting
  <2>2. main' = R
    BY <1>2, <2>1, ConcatEmptySeq
  <2>3. ClintCycle(o) /\ Locals(o) /\ Enables(o)
    BY <2>1 DEF Do, Cycle
  <2>4. time' = 0 /\ mie' = mie /\ gie' = gie
    BY <1>3, <1>4, <2>3 DEF Locals, Enables
  <2>5. mtime_q >= mtimecmp_q
    BY <2>1 DEF Pending, CLINT!timer_irq_o
  <2>6. mtime_q' >= mtimecmp_q'
    <3>1. (mtime_q' = mtime_q \/ mtime_q' = mtime_q + 1) /\ mtimecmp_q' = mtimecmp_q
      BY <1>3, <2>3, ClintMoves, Zenon
    <3>2. mtime_q \in Nat /\ mtimecmp_q \in Nat
      BY Widths DEF TypeInv, TypeOK
    <3> QED BY <2>5, <3>1, <3>2
  <2>7. Taken'
    <3>1. ~At(main', "asleep")
      BY <1>2, <2>2 DEF At, Op
    <3>2. Pending'
      BY <1>0, <2>6 DEF Pending, CLINT!timer_irq_o
    <3> QED BY <1>4, <2>1, <2>4, <3>1, <3>2 DEF Taken
  <2>8. age >= t
    <3>1. t \in Nat /\ mtimecmp_q \in Nat /\ mtime_q \in Nat /\ age \in Nat
      BY Widths, WaitAssumption DEF TypeInv, TypeOK
    <3>2. CASE Outlasted
      BY <3>2 DEF Outlasted
    <3>3. CASE mtime_q - age = mtimecmp_q - t
      BY <2>5, <3>1, <3>3
    <3> QED BY <1>4, <2>1, <3>2, <3>3
  <2> QED BY <1>4, <1>9, <2>2, <2>4, <2>7, <2>8 DEF ClintWoken, P, R
<1> QED BY <1>7, <1>8, <1>9 DEF Next

\* The default handler leaves the interrupt disabled.
LEMMA ClintHandling ==
  ASSUME TypeInv, program = "clint", program' = program, Handle
  PROVE  /\ ~mie => ~mie'
         /\ isr = default_handler => ~mie' /\ isr' # <<>>
<1>1. Handler = default_handler
  BY DEF Handler
<1>2. /\ default_handler \in Seq(Operation) /\ Len(default_handler) = 2
      /\ default_handler[1] = Set("mie", FALSE) /\ default_handler[2] = Op("mret")
  BY HandlerPrograms
<1>3. PICK k \in 0..1 : /\ isr' = Rest(default_handler, k + 1)
                        /\ Head(isr) = default_handler[k + 1]
  BY <1>1, <1>2, Handling
<1>4. Head(isr) \in {Set("mie", FALSE), Op("mret")}
  <2>1. k + 1 = 1 \/ k + 1 = 2
    OBVIOUS
  <2> QED BY <1>2, <1>3, <2>1, Zenon
<1>5. Enables(Head(isr)) /\ isr' = Tail(isr)
  BY DEF Handle, Do
<1>6. ~mie => ~mie'
  BY <1>4, <1>5 DEF Enables, Set, Op
<1>7. ASSUME isr = default_handler PROVE ~mie' /\ isr' # <<>>
  <2>1. isr' = <<Op("mret")>> /\ Head(isr) = Set("mie", FALSE)
    BY <1>5, <1>7 DEF default_handler
  <2>2. isr' # <<>>
    BY <2>1
  <2>3. Head(isr).op = "mie" /\ Head(isr).on = FALSE
    BY <2>1 DEF Set
  <2>4. mie' = FALSE
    BY <1>5, <2>3 DEF Enables
  <2> QED BY <2>2, <2>4
<1> QED BY <1>6, <1>7

LEMMA ClintWakes ==
  ASSUME TypeInv, program = "clint", Next, NEW t \in Ticks, ClintWoken(t)
  PROVE  ClintWoken(t)' \/ ClintLeaving(t)'
<1> DEFINE P == clint_sleep_ticks(t)
<1>0. program' = program
  BY DEF Next
<1>1. /\ P \in Seq(Operation) /\ Len(P) = 10 /\ P[9] = Op("restore_mie")
  BY ClintSleepProgram, Zenon
<1> HIDE DEF P
<1>2. main = Rest(P, 8) /\ 8 \in 0..Len(P)-1 /\ P[8 + 1] = Op("restore_mie")
  BY <1>1 DEF ClintWoken, P
<1>3. main # <<>> /\ Head(main) = Op("restore_mie") /\ ~Waiting
  <2>1. Op("restore_mie").op \notin {"asleep", "spin"}
    BY DEF Op
  <2> QED BY <1>1, <1>2, <2>1, Ahead
<1>4. ~Call /\ ~Elapse
  BY <1>3 DEF Call, Elapse
<1>5. CASE Interrupt
  <2>1. main' = main /\ time' = time
    BY <1>5 DEF Interrupt, locals
  <2>2. isr' = default_handler
    BY <1>5 DEF Interrupt, Handler
  <2> QED BY <2>1, <2>2 DEF ClintWoken
<1>6. CASE Handle
  <2>1. main' = main /\ time' = time /\ ((gie \/ isr # <<>>) => (gie' \/ isr' # <<>>))
    BY <1>0, <1>6, ClintKeeps
  <2>2. (~mie => ~mie') /\ (isr = default_handler => ~mie' /\ isr' # <<>>)
    BY <1>0, <1>6, ClintHandling
  <2>3. ~Taken
    BY <1>6 DEF Handle, Taken
  <2> QED BY <2>1, <2>2, <2>3 DEF ClintWoken
<1>7. CASE Instruction
  <2>1. /\ Do(Op("restore_mie")) /\ isr = <<>> /\ isr' = isr /\ ~Taken
        /\ main' = Rest(P, 9)
    <3>1. 8 + 1 = 9 /\ Op("restore_mie").op # "wfi"
      BY DEF Op
    <3> QED BY <1>1, <1>2, <1>7, <3>1, InstructionAt, Zenon
  <2>2. ~mie /\ gie /\ time = 0
    BY <2>1 DEF ClintWoken, default_handler
  <2>3. ~mie' /\ gie' /\ time' = 0
    BY <2>1, <2>2 DEF Do, Enables, Locals, Op
  <2> QED BY <2>1, <2>3 DEF ClintLeaving, P
<1> QED BY <1>4, <1>5, <1>6, <1>7 DEF Next

LEMMA ClintLeaves ==
  ASSUME TypeInv, program = "clint", Next, NEW t \in Ticks, ClintLeaving(t)
  PROVE  \/ ClintLeaving(t)' /\ main' = main
         \/ /\ main' = <<>> /\ time' = 0 /\ Instruction
            /\ ~mie' /\ gie' = before.gie
<1> DEFINE P == clint_sleep_ticks(t)
<1>0. program' = program
  BY DEF Next
<1>1. P \in Seq(Operation) /\ Len(P) = 10 /\ P[10] = Op("restore_gie")
  BY ClintSleepProgram, Zenon
<1> HIDE DEF P
<1>2. main = Rest(P, 9) /\ 9 \in 0..Len(P)-1 /\ P[9 + 1] = Op("restore_gie")
  BY <1>1 DEF ClintLeaving, P
<1>3. main # <<>> /\ Head(main) = Op("restore_gie") /\ ~Waiting
  <2>1. Op("restore_gie").op \notin {"asleep", "spin"}
    BY DEF Op
  <2> QED BY <1>1, <1>2, <2>1, Ahead
<1>4. ~Call /\ ~Elapse /\ ~Interrupt
  BY <1>3 DEF Call, Elapse, Interrupt, Taken, ClintLeaving
<1>5. CASE Handle
  <2>1. main' = main /\ time' = time /\ ((gie \/ isr # <<>>) => (gie' \/ isr' # <<>>))
    BY <1>0, <1>5, ClintKeeps
  <2>2. ~mie => ~mie'
    BY <1>0, <1>5, ClintHandling
  <2> QED BY <2>1, <2>2 DEF ClintLeaving
<1>6. CASE Instruction
  <2>1. Do(Op("restore_gie")) /\ isr = <<>> /\ main' = Rest(P, 10)
    <3> DEFINE o == Op("restore_gie")
    <3>1. 9 + 1 = 10 /\ o.op # "wfi"
      BY DEF Op
    <3>2. Do(o) /\ isr = <<>> /\ isr' = isr /\ ~Taken /\ main' = Rest(P, 9 + 1)
      BY <1>1, <1>2, <1>6, <3>1, PassesAt, Zenon
    <3> QED BY <3>1, <3>2
  <2>2. main' = <<>>
    <3>1. Rest(P, Len(P)) = <<>>
      BY <1>1, RestEnd
    <3> QED BY <1>1, <2>1, <3>1
  <2>3. ~mie /\ gie /\ time = 0 /\ before.gie \in BOOLEAN
    BY <2>1 DEF ClintLeaving, TypeInv
  <2>4. Enables(Op("restore_gie")) /\ Locals(Op("restore_gie")) /\ Op("restore_gie").op = "restore_gie"
    BY <2>1 DEF Do, Op
  <2>5. mie' = mie /\ gie' = (gie /\ before.gie) /\ time' = 0
    BY <2>3, <2>4 DEF Enables, Locals
  <2>6. gie' = before.gie
    BY <2>3, <2>5
  <2> QED BY <1>6, <2>2, <2>3, <2>5, <2>6
<1> QED BY <1>4, <1>5, <1>6 DEF Next

LEMMA ClintSleepStep ==
  ASSUME TypeInv, program = "clint", Next, NEW t \in Ticks, NEW k \in 0..7, ClintSleepAt(t, k)
  PROVE  \/ ClintSleepAt(t, k)' /\ main' = main /\ time' = time
         \/ k < 7 /\ ClintSleepAt(t, k + 1)' /\ Instruction
         \/ k = 7 /\ ClintAsleep(t)' /\ Instruction
<1> DEFINE P == clint_sleep_ticks(t)
<1>0. program' = program
  BY DEF Next
<1>1. /\ P \in Seq(Operation) /\ Len(P) = 10
      /\ \A i \in 1..8 : P[i].op \notin {"asleep", "spin"}
  <2>1. /\ P \in Seq(Operation) /\ Len(P) = 10
        /\ P[1] = Op("read_high") /\ P[2] = Op("read_low")
        /\ P[3] = WriteCmp("MTIMECMP_HIGH0", t) /\ P[4] = WriteCmp("MTIMECMP_LOW0", t)
        /\ P[5] = Op("save") /\ P[6] = Set("mie", TRUE) /\ P[7] = Set("gie", TRUE)
        /\ P[8] = Wfi(t)
    BY ClintSleepProgram, Zenon
  <2> HIDE DEF P
  <2>2. \A i \in 1..8 : i = 1 \/ i = 2 \/ i = 3 \/ i = 4 \/ i = 5 \/ i = 6 \/ i = 7 \/ i = 8
    OBVIOUS
  <2>3. /\ P[1].op \notin {"asleep", "spin"} /\ P[2].op \notin {"asleep", "spin"}
        /\ P[3].op \notin {"asleep", "spin"} /\ P[4].op \notin {"asleep", "spin"}
        /\ P[5].op \notin {"asleep", "spin"} /\ P[6].op \notin {"asleep", "spin"}
        /\ P[7].op \notin {"asleep", "spin"} /\ P[8].op \notin {"asleep", "spin"}
    BY <2>1 DEF Op, WriteCmp, Set, Wfi
  <2> QED BY <2>1, <2>2, <2>3
<1> HIDE DEF P
<1>2. main = Rest(P, k) /\ k \in 0..Len(P)-1
  BY <1>1 DEF ClintSleepAt, P
<1>3. main # <<>> /\ ~Waiting
  <2>1. P[k + 1].op \notin {"asleep", "spin"}
    <3>1. k + 1 \in 1..8
      OBVIOUS
    <3> QED BY <1>1, <3>1
  <2> QED BY <1>1, <1>2, <2>1, Ahead
<1>4. ~Call
  BY <1>3 DEF Call
<1>5. CASE Interrupt \/ Handle \/ Elapse
  <2>1. /\ main' = main /\ time' = time /\ mtimecmp_q' = mtimecmp_q
        /\ \A x \in Int : Since(x) => Since(x)'
        /\ Room(t) => Room(t)'
        /\ ReadHigh => ReadHigh'
        /\ (gie \/ isr # <<>>) => (gie' \/ isr' # <<>>)
    BY <1>0, <1>3, <1>5, ClintKeeps
  <2>2. time \in Int /\ mtimecmp_q - t \in Int
    BY Widths, WaitAssumption DEF TypeInv, TypeOK
  <2>3. (Since(time) => Since(time)') /\ (Since(mtimecmp_q - t) => Since(mtimecmp_q - t)')
    BY <2>1, <2>2 DEF Since
  <2> QED BY <2>1, <2>3 DEF ClintSleepAt
<1>6. CASE Instruction
  <2>1. CASE k \in 0..3
    BY <1>0, <1>6, <2>1, ClintReads
  <2>2. CASE k \in 4..6
    BY <1>0, <1>6, <2>2, ClintEnables
  <2>3. CASE k = 7
    BY <1>0, <1>6, <2>3, ClintFallsAsleep
  <2> QED BY <2>1, <2>2, <2>3
<1> QED BY <1>4, <1>5, <1>6 DEF Next

\* A program of one operation.
LEMMA Single ==
  ASSUME NEW o \in Operation, main = <<o>>, o.op \notin {"wfi", "asleep", "spin"}
  PROVE  /\ main # <<>> /\ Head(main) = o /\ ~Waiting
         /\ Instruction => main' = <<>> /\ Do(o)
<1>1. main # <<>> /\ Head(main) = o /\ Tail(main) = <<>>
  OBVIOUS
<1>2. <<>> \o <<>> = <<>>
  BY ConcatEmptySeq
<1> QED BY <1>1, <1>2 DEF Waiting, At, Instruction

LEMMA ClintSets ==
  ASSUME TypeInv, program = "clint", Next, NEW t \in Times, NEW k \in 0..1,
         main = Rest(clint_set_mtimecmp(t), k), time = 0
  PROVE  ClintInv' /\ time' = 0
<1> DEFINE P == clint_set_mtimecmp(t)
<1>0. program' = program
  BY DEF Next
<1>1. /\ P \in Seq(Operation) /\ Len(P) = 2
      /\ P[1] = WriteCmp("MTIMECMP_HIGH0", t) /\ P[2] = WriteCmp("MTIMECMP_LOW0", t)
  <2>1. t \in Nat
    BY Widths, WaitAssumption
  <2> QED BY <2>1, ClintSetProgram
<1>a. main = Rest(P, k)
  OBVIOUS
<1> HIDE DEF P
<1>2. k \in 0..Len(P)-1 /\ P[k + 1].op = "write_cmp"
  <2>1. k + 1 = 1 \/ k + 1 = 2
    OBVIOUS
  <2>2. P[1].op = "write_cmp" /\ P[2].op = "write_cmp"
    BY <1>1 DEF WriteCmp
  <2> QED BY <1>1, <2>1, <2>2
<1>3. main # <<>> /\ ~Waiting
  BY <1>1, <1>2, <1>a, Ahead
<1>4. ~Call
  BY <1>3 DEF Call
<1>5. CASE Interrupt \/ Handle \/ Elapse
  <2>1. main' = main /\ time' = time
    BY <1>0, <1>5, ClintKeeps
  <2> QED BY <2>1 DEF ClintInv
<1>6. CASE Instruction
  <2>1. Do(P[k + 1]) /\ main' = Rest(P, k + 1)
    BY <1>1, <1>2, <1>6, <1>a, InstructionAt
  <2>2. time' = 0
    BY <1>2, <2>1 DEF Do, Locals
  <2>3. CASE k = 0
    BY <2>1, <2>2, <2>3 DEF ClintInv, P
  <2>4. CASE k = 1
    <3>1. main' = <<>>
      <4>1. 2 \in 0..Len(P) /\ 2 = Len(P) /\ P \in Seq(Operation)
        BY <1>1
      <4>2. main' = Rest(P, 2)
        BY <2>1, <2>4
      <4>3. Rest(P, 2) = <<>>
        BY <4>1, RestEnd
      <4> QED BY <4>2, <4>3
    <3> QED BY <2>2, <3>1 DEF ClintInv
  <2> QED BY <2>3, <2>4
<1> QED BY <1>4, <1>5, <1>6 DEF Next

LEMMA ClintSwitches ==
  ASSUME TypeInv, program = "clint", Next, NEW on \in BOOLEAN, NEW name \in {"mie", "gie"},
         main = <<Set(name, on)>>, time = 0
  PROVE  ClintInv' /\ time' = 0
<1>0. program' = program
  BY DEF Next
<1>1. Set(name, on) \in Operation /\ Set(name, on).op = name
  BY OperationTypes DEF Set
<1>2. main # <<>> /\ (Instruction => main' = <<>> /\ Do(Set(name, on)))
  BY <1>1, Single
<1>3. ~Call
  BY <1>2 DEF Call
<1>4. CASE Interrupt \/ Handle \/ Elapse
  <2>1. main' = main /\ time' = time
    BY <1>0, <1>4, ClintKeeps
  <2> QED BY <2>1 DEF ClintInv
<1>5. CASE Instruction
  <2>1. main' = <<>> /\ time' = time
    BY <1>1, <1>2, <1>5 DEF Do, Locals
  <2> QED BY <2>1 DEF ClintInv
<1> QED BY <1>3, <1>4, <1>5 DEF Next

LEMMA ClintCalled ==
  ASSUME TypeInv, program = "clint", Next, main = <<>>, time = 0
  PROVE  ClintInv' /\ time' = 0
<1>0. program' = program
  BY DEF Next
<1>1. Waiting
  BY DEF Waiting
<1>2. ~Instruction
  BY <1>1 DEF Instruction
<1>3. CASE Interrupt \/ Handle \/ Elapse
  <2>1. main' = main /\ time' = time
    BY <1>0, <1>3, ClintKeeps
  <2> QED BY <2>1 DEF ClintInv
<1>4. CASE Call
  <2>1. main' \in ClintCalls /\ time' = 0 /\ ClintCycle(Op("none"))
    BY <1>4 DEF Call, Cycle, locals
  <2>2. CASE \E t \in {u \in Ticks : mtime_q + 2 + u <= CLINT!MaxTime} :
               main' = clint_sleep_ticks(t)
    <3>1. PICK t \in Ticks : mtime_q + 2 + t <= CLINT!MaxTime /\ main' = clint_sleep_ticks(t)
      BY <2>2
    <3>2. main' = Rest(clint_sleep_ticks(t), 0)
      <4>1. clint_sleep_ticks(t) \in Seq(Operation) /\ Len(clint_sleep_ticks(t)) = 10
        BY ClintSleepProgram, Zenon
      <4>2. 0 \in 0..Len(clint_sleep_ticks(t))
        BY <4>1
      <4> QED BY <3>1, <4>1, <4>2, RestOf
    <3>3. Room(t)'
      <4>1. ~ticked' /\ (mtime_q' = mtime_q \/ mtime_q' = mtime_q + 1)
        BY <1>1, <2>1, Carried, ClintMoves, Zenon
      <4>2. mtime_q \in Nat /\ t \in Nat /\ CLINT!MaxTime \in Nat
        BY Widths, WaitAssumption DEF TypeInv, TypeOK
      <4> QED BY <3>1, <4>1, <4>2 DEF Room
    <3>4. ClintSleepAt(t, 0)'
      BY <2>1, <3>2, <3>3 DEF ClintSleepAt
    <3> QED BY <2>1, <3>4 DEF ClintInv
  <2>3. CASE \E t \in Times : main' = clint_set_mtimecmp(t)
    <3>1. PICK t \in Times : main' = clint_set_mtimecmp(t)
      BY <2>3
    <3>2. main' = Rest(clint_set_mtimecmp(t), 0)
      <4>1. t \in Nat
        BY Widths, WaitAssumption
      <4>2. clint_set_mtimecmp(t) \in Seq(Operation) /\ 0 \in 0..Len(clint_set_mtimecmp(t))
        BY <4>1, ClintSetProgram
      <4> QED BY <3>1, <4>2, RestOf
    <3> QED BY <2>1, <3>2 DEF ClintInv
  <2>4. CASE \E on \in BOOLEAN : main' \in {<<Set("mie", on)>>, <<Set("gie", on)>>}
    BY <2>1, <2>4 DEF ClintInv
  <2> QED BY <2>1, <2>2, <2>3, <2>4 DEF ClintCalls
<1> QED BY <1>2, <1>3, <1>4 DEF Next

LEMMA ClintStep ==
  ASSUME TypeInv, program = "clint", ClintInv, Next
  PROVE  ClintInv'
<1>1. ASSUME NEW t \in Ticks, NEW k \in 0..7, ClintSleepAt(t, k) PROVE ClintInv'
  <2>1. \/ ClintSleepAt(t, k)'
        \/ k < 7 /\ ClintSleepAt(t, k + 1)'
        \/ ClintAsleep(t)'
    BY <1>1, ClintSleepStep
  <2>2. k < 7 => k + 1 \in 0..7
    OBVIOUS
  <2> QED BY <2>1, <2>2 DEF ClintInv
<1>2. ASSUME NEW t \in Ticks, ClintAsleep(t) PROVE ClintInv'
  <2>1. ClintAsleep(t)' \/ ClintWoken(t)'
    BY <1>2, ClintSleeps
  <2> QED BY <2>1 DEF ClintInv
<1>3. ASSUME NEW t \in Ticks, ClintWoken(t) PROVE ClintInv'
  <2>1. ClintWoken(t)' \/ ClintLeaving(t)'
    BY <1>3, ClintWakes
  <2> QED BY <2>1 DEF ClintInv
<1>4. ASSUME NEW t \in Ticks, ClintLeaving(t) PROVE ClintInv'
  <2>1. ClintLeaving(t)' \/ (main' = <<>> /\ time' = 0)
    BY <1>4, ClintLeaves
  <2> QED BY <2>1 DEF ClintInv
<1>5. CASE \E t \in Times, k \in 0..1 : main = Rest(clint_set_mtimecmp(t), k) /\ time = 0
  BY <1>5, ClintSets
<1>6. CASE main = <<>> /\ time = 0
  BY <1>6, ClintCalled
<1>7. CASE \E on \in BOOLEAN : main \in {<<Set("mie", on)>>, <<Set("gie", on)>>} /\ time = 0
  <2>1. PICK on \in BOOLEAN : main = <<Set("mie", on)>> \/ main = <<Set("gie", on)>>
    BY <1>7
  <2> QED BY <1>7, <2>1, ClintSwitches
<1> QED BY <1>1, <1>2, <1>3, <1>4, <1>5, <1>6, <1>7 DEF ClintInv

\* Being in a sleep, of a program.
InSleepOf(s) == s # <<>> /\ s[Len(s)].op = "restore_gie" /\ \A i \in DOMAIN s : s[i].op # "save"

LEMMA InSleepOfMain == (InSleep <=> InSleepOf(main)) /\ (InSleep' <=> InSleepOf(main'))
BY DEF InSleep, InSleepOf

\* A program that ends with restore_gie is in a sleep once its only save is done.
LEMMA SleepPart ==
  ASSUME NEW P \in Seq(Operation), NEW j \in 1..Len(P), P[Len(P)].op = "restore_gie",
         \A i \in 1..Len(P) : P[i].op = "save" <=> i = j, NEW k \in 0..Len(P)-1
  PROVE  InSleepOf(Rest(P, k)) <=> k >= j
<1> DEFINE r == Rest(P, k)
<1>1. /\ r \in Seq(Operation) /\ Len(r) = Len(P) - k /\ r # <<>>
      /\ \A i \in 1..Len(P) - k : r[i] = P[k + i]
  <2>1. k \in 0..Len(P) /\ k < Len(P)
    OBVIOUS
  <2> QED BY <2>1, RestOf
<1> HIDE DEF r
<1>2. DOMAIN r = 1..Len(P) - k
  BY <1>1
<1>3. r[Len(r)] = P[Len(P)]
  <2>1. Len(r) \in 1..Len(P) - k /\ k + Len(r) = Len(P)
    BY <1>1
  <2> QED BY <1>1, <2>1
<1>4. (\A i \in DOMAIN r : r[i].op # "save") <=> k >= j
  <2>1. ASSUME k >= j, NEW i \in 1..Len(P) - k PROVE r[i].op # "save"
    <3>1. k + i \in 1..Len(P) /\ k + i # j
      BY <2>1
    <3> QED BY <1>1, <3>1
  <2>2. ASSUME k < j PROVE \E i \in 1..Len(P) - k : r[i].op = "save"
    <3>1. j - k \in 1..Len(P) - k /\ k + (j - k) = j
      BY <2>2
    <3> QED BY <1>1, <3>1
  <2> QED BY <1>2, <2>1, <2>2
<1> QED BY <1>1, <1>3, <1>4 DEF InSleepOf, r

LEMMA SleepPartAsleep ==
  ASSUME NEW s \in Seq(Operation), InSleepOf(s), NEW x \in Operation, x.op # "save"
  PROVE  InSleepOf(<<x>> \o s)
<1> DEFINE r == <<x>> \o s
<1>1. /\ r \in Seq(Operation) /\ r # <<>> /\ Len(r) = Len(s) + 1
      /\ r[1] = x /\ \A i \in 1..Len(s) : r[i + 1] = s[i]
  BY AsleepHead
<1> HIDE DEF r
<1>2. /\ Len(s) \in 1..Len(s) /\ s[Len(s)].op = "restore_gie"
      /\ \A i \in 1..Len(s) : s[i].op # "save"
  BY DEF InSleepOf
<1>3. r[Len(r)].op = "restore_gie"
  BY <1>1, <1>2
<1>4. ASSUME NEW i \in 1..Len(s) + 1 PROVE r[i].op # "save"
  <2>1. CASE i = 1
    BY <1>1, <2>1
  <2>2. CASE i # 1
    <3>1. i - 1 \in 1..Len(s) /\ (i - 1) + 1 = i
      BY <1>2, <2>2
    <3> QED BY <1>1, <1>2, <3>1
  <2> QED BY <2>1, <2>2
<1> QED BY <1>1, <1>3, <1>4 DEF InSleepOf, r

LEMMA ClintSleepPart ==
  ASSUME NEW t \in Ticks
  PROVE  /\ \A k \in 0..9 : InSleepOf(Rest(clint_sleep_ticks(t), k)) <=> k >= 5
         /\ InSleepOf(<<[op |-> "asleep", ticks |-> t]>> \o Rest(clint_sleep_ticks(t), 8))
<1> DEFINE P == clint_sleep_ticks(t)
<1>1. /\ P \in Seq(Operation) /\ Len(P) = 10
      /\ P[1] = Op("read_high") /\ P[2] = Op("read_low")
      /\ P[3] = WriteCmp("MTIMECMP_HIGH0", t) /\ P[4] = WriteCmp("MTIMECMP_LOW0", t)
      /\ P[5] = Op("save") /\ P[6] = Set("mie", TRUE) /\ P[7] = Set("gie", TRUE)
      /\ P[8] = Wfi(t) /\ P[9] = Op("restore_mie") /\ P[10] = Op("restore_gie")
  BY ClintSleepProgram, Zenon
<1> HIDE DEF P
<1>2. \A i \in 1..10 : i = 1 \/ i = 2 \/ i = 3 \/ i = 4 \/ i = 5 \/ i = 6 \/ i = 7 \/ i = 8
                       \/ i = 9 \/ i = 10
  OBVIOUS
<1>3. /\ P[1].op # "save" /\ P[2].op # "save" /\ P[3].op # "save" /\ P[4].op # "save"
      /\ P[5].op = "save" /\ P[6].op # "save" /\ P[7].op # "save" /\ P[8].op # "save"
      /\ P[9].op # "save" /\ P[10].op # "save" /\ P[10].op = "restore_gie"
  BY <1>1 DEF Op, WriteCmp, Set, Wfi
<1>4. \A i \in 1..10 : P[i].op = "save" <=> i = 5
  BY <1>2, <1>3
<1>5. \A k \in 0..9 : InSleepOf(Rest(P, k)) <=> k >= 5
  <2> TAKE k \in 0..9
  <2>1. /\ P \in Seq(Operation) /\ 5 \in 1..Len(P) /\ P[Len(P)].op = "restore_gie"
        /\ k \in 0..Len(P)-1
        /\ \A i \in 1..Len(P) : P[i].op = "save" <=> i = 5
    BY <1>1, <1>3, <1>4
  <2> QED BY <2>1, SleepPart
<1>6. InSleepOf(<<[op |-> "asleep", ticks |-> t]>> \o Rest(P, 8))
  <2>1. InSleepOf(Rest(P, 8))
    BY <1>5
  <2>2. Rest(P, 8) \in Seq(Operation)
    <3>1. P \in Seq(Operation) /\ 8 \in 0..Len(P)
      BY <1>1
    <3> QED BY <3>1, RestOf
  <2>3. [op |-> "asleep", ticks |-> t] \in Operation
    BY DEF Operation
  <2> QED BY <2>1, <2>2, <2>3, SleepPartAsleep
<1> QED BY <1>5, <1>6 DEF P

\* clint_get_mtime is called by nobody but the sleep.
LEMMA ClintTimeRead ==
  ASSUME TypeInv, program = "clint", ClintInv, Next,
         time' # time, At(main', "write_cmp"), ~At(main, "write_cmp")
  PROVE  time' = mtime_q \/ time' = mtime_q - CLINT!Word
<1>1. ASSUME NEW t \in Ticks, NEW k \in 0..7, ClintSleepAt(t, k)
      PROVE  time' = mtime_q \/ time' = mtime_q - CLINT!Word
  <2> DEFINE P == clint_sleep_ticks(t)
  <2>1. /\ P \in Seq(Operation) /\ Len(P) = 10
        /\ P[1] = Op("read_high") /\ P[2] = Op("read_low")
        /\ P[3] = WriteCmp("MTIMECMP_HIGH0", t) /\ P[4] = WriteCmp("MTIMECMP_LOW0", t)
    BY ClintSleepProgram, Zenon
  <2> HIDE DEF P
  <2>2. main = Rest(P, k) /\ k \in 0..Len(P)-1
    BY <1>1, <2>1 DEF ClintSleepAt, P
  <2>3. Instruction /\ k <= 3 /\ ClintSleepAt(t, k + 1)'
    <3>1. \/ k < 7 /\ ClintSleepAt(t, k + 1)' /\ Instruction
          \/ k = 7 /\ ClintAsleep(t)' /\ Instruction
      BY <1>1, ClintSleepStep
    <3>2. k >= 4 => time = 0
      BY <1>1 DEF ClintSleepAt
    <3>3. k >= 4 => time' = 0
      BY <3>1 DEF ClintSleepAt, ClintAsleep
    <3> QED BY <3>1, <3>2, <3>3
  <2>4. k # 2 /\ k # 3
    <3>1. Head(main) = P[k + 1] /\ main # <<>>
      BY <2>1, <2>2, Ahead
    <3>2. P[3].op = "write_cmp" /\ P[4].op = "write_cmp"
      BY <2>1 DEF WriteCmp
    <3>3. (k = 2 => k + 1 = 3) /\ (k = 3 => k + 1 = 4)
      OBVIOUS
    <3> QED BY <3>1, <3>2, <3>3 DEF At
  <2>5. k # 0
    <3> SUFFICES ASSUME k = 0 PROVE FALSE
      OBVIOUS
    <3>1. main' = Rest(P, 1)
      BY <2>3 DEF ClintSleepAt, P
    <3>2. P \in Seq(Operation) /\ 1 \in 0..Len(P) /\ 1 < Len(P) /\ P[1 + 1] = Op("read_low")
      BY <2>1
    <3>3. Head(main') = Op("read_low")
      BY <3>1, <3>2, RestOf
    <3> QED BY <3>3 DEF At, Op
  <2>6. k = 1
    BY <2>3, <2>4, <2>5
  <2>7. Do(Op("read_low"))
    <3>1. Do(P[k + 1])
      BY <2>1, <2>2, <2>3, InstructionAt
    <3>2. k + 1 = 2
      BY <2>6
    <3> QED BY <2>1, <3>1, <3>2
  <2>8. time' = time + CLINT!Low(mtime_q)
    BY <2>7 DEF Do, Locals, Op
  <2>9. ReadHigh
    BY <1>1, <2>6 DEF ClintSleepAt
  <2> QED BY <2>8, <2>9, ReadLow
<1>2. ASSUME NEW t \in Ticks, ClintAsleep(t) \/ ClintWoken(t) \/ ClintLeaving(t) PROVE FALSE
  <2>1. time = 0
    BY <1>2 DEF ClintAsleep, ClintWoken, ClintLeaving
  <2>2. time' = 0
    <3>1. CASE ClintAsleep(t)
      <4>1. ClintAsleep(t)' \/ ClintWoken(t)'
        BY <3>1, ClintSleeps
      <4> QED BY <4>1 DEF ClintAsleep, ClintWoken
    <3>2. CASE ClintWoken(t)
      <4>1. ClintWoken(t)' \/ ClintLeaving(t)'
        BY <3>2, ClintWakes
      <4> QED BY <4>1 DEF ClintLeaving, ClintWoken
    <3>3. CASE ClintLeaving(t)
      <4>1. ClintLeaving(t)' \/ time' = 0
        BY <3>3, ClintLeaves
      <4> QED BY <4>1 DEF ClintLeaving
    <3> QED BY <1>2, <3>1, <3>2, <3>3
  <2> QED BY <2>1, <2>2
<1>3. ASSUME NEW t \in Times, NEW k \in 0..1, main = Rest(clint_set_mtimecmp(t), k), time = 0
      PROVE  FALSE
  BY <1>3, ClintSets
<1>4. ASSUME main = <<>>, time = 0 PROVE FALSE
  BY <1>4, ClintCalled
<1>5. ASSUME NEW on \in BOOLEAN, main \in {<<Set("mie", on)>>, <<Set("gie", on)>>}, time = 0
      PROVE  FALSE
  BY <1>5, ClintSwitches
<1> QED BY <1>1, <1>2, <1>3, <1>4, <1>5 DEF ClintInv

\* Where the main program of the CLINT may be asleep, and where in a sleep.
LEMMA ClintPlaces ==
  ASSUME TypeInv, program = "clint", ClintInv
  PROVE  /\ At(main, "asleep") => \E t \in Ticks : ClintAsleep(t) /\ Head(main).ticks = t
         /\ InSleep => \E t \in Ticks : \/ \E k \in 5..7 : ClintSleepAt(t, k)
                                        \/ ClintAsleep(t) \/ ClintWoken(t) \/ ClintLeaving(t)
<1>1. ASSUME NEW t \in Ticks, NEW k \in 0..7, ClintSleepAt(t, k)
      PROVE  ~At(main, "asleep") /\ (InSleep => k \in 5..7)
  <2>1. ~At(main, "asleep")
    <3> DEFINE P == clint_sleep_ticks(t)
    <3>1. /\ P \in Seq(Operation) /\ Len(P) = 10
          /\ P[1] = Op("read_high") /\ P[2] = Op("read_low")
          /\ P[3] = WriteCmp("MTIMECMP_HIGH0", t) /\ P[4] = WriteCmp("MTIMECMP_LOW0", t)
          /\ P[5] = Op("save") /\ P[6] = Set("mie", TRUE) /\ P[7] = Set("gie", TRUE)
          /\ P[8] = Wfi(t)
      BY ClintSleepProgram, Zenon
    <3> HIDE DEF P
    <3>2. k + 1 = 1 \/ k + 1 = 2 \/ k + 1 = 3 \/ k + 1 = 4 \/ k + 1 = 5 \/ k + 1 = 6
          \/ k + 1 = 7 \/ k + 1 = 8
      OBVIOUS
    <3>3. P[k + 1] \in {Op("read_high"), Op("read_low"), WriteCmp("MTIMECMP_HIGH0", t),
                        WriteCmp("MTIMECMP_LOW0", t), Op("save"), Set("mie", TRUE),
                        Set("gie", TRUE), Wfi(t)}
      BY <3>1, <3>2, Zenon
    <3>4. Head(main) = P[k + 1]
      <4>1. main = Rest(P, k) /\ k \in 0..Len(P)-1
        BY <1>1, <3>1 DEF ClintSleepAt, P
      <4> QED BY <3>1, <4>1, Ahead
    <3> QED BY <3>3, <3>4 DEF At, Op, WriteCmp, Set, Wfi
  <2>2. InSleep => k \in 5..7
    <3>1. main = Rest(clint_sleep_ticks(t), k) /\ k \in 0..9
      BY <1>1 DEF ClintSleepAt
    <3>2. InSleepOf(Rest(clint_sleep_ticks(t), k)) <=> k >= 5
      BY <3>1, ClintSleepPart
    <3> QED BY <3>1, <3>2, InSleepOfMain
  <2> QED BY <2>1, <2>2
<1>2. ASSUME NEW t \in Ticks, ClintAsleep(t) PROVE Head(main).ticks = t
  <2> DEFINE o == [op |-> "asleep", ticks |-> t]
             R == Rest(clint_sleep_ticks(t), 8)
  <2>1. clint_sleep_ticks(t) \in Seq(Operation) /\ Len(clint_sleep_ticks(t)) = 10
    BY ClintSleepProgram, Zenon
  <2>2. R \in Seq(Operation)
    <3>1. 8 \in 0..Len(clint_sleep_ticks(t))
      BY <2>1
    <3> QED BY <2>1, <3>1, RestOf
  <2>3. o \in Operation /\ o.ticks = t
    BY DEF Operation
  <2>4. main = <<o>> \o R
    BY <1>2 DEF ClintAsleep
  <2> HIDE DEF o, R
  <2> QED BY <2>2, <2>3, <2>4, AsleepHead
<1>3. ASSUME NEW t \in Ticks, ClintWoken(t) \/ ClintLeaving(t) PROVE ~At(main, "asleep")
  <2> DEFINE P == clint_sleep_ticks(t)
  <2>1. /\ P \in Seq(Operation) /\ Len(P) = 10
        /\ P[9] = Op("restore_mie") /\ P[10] = Op("restore_gie")
    BY ClintSleepProgram, Zenon
  <2> HIDE DEF P
  <2>2. CASE ClintWoken(t)
    <3>1. main = Rest(P, 8) /\ 8 \in 0..Len(P)-1 /\ P[8 + 1] = Op("restore_mie")
      BY <2>1, <2>2 DEF ClintWoken, P
    <3>2. Head(main) = Op("restore_mie")
      BY <2>1, <3>1, Ahead
    <3> QED BY <3>2 DEF At, Op
  <2>3. CASE ClintLeaving(t)
    <3>1. main = Rest(P, 9) /\ 9 \in 0..Len(P)-1 /\ P[9 + 1] = Op("restore_gie")
      BY <2>1, <2>3 DEF ClintLeaving, P
    <3>2. Head(main) = Op("restore_gie")
      BY <2>1, <3>1, Ahead
    <3> QED BY <3>2 DEF At, Op
  <2> QED BY <1>3, <2>2, <2>3
<1>4. ASSUME NEW t \in Times, NEW k \in 0..1, main = Rest(clint_set_mtimecmp(t), k)
      PROVE  ~At(main, "asleep") /\ ~InSleep
  <2> DEFINE P == clint_set_mtimecmp(t)
  <2>1. /\ P \in Seq(Operation) /\ Len(P) = 2
        /\ P[1] = WriteCmp("MTIMECMP_HIGH0", t) /\ P[2] = WriteCmp("MTIMECMP_LOW0", t)
    <3>1. t \in Nat
      BY Widths, WaitAssumption
    <3> QED BY <3>1, ClintSetProgram
  <2>2. main = Rest(P, k)
    BY <1>4
  <2> HIDE DEF P
  <2>3. P[1].op = "write_cmp" /\ P[2].op = "write_cmp"
    BY <2>1 DEF WriteCmp
  <2>4. /\ k \in 0..Len(P) /\ k < Len(P) /\ P \in Seq(Operation) /\ P[k + 1].op = "write_cmp"
        /\ Len(P) = 2
    <3>1. k + 1 = 1 \/ k + 1 = 2
      OBVIOUS
    <3> QED BY <2>1, <2>3, <3>1
  <2>5. /\ Head(main) = P[k + 1] /\ Len(main) = 2 - k
        /\ \A i \in 1..2 - k : main[i] = P[k + i]
    BY <2>2, <2>4, RestOf
  <2>6. main[Len(main)] = P[2]
    <3>1. 2 - k \in 1..2 - k /\ k + (2 - k) = 2
      OBVIOUS
    <3> QED BY <2>5, <3>1
  <2> QED BY <2>3, <2>4, <2>5, <2>6 DEF At, InSleep
<1>5. main = <<>> => ~At(main, "asleep") /\ ~InSleep
  BY DEF At, InSleep
<1>6. ASSUME NEW on \in BOOLEAN, main \in {<<Set("mie", on)>>, <<Set("gie", on)>>}
      PROVE  ~At(main, "asleep") /\ ~InSleep
  BY <1>6 DEF At, InSleep, Set
<1> QED BY <1>1, <1>2, <1>3, <1>4, <1>5, <1>6 DEF ClintInv
LEMMA ClintEnds ==
  ASSUME TypeInv, program = "clint", ClintInv, Next, InSleep, ~InSleep'
  PROVE  ~mie' /\ gie' = before.gie
<1>1. PICK t \in Ticks : \/ \E k \in 5..7 : ClintSleepAt(t, k)
                         \/ ClintAsleep(t) \/ ClintWoken(t) \/ ClintLeaving(t)
  BY ClintPlaces
<1>2. /\ \A k \in 5..9 : InSleepOf(Rest(clint_sleep_ticks(t), k))
      /\ InSleepOf(<<[op |-> "asleep", ticks |-> t]>> \o Rest(clint_sleep_ticks(t), 8))
  BY ClintSleepPart
<1>3. main' # main /\ ~InSleepOf(main')
  BY InSleepOfMain
<1>4. ~ClintAsleep(t)' /\ ~ClintWoken(t)' /\ ~ClintLeaving(t)'
  <2>1. /\ ClintAsleep(t)' => main' = <<[op |-> "asleep", ticks |-> t]>> \o Rest(clint_sleep_ticks(t), 8)
        /\ ClintWoken(t)' => main' = Rest(clint_sleep_ticks(t), 8)
        /\ ClintLeaving(t)' => main' = Rest(clint_sleep_ticks(t), 9)
    BY Zenon DEF ClintAsleep, ClintWoken, ClintLeaving
  <2>2. InSleepOf(Rest(clint_sleep_ticks(t), 8)) /\ InSleepOf(Rest(clint_sleep_ticks(t), 9))
    BY <1>2
  <2> QED BY <1>2, <1>3, <2>1, <2>2, Zenon
<1>5. ASSUME NEW k \in 5..7, ClintSleepAt(t, k) PROVE FALSE
  <2>1. k \in 0..7 /\ (k < 7 => k + 1 \in 5..9)
    OBVIOUS
  <2>2. \/ main' = main
        \/ k < 7 /\ ClintSleepAt(t, k + 1)'
        \/ ClintAsleep(t)'
    BY <1>5, <2>1, ClintSleepStep
  <2>3. ClintSleepAt(t, k + 1)' => main' = Rest(clint_sleep_ticks(t), k + 1)
    BY DEF ClintSleepAt
  <2> QED BY <1>2, <1>3, <1>4, <2>1, <2>2, <2>3
<1>6. ~ClintAsleep(t)
  BY <1>4, ClintSleeps
<1>7. ~ClintWoken(t)
  BY <1>4, ClintWakes
<1> QED BY <1>1, <1>3, <1>5, <1>6, <1>7, ClintLeaves

LEMMA ClintLasts ==
  ASSUME TypeInv, program = "clint", ClintInv, Next, At(main, "asleep"), main' # main
  PROVE  age >= Head(main).ticks
<1>1. PICK t \in Ticks : ClintAsleep(t) /\ Head(main).ticks = t
  BY ClintPlaces
<1> QED BY <1>1, ClintSleeps

-----------------------------------------------------------------------------
(* The sleep of the OBI timer.                                             *)

\* If the timer has set its flag since it was enabled, the cycles asked for have passed.
NotYet == age > compare_q \/ (~Expired /\ count_q <= age)

LEMMA Requests ==
  ASSUME NEW o \in Step
  PROVE  /\ o.op \notin {"write", "write_ctrl", "write_cmp"}
            => Request(o).reg = "NONE" /\ ~Arms(o)
         /\ o.op = "write" => Request(o) = o.req
         /\ o.op = "write_ctrl" =>
              /\ Request(o).reg = "CTRL"
              /\ Request(o).bits = IF o.on THEN ctrl \cup {o.bit} ELSE ctrl \ {o.bit}
BY DEF Request, Timer!NoWrite, Arms, WriteBits

\* What a cycle does to the OBI timer.
LEMMA TimerMoves ==
  ASSUME TypeInv, program # "clint", NEW o \in Step, TimerCycle(o)
  PROVE  LET r == Request(o)
         IN  /\ ctrl_q' = IF r.reg = "CTRL" THEN r.bits ELSE ctrl_q
             /\ r.reg # "COMPARE" => compare_q' = compare_q
             /\ r.reg = "COMPARE" => count_q' = 0
             /\ r.reg \notin {"COUNT", "COMPARE"} /\ "ENABLE" \notin ctrl_q => count_q' = count_q
             /\ "ENABLE" \notin ctrl_q /\ ~Expired => ~Expired'
             /\ r.reg \notin {"COUNT", "COMPARE"} /\ ~Arms(o) /\ (clean => NotYet)
                => (clean => NotYet)'
             /\ /\ r.reg \notin {"COUNT", "COMPARE"} /\ Arms(o)
                /\ "ENABLE" \notin ctrl_q /\ count_q = 0
                => (clean => NotYet)'
<1> DEFINE r == Request(o)
<1>1. Timer!Step(r)
  BY DEF TimerCycle
<1> HIDE DEF r
<1>2. /\ ctrl_q' = (IF r.reg = "CTRL" THEN r.bits ELSE ctrl_q)
      /\ r.reg # "COMPARE" => compare_q' = compare_q
      /\ r.reg = "COMPARE" => count_q' = 0
  BY <1>1 DEF Timer!Step, Timer!Count
<1>3. r.reg \notin {"COUNT", "COMPARE"} /\ "ENABLE" \notin ctrl_q => count_q' = count_q
  BY <1>1 DEF Timer!Step, Timer!Count, Timer!expired_event, Timer!Enabled
<1>4. /\ "ENABLE" \notin ctrl_q /\ ~Expired => ~Expired'
      /\ Expired' /\ ~Expired => compare_q <= count_q
  BY <1>1 DEF Timer!Step, Timer!Flags, Timer!expired_event, Timer!Enabled, Timer!overflow_event,
              Expired
<1>5. /\ count_q \in Nat /\ compare_q \in Nat /\ age \in Nat
      /\ Timer!Range \in Nat \ {0}
  BY Widths DEF TypeInv, TypeOK, Values
<1>6. ASSUME r.reg \notin {"COUNT", "COMPARE"} PROVE count_q' \in 0..count_q + 1
  <2>1. (count_q + 1) % Timer!Range \in 0..count_q + 1
    <3>1. \A n \in Nat : \A w \in Nat \ {0} : n % w \in 0..n
      OBVIOUS
    <3> QED BY <1>5, <3>1
  <2>2. count_q' \in {0, (count_q + 1) % Timer!Range, count_q}
    BY <1>1, <1>6 DEF Timer!Step, Timer!Count
  <2> QED BY <1>5, <2>1, <2>2
<1>7. ASSUME r.reg \notin {"COUNT", "COMPARE"}, ~Arms(o), clean => NotYet
      PROVE  clean' => NotYet'
  <2> SUFFICES ASSUME clean' PROVE NotYet'
    OBVIOUS
  <2>1. clean' = clean /\ age' = IF age < compare_q + 2 THEN age + 1 ELSE age
    BY <1>7 DEF TimerCycle
  <2>2. compare_q' = compare_q /\ count_q' \in 0..count_q + 1
    BY <1>2, <1>6, <1>7
  <2>3. NotYet
    BY <1>7, <2>1
  <2>4. CASE age > compare_q
    BY <1>5, <2>1, <2>2, <2>4 DEF NotYet
  <2>5. CASE ~Expired /\ count_q <= age /\ ~(age > compare_q)
    <3>1. age' = age + 1 /\ count_q' <= age'
      BY <1>5, <2>1, <2>2, <2>5
    <3>2. Expired' => age' > compare_q'
      BY <1>4, <1>5, <2>2, <2>5, <3>1
    <3> QED BY <3>1, <3>2 DEF NotYet
  <2> QED BY <2>3, <2>4, <2>5 DEF NotYet
<1>8. ASSUME r.reg \notin {"COUNT", "COMPARE"}, Arms(o), "ENABLE" \notin ctrl_q, count_q = 0
      PROVE  clean' => NotYet'
  <2>1. clean' = ~Expired /\ age' = 0
    BY <1>8 DEF TimerCycle
  <2>2. count_q' = 0 /\ (~Expired => ~Expired')
    BY <1>3, <1>4, <1>8
  <2>3. 0 <= 0
    OBVIOUS
  <2> QED BY <2>1, <2>2, <2>3 DEF NotYet
<1> QED BY <1>2, <1>3, <1>4, <1>7, <1>8, Zenon DEF r

\* The handler clears the flag and does nothing else to the timer.
LEMMA DriverKeeps ==
  ASSUME TypeInv, program = "driver", program' = program, Interrupt \/ Handle \/ Elapse
  PROVE  /\ main' = main /\ ctrl' = ctrl /\ before' = before /\ mie' = mie
         /\ ctrl_q' = ctrl_q /\ compare_q' = compare_q
         /\ "ENABLE" \notin ctrl_q => count_q' = count_q
         /\ (clean => NotYet) => (clean => NotYet)'
         /\ (gie \/ isr # <<>>) => (gie' \/ isr' # <<>>)
<1>1. ASSUME NEW o \in Step, TimerCycle(o), Request(o).reg \in {"NONE", "STATUS"}, ~Arms(o)
      PROVE  /\ ctrl_q' = ctrl_q /\ compare_q' = compare_q
             /\ "ENABLE" \notin ctrl_q => count_q' = count_q
             /\ (clean => NotYet) => (clean => NotYet)'
  <2>1. Request(o).reg \notin {"CTRL", "COUNT", "COMPARE"}
    BY <1>1
  <2> QED BY <1>1, <2>1, TimerMoves, Zenon
<1>2. /\ Request(Op("none")).reg = "NONE" /\ ~Arms(Op("none"))
      /\ Request(Op("interrupt")).reg = "NONE" /\ ~Arms(Op("interrupt"))
  BY Requests, Carried DEF Op
<1>3. CASE Interrupt
  <2>1. /\ TimerCycle(Op("interrupt")) /\ Op("interrupt") \in Step
        /\ main' = main /\ ctrl' = ctrl /\ before' = before /\ mie' = mie
        /\ isr' = croc_interrupt_handler
    BY <1>3, Carried DEF Interrupt, Cycle, locals, Handler
  <2>2. isr' # <<>>
    <3>1. Len(croc_interrupt_handler) = 2
      BY HandlerPrograms
    <3>2. croc_interrupt_handler # <<>>
      BY <3>1
    <3> QED BY <2>1, <3>2
  <2> QED BY <1>1, <1>2, <2>1, <2>2
<1>4. CASE Handle
  <2>1. /\ TimerCycle(Head(isr)) /\ Head(isr) \in Step /\ main' = main
        /\ Locals(Head(isr)) /\ Enables(Head(isr))
    BY <1>4, Carried DEF Handle, Do, Cycle
  <2>2. PICK k \in 0..Len(Handler)-1 : isr' = Rest(Handler, k + 1) /\ Head(isr) = Handler[k + 1]
    BY <1>4, Handling
  <2>3. /\ Len(Handler) = 2 /\ Handler \in Seq(Operation)
        /\ Handler[1] = WriteBits("STATUS", {"EXPIRED"}) /\ Handler[2] = Op("mret")
    BY HandlerPrograms DEF Handler
  <2>4. CASE k = 0
    <3>1. Head(isr) = WriteBits("STATUS", {"EXPIRED"})
      BY <2>2, <2>3, <2>4
    <3>2. isr' # <<>>
      <4>1. isr' = Rest(Handler, 1) /\ 1 \in 0..Len(Handler) /\ 1 < Len(Handler)
        BY <2>2, <2>3, <2>4
      <4> QED BY <2>3, <4>1, RestOf
    <3>3. Request(Head(isr)).reg = "STATUS" /\ ~Arms(Head(isr)) /\ Head(isr).op = "write"
      <4>1. /\ Head(isr).op = "write" /\ Head(isr).req.reg = "STATUS"
            /\ Head(isr).req.bits = {"EXPIRED"}
        BY <3>1 DEF WriteBits
      <4>2. Request(Head(isr)) = Head(isr).req
        BY <2>1, <4>1, Requests, Zenon
      <4> QED BY <4>1, <4>2 DEF Arms
    <3>4. ctrl' = ctrl /\ before' = before /\ mie' = mie
      BY <2>1, <3>3 DEF Locals, Enables
    <3> QED BY <1>1, <2>1, <3>2, <3>3, <3>4
  <2>5. CASE k = 1
    <3>1. Head(isr) = Op("mret")
      BY <2>2, <2>3, <2>5
    <3>2. Head(isr).op = "mret"
      BY <3>1 DEF Op
    <3>3. Request(Head(isr)).reg = "NONE" /\ ~Arms(Head(isr))
      BY <2>1, <3>2, Requests
    <3>4. ctrl' = ctrl /\ before' = before /\ mie' = mie /\ gie'
      BY <2>1, <3>2 DEF Locals, Enables
    <3> QED BY <1>1, <2>1, <3>3, <3>4
  <2> QED BY <2>3, <2>4, <2>5
<1>5. CASE Elapse
  <2>1. /\ TimerCycle(Op("none")) /\ Op("none") \in Step
        /\ main' = main /\ ctrl' = ctrl /\ before' = before /\ mie' = mie
        /\ isr' = isr /\ gie' = gie
    BY <1>5, Carried DEF Elapse, Cycle, locals
  <2> QED BY <1>1, <1>2, <2>1
<1> QED BY <1>3, <1>4, <1>5

\* The first k operations of a sleep have been done, and it is not asleep.
DriverSleepAt(c, k) ==
  /\ main = Rest(obi_timer_sleep(c), k)
  /\ k \in 3..8 => "ENABLE" \notin ctrl_q
  /\ k \in {5, 8} => "ENABLE" \notin ctrl
  /\ k \in 7..8 => count_q = 0
  /\ k >= 9 => (clean => NotYet)
  /\ k \in 10..12 => mie
  /\ k = 13 => mie = before.mie
  /\ k >= 11 => gie \/ isr # <<>>

DriverAsleep(c) ==
  /\ main = <<Op("asleep")>> \o Rest(obi_timer_sleep(c), 12)
  /\ clean => NotYet
  /\ mie /\ (gie \/ isr # <<>>)

\* The rest of a call that neither sleeps nor ends a sleep.
Quiet(s) ==
  /\ s \in Seq(Operation)
  /\ \A i \in 1..Len(s) : s[i].op \notin {"wfi", "asleep", "spin", "restore_gie", "write_cmp"}

DriverInv ==
  \/ \E c \in Cycles : DriverAsleep(c) \/ \E k \in 0..13 : DriverSleepAt(c, k)
  \/ Quiet(main)

\* Until the timer is enabled.
LEMMA DriverSets ==
  ASSUME TypeInv, program = "driver", program' = program, NEW c \in Cycles, NEW k \in 0..8,
         DriverSleepAt(c, k), Instruction
  PROVE  DriverSleepAt(c, k + 1)'
<1> DEFINE P == obi_timer_sleep(c)
           o == P[k + 1]
<1>1. /\ P \in Seq(Operation) /\ Len(P) = 14
      /\ P[1] = Op("save")
      /\ P[2] = Op("read_ctrl") /\ P[3] = SetBit("ENABLE", FALSE)
      /\ P[4] = Write("COUNT", 0)
      /\ P[5] = Op("read_ctrl") /\ P[6] = SetBit("AUTORESET", TRUE)
      /\ P[7] = Write("COMPARE", c)
      /\ P[8] = Op("read_ctrl") /\ P[9] = SetBit("ENABLE", TRUE)
  BY TimerSleepProgram, Zenon
<1> HIDE DEF P
<1>2. main = Rest(P, k) /\ k \in 0..Len(P)-1
  BY <1>1 DEF DriverSleepAt, P
<1>3. o \in Step
  <2>1. P \in Seq(Operation) /\ k + 1 \in 1..Len(P)
    BY <1>1, <1>2
  <2> QED BY <2>1 DEF Step
<1>4. o.op # "wfi"
  <2>1. k + 1 = 1 \/ k + 1 = 2 \/ k + 1 = 3 \/ k + 1 = 4 \/ k + 1 = 5 \/ k + 1 = 6 \/ k + 1 = 7
        \/ k + 1 = 8 \/ k + 1 = 9
    OBVIOUS
  <2>2. o \in {Op("save"), Op("read_ctrl"), SetBit("ENABLE", FALSE), Write("COUNT", 0),
               SetBit("AUTORESET", TRUE), Write("COMPARE", c), SetBit("ENABLE", TRUE)}
    BY <1>1, <2>1, Zenon
  <2> QED BY <2>2 DEF Op, SetBit, Write
<1>5. TimerCycle(o) /\ Locals(o) /\ Enables(o) /\ main' = Rest(P, k + 1)
  BY <1>1, <1>2, <1>4, InstructionAt DEF Do, Cycle
<1>6. ASSUME k \in 3..8 PROVE "ENABLE" \notin ctrl_q
  BY <1>6 DEF DriverSleepAt
<1>7. CASE k \in 0..1
  BY <1>5, <1>7 DEF DriverSleepAt, P
<1>8. CASE k = 2
  <2>1. o = SetBit("ENABLE", FALSE)
    <3>1. k + 1 = 3
      BY <1>8
    <3> QED BY <1>1, <3>1
  <2>2. o.op = "write_ctrl" /\ ~o.on /\ o.bit = "ENABLE"
    BY <2>1 DEF SetBit
  <2>3. Request(o).reg = "CTRL" /\ Request(o).bits = ctrl \ {"ENABLE"}
    BY <1>3, <2>2, Requests
  <2>4. ctrl_q' = ctrl \ {"ENABLE"}
    BY <1>3, <1>5, <2>3, TimerMoves
  <2> QED BY <1>5, <1>8, <2>4 DEF DriverSleepAt, P
<1>9. CASE k = 3
  <2>1. o = Write("COUNT", 0)
    <3>1. k + 1 = 4
      BY <1>9
    <3> QED BY <1>1, <3>1
  <2>2. o.op = "write" /\ o.req.reg = "COUNT"
    BY <2>1 DEF Write
  <2>3. Request(o).reg = "COUNT"
    BY <1>3, <2>2, Requests
  <2>4. ctrl_q' = ctrl_q
    BY <1>3, <1>5, <2>3, TimerMoves
  <2> QED BY <1>5, <1>6, <1>9, <2>4 DEF DriverSleepAt, P
<1>10. CASE k = 4 \/ k = 7
  <2>1. o = Op("read_ctrl")
    <3>1. k + 1 = 5 \/ k + 1 = 8
      BY <1>10
    <3> QED BY <1>1, <3>1
  <2>2. o.op = "read_ctrl"
    BY <2>1 DEF Op
  <2>3. Request(o).reg = "NONE"
    BY <1>3, <2>2, Requests
  <2>4. "ENABLE" \notin ctrl_q
    BY <1>6, <1>10
  <2>5. ctrl_q' = ctrl_q /\ count_q' = count_q
    BY <1>3, <1>5, <2>3, <2>4, TimerMoves
  <2>6. ctrl' = ctrl_q
    BY <1>5, <2>2 DEF Locals
  <2>7. k = 7 => count_q = 0
    BY DEF DriverSleepAt
  <2> QED BY <1>5, <1>10, <2>4, <2>5, <2>6, <2>7 DEF DriverSleepAt, P
<1>11. CASE k = 5
  <2>1. o = SetBit("AUTORESET", TRUE)
    <3>1. k + 1 = 6
      BY <1>11
    <3> QED BY <1>1, <3>1
  <2>2. o.op = "write_ctrl" /\ o.on /\ o.bit = "AUTORESET"
    BY <2>1 DEF SetBit
  <2>3. Request(o).reg = "CTRL" /\ Request(o).bits = ctrl \cup {"AUTORESET"}
    BY <1>3, <2>2, Requests
  <2>4. ctrl_q' = ctrl \cup {"AUTORESET"}
    BY <1>3, <1>5, <2>3, TimerMoves
  <2>5. "ENABLE" \notin ctrl
    BY <1>11 DEF DriverSleepAt
  <2> QED BY <1>5, <1>11, <2>4, <2>5 DEF DriverSleepAt, P
<1>12. CASE k = 6
  <2>1. o = Write("COMPARE", c)
    <3>1. k + 1 = 7
      BY <1>12
    <3> QED BY <1>1, <3>1
  <2>2. o.op = "write" /\ o.req.reg = "COMPARE"
    BY <2>1 DEF Write
  <2>3. Request(o).reg = "COMPARE"
    BY <1>3, <2>2, Requests
  <2>4. ctrl_q' = ctrl_q /\ count_q' = 0
    BY <1>3, <1>5, <2>3, TimerMoves
  <2> QED BY <1>5, <1>6, <1>12, <2>4 DEF DriverSleepAt, P
<1>13. CASE k = 8
  <2>1. o = SetBit("ENABLE", TRUE)
    <3>1. k + 1 = 9
      BY <1>13
    <3> QED BY <1>1, <3>1
  <2>2. o.op = "write_ctrl" /\ o.on /\ o.bit = "ENABLE"
    BY <2>1 DEF SetBit
  <2>3. Request(o).reg = "CTRL" /\ Arms(o)
    BY <1>3, <2>2, Requests DEF Arms
  <2>4. "ENABLE" \notin ctrl_q /\ count_q = 0
    BY <1>13 DEF DriverSleepAt
  <2>5. (clean => NotYet)'
    BY <1>3, <1>5, <2>3, <2>4, TimerMoves
  <2> QED BY <1>5, <1>13, <2>5 DEF DriverSleepAt, P
<1>14. k \in 0..1 \/ k = 2 \/ k = 3 \/ (k = 4 \/ k = 7) \/ k = 5 \/ k = 6 \/ k = 8
  OBVIOUS
<1> QED BY <1>7, <1>8, <1>9, <1>10, <1>11, <1>12, <1>13, <1>14

\* From then on: the interrupts are enabled, ...
LEMMA DriverEnables ==
  ASSUME TypeInv, program = "driver", program' = program, NEW c \in Cycles,
         NEW k \in {9, 10, 12}, DriverSleepAt(c, k), Instruction
  PROVE  DriverSleepAt(c, k + 1)'
<1> DEFINE P == obi_timer_sleep(c)
           o == P[k + 1]
<1>1. /\ P \in Seq(Operation) /\ Len(P) = 14
      /\ P[10] = Set("mie", TRUE) /\ P[11] = Set("gie", TRUE)
      /\ P[13] = Op("restore_mie") /\ P[14] = Op("restore_gie")
  BY TimerSleepProgram, Zenon
<1> HIDE DEF P
<1>2. main = Rest(P, k) /\ k \in 0..Len(P)-1
  BY <1>1 DEF DriverSleepAt, P
<1>3. /\ k = 9 => o = Set("mie", TRUE)
      /\ k = 10 => o = Set("gie", TRUE)
      /\ k = 12 => o = Op("restore_mie")
  <2>1. (k = 9 => k + 1 = 10) /\ (k = 10 => k + 1 = 11) /\ (k = 12 => k + 1 = 13)
    OBVIOUS
  <2> QED BY <1>1, <2>1
<1>4. /\ o \in Step /\ o.op \in {"mie", "gie", "restore_mie"}
      /\ k = 9 => o.op = "mie" /\ o.on
      /\ k = 10 => o.op = "gie" /\ o.on
      /\ k = 12 => o.op = "restore_mie"
  <2>1. o \in Step
    <3>1. P \in Seq(Operation) /\ k + 1 \in 1..Len(P)
      BY <1>1, <1>2
    <3> QED BY <3>1 DEF Step
  <2> QED BY <1>3, <2>1 DEF Set, Op
<1>5. TimerCycle(o) /\ Locals(o) /\ Enables(o) /\ main' = Rest(P, k + 1)
  BY <1>1, <1>2, <1>4, InstructionAt DEF Do, Cycle
<1>6. (clean => NotYet)'
  <2>1. Request(o).reg = "NONE" /\ ~Arms(o)
    BY <1>4, Requests
  <2>2. clean => NotYet
    BY DEF DriverSleepAt
  <2> QED BY <1>4, <1>5, <2>1, <2>2, TimerMoves
<1>7. k = 9 => mie'
  BY <1>4, <1>5 DEF Enables
<1>8. k = 10 => mie' /\ gie'
  BY <1>4, <1>5 DEF Enables, DriverSleepAt
<1>9. k = 12 => mie' = before'.mie /\ (gie' \/ isr' # <<>>)
  <2> SUFFICES ASSUME k = 12 PROVE mie' = before'.mie /\ (gie' \/ isr' # <<>>)
    OBVIOUS
  <2>1. o.op = "restore_mie" /\ mie /\ (gie \/ isr # <<>>)
    BY <1>4 DEF DriverSleepAt
  <2>2. mie' = (mie /\ before.mie) /\ gie' = gie /\ before' = before
    BY <1>5, <2>1 DEF Enables, Locals
  <2>3. isr' = isr
    BY DEF Instruction
  <2>4. before.mie \in BOOLEAN
    BY DEF TypeInv
  <2>5. mie' = before.mie
    BY <2>1, <2>2, <2>4
  <2> QED BY <2>1, <2>2, <2>3, <2>5
<1>10. CASE k = 9
  BY <1>5, <1>6, <1>7, <1>10 DEF DriverSleepAt, P
<1>11. CASE k = 10
  BY <1>5, <1>6, <1>8, <1>11 DEF DriverSleepAt, P
<1>12. CASE k = 12
  BY <1>5, <1>6, <1>9, <1>12 DEF DriverSleepAt, P
<1> QED BY <1>10, <1>11, <1>12

\* ... the processor falls asleep, ...
LEMMA DriverFallsAsleep ==
  ASSUME TypeInv, program = "driver", program' = program, NEW c \in Cycles,
         DriverSleepAt(c, 11), Instruction
  PROVE  DriverAsleep(c)'
<1> DEFINE P == obi_timer_sleep(c)
           o == Op("wfi")
<1>1. P \in Seq(Operation) /\ Len(P) = 14 /\ P[12] = o
  BY TimerSleepProgram, Zenon
<1> HIDE DEF P
<1>2. main = Rest(P, 11) /\ 11 \in 0..Len(P)-1 /\ P[11 + 1] = o
  BY <1>1 DEF DriverSleepAt, P
<1>3. o \in Step /\ o.op = "wfi" /\ [o EXCEPT !.op = "asleep"] = Op("asleep")
  BY OperationTypes DEF Step, Op, Plain
<1>4. /\ Do(o) /\ isr = <<>> /\ isr' = isr /\ ~Taken
      /\ main' = <<[o EXCEPT !.op = "asleep"]>> \o Rest(P, 11 + 1)
  BY <1>1, <1>2, <1>3, FallsAsleepAt, Zenon
<1>5. TimerCycle(o) /\ Locals(o) /\ Enables(o) /\ main' = <<Op("asleep")>> \o Rest(P, 12)
  BY <1>3, <1>4 DEF Do, Cycle
<1>6. (clean => NotYet)'
  <2>1. Request(o).reg = "NONE" /\ ~Arms(o)
    BY <1>3, Requests
  <2>2. clean => NotYet
    BY DEF DriverSleepAt
  <2> QED BY <1>3, <1>5, <2>1, <2>2, TimerMoves
<1>7. mie' = mie /\ gie' = gie
  BY <1>3, <1>5 DEF Enables
<1> QED BY <1>4, <1>5, <1>6, <1>7 DEF DriverAsleep, DriverSleepAt, P

\* ... and wakes up no sooner than the timer has expired.
LEMMA DriverSleeps ==
  ASSUME TypeInv, program = "driver", Next, NEW c \in Cycles, DriverAsleep(c)
  PROVE  \/ DriverAsleep(c)' /\ main' = main
         \/ DriverSleepAt(c, 12)' /\ (clean => age > compare_q)
<1> DEFINE P == obi_timer_sleep(c)
           o == Op("asleep")
           R == Rest(P, 12)
<1>0. program' = program
  BY DEF Next
<1>1. P \in Seq(Operation) /\ Len(P) = 14
  BY TimerSleepProgram, Zenon
<1>2. R \in Seq(Operation)
  <2>1. 12 \in 0..Len(P) /\ P \in Seq(Operation)
    BY <1>1
  <2> HIDE DEF P
  <2> QED BY <2>1, RestOf
<1>3. o \in Step /\ o \in Operation /\ o.op = "asleep"
  BY OperationTypes DEF Step, Op, Plain
<1>4. main = <<o>> \o R /\ mie /\ (gie \/ isr # <<>>) /\ (clean => NotYet)
  BY DEF DriverAsleep
<1> HIDE DEF P, R
<1>5. main # <<>> /\ Head(main) = o /\ Tail(main) = R
  BY <1>2, <1>3, <1>4, AsleepHead
<1>6. At(main, "asleep") /\ ~At(main, "wfi")
  BY <1>3, <1>5 DEF At
<1> HIDE DEF o
<1>7. CASE Interrupt \/ Handle \/ Elapse
  <2>1. /\ main' = main /\ mie' = mie
        /\ (clean => NotYet) => (clean => NotYet)'
        /\ (gie \/ isr # <<>>) => (gie' \/ isr' # <<>>)
    BY <1>0, <1>7, DriverKeeps
  <2>2. main' = <<Op("asleep")>> \o Rest(obi_timer_sleep(c), 12)
    BY <2>1 DEF DriverAsleep
  <2> QED BY <1>4, <2>1, <2>2 DEF DriverAsleep
<1>8. CASE Instruction
  <2>1. isr' = isr /\ Do(o) /\ Pending /\ main' = <<>> \o R
    BY <1>5, <1>6, <1>8 DEF Instruction, Waiting
  <2>2. main' = R
    BY <1>2, <2>1, ConcatEmptySeq
  <2>3. TimerCycle(o) /\ Enables(o)
    BY <2>1 DEF Do, Cycle
  <2>4. mie' = mie /\ gie' = gie
    BY <1>3, <2>3 DEF Enables
  <2>5. (clean => NotYet)'
    <3>1. Request(o).reg = "NONE" /\ ~Arms(o)
      BY <1>3, Requests
    <3> QED BY <1>3, <1>4, <2>3, <3>1, TimerMoves
  <2>6. clean => age > compare_q
    BY <1>4, <2>1 DEF Pending, NotYet
  <2> QED BY <1>4, <2>1, <2>2, <2>4, <2>5, <2>6 DEF DriverSleepAt, P, R
<1>9. ~Call
  BY <1>5 DEF Call
<1> QED BY <1>7, <1>8, <1>9 DEF Next

\* At the end the interrupts are as they were.
LEMMA DriverLeaves ==
  ASSUME TypeInv, program = "driver", program' = program, NEW c \in Cycles,
         DriverSleepAt(c, 13), Instruction
  PROVE  main' = <<>> /\ mie' = before.mie /\ gie' = before.gie
<1> DEFINE P == obi_timer_sleep(c)
           o == Op("restore_gie")
<1>1. P \in Seq(Operation) /\ Len(P) = 14 /\ P[14] = o
  BY TimerSleepProgram, Zenon
<1> HIDE DEF P
<1>2. main = Rest(P, 13) /\ 13 \in 0..Len(P)-1 /\ P[13 + 1] = o
  BY <1>1 DEF DriverSleepAt, P
<1>3. o.op = "restore_gie"
  BY DEF Op
<1>4. Do(o) /\ isr = <<>> /\ isr' = isr /\ ~Taken /\ main' = Rest(P, 13 + 1)
  BY <1>1, <1>2, <1>3, PassesAt, Zenon
<1>5. main' = <<>>
  <2>1. Rest(P, Len(P)) = <<>>
    BY <1>1, RestEnd
  <2>2. 13 + 1 = 14
    OBVIOUS
  <2> QED BY <1>1, <1>4, <2>1, <2>2
<1>6. mie = before.mie /\ gie /\ before.gie \in BOOLEAN
  BY <1>4 DEF DriverSleepAt, TypeInv
<1>7. mie' = mie /\ gie' = (gie /\ before.gie)
  BY <1>3, <1>4 DEF Do, Enables
<1>8. gie' = before.gie
  BY <1>6, <1>7
<1> QED BY <1>5, <1>6, <1>7, <1>8

LEMMA DriverSleepStep ==
  ASSUME TypeInv, program = "driver", Next, NEW c \in Cycles, NEW k \in 0..13,
         DriverSleepAt(c, k)
  PROVE  \/ DriverSleepAt(c, k)' /\ main' = main
         \/ k \notin {11, 13} /\ DriverSleepAt(c, k + 1)'
         \/ k = 11 /\ DriverAsleep(c)'
         \/ k = 13 /\ main' = <<>> /\ mie' = before.mie /\ gie' = before.gie
<1>0. program' = program
  BY DEF Next
<1>1. CASE Interrupt \/ Handle \/ Elapse
  <2>1. /\ main' = main /\ ctrl' = ctrl /\ before' = before /\ mie' = mie
        /\ ctrl_q' = ctrl_q
        /\ "ENABLE" \notin ctrl_q => count_q' = count_q
        /\ (clean => NotYet) => (clean => NotYet)'
        /\ (gie \/ isr # <<>>) => (gie' \/ isr' # <<>>)
    BY <1>0, <1>1, DriverKeeps
  <2> QED BY <2>1 DEF DriverSleepAt
<1>2. CASE Instruction
  <2>1. CASE k \in 0..8
    BY <1>0, <1>2, <2>1, DriverSets
  <2>2. CASE k \in {9, 10, 12}
    BY <1>0, <1>2, <2>2, DriverEnables
  <2>3. CASE k = 11
    BY <1>0, <1>2, <2>3, DriverFallsAsleep
  <2>4. CASE k = 13
    BY <1>0, <1>2, <2>4, DriverLeaves
  <2> QED BY <2>1, <2>2, <2>3, <2>4
<1>3. ~Call
  <2> DEFINE P == obi_timer_sleep(c)
  <2>1. P \in Seq(Operation) /\ Len(P) = 14
    BY TimerSleepProgram, Zenon
  <2> HIDE DEF P
  <2>2. main = Rest(P, k) /\ k \in 0..Len(P)-1
    BY <2>1 DEF DriverSleepAt, P
  <2>3. main # <<>>
    BY <2>1, <2>2, Ahead
  <2> QED BY <2>3 DEF Call
<1> QED BY <1>1, <1>2, <1>3 DEF Next

\* The other calls of the driver.
LEMMA QuietCalls ==
  /\ \A c \in Cycles : Quiet(obi_timer_set(c))
  /\ \A bit \in CtrlBits : Quiet(write_ctrl_reg_bit(bit, FALSE))
  /\ Quiet(obi_timer_clear_expired)
  /\ \A on \in BOOLEAN : Quiet(<<Set("mie", on)>>) /\ Quiet(<<Set("gie", on)>>)
<1> DEFINE Loud == {"wfi", "asleep", "spin", "restore_gie", "write_cmp"}
<1>1. \A c \in Cycles : Quiet(obi_timer_set(c))
  <2> TAKE c \in Cycles
  <2> DEFINE P == obi_timer_set(c)
  <2>1. /\ P \in Seq(Operation) /\ Len(P) = 8
        /\ P[1] = Op("read_ctrl") /\ P[2] = SetBit("ENABLE", FALSE)
        /\ P[3] = Write("COUNT", 0)
        /\ P[4] = Op("read_ctrl") /\ P[5] = SetBit("AUTORESET", TRUE)
        /\ P[6] = Write("COMPARE", c)
        /\ P[7] = Op("read_ctrl") /\ P[8] = SetBit("ENABLE", TRUE)
    BY TimerSetProgram, Zenon
  <2> HIDE DEF P
  <2>2. /\ P[1].op \notin Loud /\ P[2].op \notin Loud /\ P[3].op \notin Loud
        /\ P[4].op \notin Loud /\ P[5].op \notin Loud /\ P[6].op \notin Loud
        /\ P[7].op \notin Loud /\ P[8].op \notin Loud
    BY <2>1 DEF Op, SetBit, Write
  <2>3. \A i \in 1..8 : i = 1 \/ i = 2 \/ i = 3 \/ i = 4 \/ i = 5 \/ i = 6 \/ i = 7 \/ i = 8
    OBVIOUS
  <2> QED BY <2>1, <2>2, <2>3 DEF Quiet, P
<1>2. \A bit \in CtrlBits : Quiet(write_ctrl_reg_bit(bit, FALSE))
  <2> TAKE bit \in CtrlBits
  <2> DEFINE P == write_ctrl_reg_bit(bit, FALSE)
  <2>1. /\ P \in Seq(Operation) /\ Len(P) = 2
        /\ P[1] = Op("read_ctrl") /\ P[2] = SetBit(bit, FALSE)
    BY CtrlProgram
  <2> HIDE DEF P
  <2>2. P[1].op \notin Loud /\ P[2].op \notin Loud
    BY <2>1 DEF Op, SetBit
  <2>3. \A i \in 1..2 : i = 1 \/ i = 2
    OBVIOUS
  <2> QED BY <2>1, <2>2, <2>3 DEF Quiet, P
<1>3. ASSUME NEW o \in Operation, o.op \notin Loud PROVE Quiet(<<o>>)
  <2>1. <<o>> \in Seq(Operation) /\ Len(<<o>>) = 1 /\ <<o>>[1] = o
    OBVIOUS
  <2> QED BY <1>3, <2>1 DEF Quiet
<1>4. Quiet(obi_timer_clear_expired)
  <2>1. WriteBits("STATUS", {"EXPIRED"}) \in Operation
    BY OperationTypes
  <2>2. WriteBits("STATUS", {"EXPIRED"}).op \notin Loud
    BY DEF WriteBits
  <2> QED BY <1>3, <2>1, <2>2, Zenon DEF obi_timer_clear_expired
<1>5. \A on \in BOOLEAN : Quiet(<<Set("mie", on)>>) /\ Quiet(<<Set("gie", on)>>)
  <2>1. \A on \in BOOLEAN : Set("mie", on) \in Operation /\ Set("gie", on) \in Operation
    BY OperationTypes
  <2>2. \A on \in BOOLEAN : Set("mie", on).op \notin Loud /\ Set("gie", on).op \notin Loud
    BY DEF Set
  <2> QED BY <1>3, <2>1, <2>2, Zenon
<1> QED BY <1>1, <1>2, <1>4, <1>5

LEMMA QuietHead ==
  ASSUME Quiet(main)
  PROVE  /\ ~At(main, "wfi") /\ ~At(main, "asleep") /\ ~At(main, "spin") /\ ~At(main, "write_cmp")
         /\ ~InSleep
         /\ main # <<>> => Quiet(Tail(main)) /\ ~Waiting
<1>1. main \in Seq(Operation)
  BY DEF Quiet
<1>2. ASSUME main # <<>>
      PROVE  /\ Head(main).op \notin {"wfi", "asleep", "spin", "restore_gie", "write_cmp"}
             /\ main[Len(main)].op # "restore_gie"
  <2>1. 1 \in 1..Len(main) /\ Len(main) \in 1..Len(main) /\ Head(main) = main[1]
    BY <1>1, <1>2
  <2> QED BY <2>1 DEF Quiet
<1>3. ASSUME main # <<>> PROVE Quiet(Tail(main))
  <2>1. /\ Tail(main) \in Seq(Operation) /\ Len(Tail(main)) = Len(main) - 1
        /\ \A i \in 1..Len(main) - 1 : Tail(main)[i] = main[i + 1]
    BY <1>1, <1>3, HeadTailProperties
  <2>2. \A i \in 1..Len(main) - 1 : i + 1 \in 1..Len(main)
    BY <1>1
  <2> QED BY <2>1, <2>2 DEF Quiet
<1> QED BY <1>2, <1>3 DEF At, InSleep, Waiting

LEMMA QuietStep ==
  ASSUME TypeInv, program = "driver", Next, Quiet(main)
  PROVE  Quiet(main') \/ \E c \in Cycles : DriverSleepAt(c, 0)'
<1>0. program' = program
  BY DEF Next
<1>1. CASE Interrupt \/ Handle \/ Elapse
  <2>1. main' = main
    BY <1>0, <1>1, DriverKeeps
  <2> QED BY <2>1
<1>2. CASE Instruction
  <2>1. main # <<>> /\ Quiet(Tail(main)) /\ ~At(main, "wfi")
    BY <1>2, QuietHead DEF Instruction, Waiting
  <2>2. main' = <<>> \o Tail(main)
    BY <1>2, <2>1 DEF Instruction
  <2>3. main' = Tail(main)
    BY <2>1, <2>2, ConcatEmptySeq DEF Quiet
  <2> QED BY <2>1, <2>3
<1>3. CASE Call
  <2>1. main' \in DriverCalls
    BY <1>3 DEF Call
  <2>2. ASSUME NEW c \in Cycles, main' = obi_timer_sleep(c) PROVE DriverSleepAt(c, 0)'
    <3> DEFINE P == obi_timer_sleep(c)
    <3>1. P \in Seq(Operation) /\ Len(P) = 14
      BY TimerSleepProgram, Zenon
    <3>2. main' = P
      BY <2>2
    <3> HIDE DEF P
    <3>3. main' = Rest(P, 0)
      <4>1. P \in Seq(Operation) /\ 0 \in 0..Len(P)
        BY <3>1
      <4> QED BY <3>2, <4>1, RestOf
    <3> QED BY <3>3 DEF DriverSleepAt, P
  <2>3. CASE \E c \in Cycles : main' = obi_timer_sleep(c)
    BY <2>2, <2>3
  <2>4. CASE ~\E c \in Cycles : main' = obi_timer_sleep(c)
    <3>1. \/ \E c \in Cycles : main' = obi_timer_set(c)
          \/ \E bit \in CtrlBits : main' = write_ctrl_reg_bit(bit, FALSE)
          \/ main' = obi_timer_clear_expired
          \/ \E on \in BOOLEAN : main' = <<Set("mie", on)>> \/ main' = <<Set("gie", on)>>
      BY <2>1, <2>4 DEF DriverCalls, CtrlBits
    <3> QED BY <3>1, QuietCalls, Zenon
  <2> QED BY <2>3, <2>4
<1> QED BY <1>1, <1>2, <1>3 DEF Next

LEMMA DriverStep ==
  ASSUME TypeInv, program = "driver", DriverInv, Next
  PROVE  DriverInv'
<1>1. ASSUME NEW c \in Cycles, NEW k \in 0..13, DriverSleepAt(c, k) PROVE DriverInv'
  <2>1. \/ DriverSleepAt(c, k)'
        \/ k # 13 /\ DriverSleepAt(c, k + 1)'
        \/ DriverAsleep(c)'
        \/ main' = <<>>
    BY <1>1, DriverSleepStep
  <2>2. k # 13 => k + 1 \in 0..13
    OBVIOUS
  <2>3. main' = <<>> => Quiet(main)'
    BY DEF Quiet
  <2> QED BY <2>1, <2>2, <2>3 DEF DriverInv
<1>2. ASSUME NEW c \in Cycles, DriverAsleep(c) PROVE DriverInv'
  <2>1. DriverAsleep(c)' \/ DriverSleepAt(c, 12)'
    BY <1>2, DriverSleeps
  <2> QED BY <2>1 DEF DriverInv
<1>3. CASE Quiet(main)
  <2>1. Quiet(main') \/ \E c \in Cycles : DriverSleepAt(c, 0)'
    BY <1>3, QuietStep
  <2>2. 0 \in 0..13
    OBVIOUS
  <2> QED BY <2>1, <2>2 DEF DriverInv
<1> QED BY <1>1, <1>2, <1>3 DEF DriverInv

LEMMA DriverSleepPart ==
  ASSUME NEW c \in Cycles
  PROVE  /\ \A k \in 0..13 : /\ InSleepOf(Rest(obi_timer_sleep(c), k)) <=> k >= 1
                             /\ Head(Rest(obi_timer_sleep(c), k)).op
                                  \notin {"asleep", "spin", "write_cmp"}
         /\ InSleepOf(<<Op("asleep")>> \o Rest(obi_timer_sleep(c), 12))
         /\ Head(<<Op("asleep")>> \o Rest(obi_timer_sleep(c), 12)).op = "asleep"
<1> DEFINE P == obi_timer_sleep(c)
<1>1. /\ P \in Seq(Operation) /\ Len(P) = 14
      /\ P[1] = Op("save")
      /\ P[2] = Op("read_ctrl") /\ P[3] = SetBit("ENABLE", FALSE)
      /\ P[4] = Write("COUNT", 0)
      /\ P[5] = Op("read_ctrl") /\ P[6] = SetBit("AUTORESET", TRUE)
      /\ P[7] = Write("COMPARE", c)
      /\ P[8] = Op("read_ctrl") /\ P[9] = SetBit("ENABLE", TRUE)
      /\ P[10] = Set("mie", TRUE) /\ P[11] = Set("gie", TRUE) /\ P[12] = Op("wfi")
      /\ P[13] = Op("restore_mie") /\ P[14] = Op("restore_gie")
  BY TimerSleepProgram, Zenon
<1> HIDE DEF P
<1>2. P \in Seq(Operation) /\ Len(P) = 14
  BY <1>1
<1>3. /\ P[1].op = "save" /\ P[2].op = "read_ctrl" /\ P[3].op = "write_ctrl"
      /\ P[4].op = "write" /\ P[5].op = "read_ctrl" /\ P[6].op = "write_ctrl"
      /\ P[7].op = "write" /\ P[8].op = "read_ctrl" /\ P[9].op = "write_ctrl"
      /\ P[10].op = "mie" /\ P[11].op = "gie" /\ P[12].op = "wfi"
      /\ P[13].op = "restore_mie" /\ P[14].op = "restore_gie"
  BY <1>1 DEF Op, SetBit, Write, Set
<1>4. \A i \in 1..14 : \/ i = 1 \/ i = 2 \/ i = 3 \/ i = 4 \/ i = 5 \/ i = 6 \/ i = 7 \/ i = 8
                       \/ i = 9 \/ i = 10 \/ i = 11 \/ i = 12 \/ i = 13 \/ i = 14
  OBVIOUS
<1>5. \A i \in 1..14 : /\ P[i].op \notin {"asleep", "spin", "write_cmp"}
                       /\ P[i].op = "save" <=> i = 1
  BY <1>3, <1>4
<1>6. ASSUME NEW k \in 0..13
      PROVE  /\ InSleepOf(Rest(P, k)) <=> k >= 1
             /\ Head(Rest(P, k)).op \notin {"asleep", "spin", "write_cmp"}
  <2>1. InSleepOf(Rest(P, k)) <=> k >= 1
    <3>1. /\ P \in Seq(Operation) /\ 1 \in 1..Len(P) /\ P[Len(P)].op = "restore_gie"
          /\ k \in 0..Len(P)-1
          /\ \A i \in 1..Len(P) : P[i].op = "save" <=> i = 1
      BY <1>2, <1>3, <1>5
    <3> QED BY <3>1, SleepPart
  <2>2. Head(Rest(P, k)) = P[k + 1]
    <3>1. P \in Seq(Operation) /\ k \in 0..Len(P) /\ k < Len(P)
      BY <1>2
    <3> QED BY <3>1, RestOf
  <2>3. k + 1 \in 1..14
    OBVIOUS
  <2> QED BY <1>5, <2>1, <2>2, <2>3
<1>7. Rest(P, 12) \in Seq(Operation)
  <2>1. P \in Seq(Operation) /\ 12 \in 0..Len(P)
    BY <1>2
  <2> QED BY <2>1, RestOf
<1>8. Op("asleep") \in Operation /\ Op("asleep").op = "asleep"
  BY OperationTypes DEF Plain, Op
<1>9. InSleepOf(<<Op("asleep")>> \o Rest(P, 12))
  <2>1. InSleepOf(Rest(P, 12))
    BY <1>6
  <2>2. Op("asleep").op # "save"
    BY <1>8
  <2> QED BY <1>7, <1>8, <2>1, <2>2, SleepPartAsleep
<1>10. Head(<<Op("asleep")>> \o Rest(P, 12)) = Op("asleep")
  BY <1>7, <1>8, AsleepHead
<1> QED BY <1>6, <1>8, <1>9, <1>10 DEF P

\* Where the main program of the driver may be asleep, and where in a sleep.
LEMMA DriverPlaces ==
  ASSUME TypeInv, program = "driver", DriverInv
  PROVE  /\ ~At(main, "spin") /\ ~At(main, "write_cmp")
         /\ At(main, "asleep") => \E c \in Cycles : DriverAsleep(c)
         /\ InSleep => \E c \in Cycles : \/ \E k \in 1..13 : DriverSleepAt(c, k)
                                         \/ DriverAsleep(c)
<1>1. ASSUME NEW c \in Cycles, NEW k \in 0..13, DriverSleepAt(c, k)
      PROVE  /\ Head(main).op \notin {"asleep", "spin", "write_cmp"}
             /\ InSleepOf(main) <=> k >= 1
  <2>1. main = Rest(obi_timer_sleep(c), k)
    BY <1>1 DEF DriverSleepAt
  <2> QED BY <2>1, DriverSleepPart
<1>2. ASSUME NEW c \in Cycles, DriverAsleep(c)
      PROVE  Head(main).op = "asleep"
  <2>1. main = <<Op("asleep")>> \o Rest(obi_timer_sleep(c), 12)
    BY <1>2 DEF DriverAsleep
  <2> QED BY <2>1, DriverSleepPart
<1>3. \A k \in 0..13 : k >= 1 => k \in 1..13
  OBVIOUS
<1>4. CASE Quiet(main)
  BY <1>4, QuietHead
<1>5. ASSUME NEW c \in Cycles, DriverAsleep(c) \/ \E k \in 0..13 : DriverSleepAt(c, k)
      PROVE  /\ Head(main).op \notin {"spin", "write_cmp"}
             /\ Head(main).op = "asleep" => DriverAsleep(c)
             /\ InSleepOf(main) => \/ \E k \in 1..13 : DriverSleepAt(c, k)
                                   \/ DriverAsleep(c)
  BY <1>1, <1>2, <1>3, <1>5
<1> QED BY <1>4, <1>5, InSleepOfMain DEF At, DriverInv

LEMMA DriverEnds ==
  ASSUME TypeInv, program = "driver", DriverInv, Next, InSleep, ~InSleep'
  PROVE  mie' = before.mie /\ gie' = before.gie
<1>1. PICK c \in Cycles : \/ \E k \in 1..13 : DriverSleepAt(c, k)
                          \/ DriverAsleep(c)
  BY DriverPlaces
<1>2. /\ \A k \in 1..13 : InSleepOf(Rest(obi_timer_sleep(c), k))
      /\ InSleepOf(<<Op("asleep")>> \o Rest(obi_timer_sleep(c), 12))
  BY DriverSleepPart
<1>3. main' # main /\ ~InSleepOf(main')
  BY InSleepOfMain
<1>4. ~DriverAsleep(c)' /\ \A k \in 1..13 : ~DriverSleepAt(c, k)'
  <2>1. /\ DriverAsleep(c)' => main' = <<Op("asleep")>> \o Rest(obi_timer_sleep(c), 12)
        /\ \A k \in 1..13 : DriverSleepAt(c, k)' => main' = Rest(obi_timer_sleep(c), k)
    BY Zenon DEF DriverAsleep, DriverSleepAt
  <2> QED BY <1>2, <1>3, <2>1, Zenon
<1>5. ~DriverAsleep(c)
  <2>1. 12 \in 1..13
    OBVIOUS
  <2> QED BY <1>3, <1>4, <2>1, DriverSleeps
<1>6. PICK k \in 1..13 : DriverSleepAt(c, k)
  BY <1>1, <1>5
<1>7. k \in 0..13 /\ (k # 13 => k + 1 \in 1..13)
  OBVIOUS
<1> QED BY <1>3, <1>4, <1>6, <1>7, DriverSleepStep

LEMMA DriverLasts ==
  ASSUME TypeInv, program = "driver", DriverInv, Next,
         At(main, "asleep") \/ At(main, "spin"), main' # main, clean
  PROVE  age > compare_q
<1>1. PICK c \in Cycles : DriverAsleep(c)
  BY DriverPlaces
<1> QED BY <1>1, DriverSleeps

\* The driver does not read the time.
LEMMA DriverNoTime ==
  ASSUME TypeInv, program = "driver", DriverInv, Next
  PROVE  ~At(main', "write_cmp")
<1>1. TypeInv' /\ program' = program /\ DriverInv'
  BY TypeStep, DriverStep DEF Next
<1>2. ASSUME NEW c \in Cycles, NEW k \in 0..13, DriverSleepAt(c, k)'
      PROVE  Head(main').op # "write_cmp"
  <2>1. main' = Rest(obi_timer_sleep(c), k)
    BY <1>2 DEF DriverSleepAt
  <2> QED BY <2>1, DriverSleepPart
<1>3. ASSUME NEW c \in Cycles, DriverAsleep(c)' PROVE Head(main').op # "write_cmp"
  <2>1. main' = <<Op("asleep")>> \o Rest(obi_timer_sleep(c), 12)
    BY <1>3 DEF DriverAsleep
  <2> QED BY <2>1, DriverSleepPart
<1>4. ASSUME Quiet(main') PROVE ~At(main', "write_cmp")
  <2>1. main' # <<>> => 1 \in 1..Len(main') /\ Head(main') = main'[1]
    BY <1>4 DEF Quiet
  <2> QED BY <1>4, <2>1 DEF At, Quiet
<1> QED BY <1>1, <1>2, <1>3, <1>4 DEF DriverInv, At

-----------------------------------------------------------------------------
(* The program that waits in a loop.                                       *)

\* The first k operations have been done.
MawAt(c, k) ==
  /\ main = Rest(MawMain(c), k)
  /\ k < 6 => ctrl_q = {} /\ ~Expired /\ isr = <<>>
  /\ k \in 3..5 => wait_for_timer
  /\ k = 5 => count_q = 0
  /\ k >= 6 => (clean => NotYet)
  /\ k >= 6 => (clean /\ (isr # <<>> \/ ~wait_for_timer) => age > compare_q)

MawInv == \E c \in Cycles, k \in 0..8 : MawAt(c, k)

\* Once the cycles asked for have passed, they have, until the timer is set again.
LEMMA TimerLate ==
  ASSUME TypeInv, program # "clint", NEW o \in Step, TimerCycle(o), ~Arms(o),
         Request(o).reg # "COMPARE"
  PROVE  clean' = clean /\ (age > compare_q => age' > compare_q')
<1>1. clean' = clean /\ age' = IF age < compare_q + 2 THEN age + 1 ELSE age
  BY DEF TimerCycle
<1>2. compare_q' = compare_q
  BY TimerMoves
<1>3. age \in Nat /\ compare_q \in Nat
  BY Widths DEF TypeInv, TypeOK, Values
<1> QED BY <1>1, <1>2, <1>3

\* Until the timer is enabled.
LEMMA MawSets ==
  ASSUME TypeInv, program = "maw", program' = program, NEW c \in Cycles, NEW k \in 0..5,
         MawAt(c, k), Instruction
  PROVE  MawAt(c, k + 1)'
<1> DEFINE P == MawMain(c)
           o == P[k + 1]
<1>1. /\ P \in Seq(Operation) /\ Len(P) = 8
      /\ P[1] = Set("mie", TRUE) /\ P[2] = Set("gie", TRUE) /\ P[3] = Set("wait", TRUE)
      /\ P[4] = Write("COUNT", 1) /\ P[5] = Write("COMPARE", c)
      /\ P[6] = WriteBits("CTRL", CtrlBits)
  BY MawProgram, Zenon
<1> HIDE DEF P
<1>2. main = Rest(P, k) /\ k \in 0..Len(P)-1
  BY <1>1 DEF MawAt, P
<1>3. /\ k = 0 => o = Set("mie", TRUE)
      /\ k = 1 => o = Set("gie", TRUE)
      /\ k = 2 => o = Set("wait", TRUE)
      /\ k = 3 => o = Write("COUNT", 1)
      /\ k = 4 => o = Write("COMPARE", c)
      /\ k = 5 => o = WriteBits("CTRL", CtrlBits)
  <2>1. /\ k = 0 => k + 1 = 1
        /\ k = 1 => k + 1 = 2
        /\ k = 2 => k + 1 = 3
        /\ k = 3 => k + 1 = 4
        /\ k = 4 => k + 1 = 5
        /\ k = 5 => k + 1 = 6
    OBVIOUS
  <2> QED BY <1>1, <2>1
<1>4. /\ k \in 0..1 => o.op \in {"mie", "gie"}
      /\ k = 2 => o.op = "wait" /\ o.on
      /\ k = 3 => o.op = "write" /\ o.req.reg = "COUNT" /\ o.req.bits = {}
      /\ k = 4 => o.op = "write" /\ o.req.reg = "COMPARE" /\ o.req.bits = {}
      /\ k = 5 => o.op = "write" /\ o.req.reg = "CTRL" /\ o.req.bits = CtrlBits
  BY <1>3 DEF Set, Write, WriteBits
<1>5. o \in Step /\ o.op # "wfi"
  <2>1. o \in Step
    <3>1. P \in Seq(Operation) /\ k + 1 \in 1..Len(P)
      BY <1>1, <1>2
    <3> QED BY <3>1 DEF Step
  <2>2. k \in 0..1 \/ k = 2 \/ k = 3 \/ k = 4 \/ k = 5
    OBVIOUS
  <2> QED BY <1>4, <2>1, <2>2
<1>6. TimerCycle(o) /\ Locals(o) /\ main' = Rest(P, k + 1) /\ isr' = <<>>
  BY <1>1, <1>2, <1>5, InstructionAt DEF Do, Cycle
<1>7. ctrl_q = {} /\ ~Expired
  BY DEF MawAt
<1>8. ~Expired'
  BY <1>5, <1>6, <1>7, TimerMoves
<1>9. k < 5 => ctrl_q' = {}
  <2>1. k < 5 => Request(o).reg # "CTRL"
    <3>1. k < 5 => k \in 0..1 \/ k = 2 \/ k = 3 \/ k = 4
      OBVIOUS
    <3>2. o.op \in {"mie", "gie", "wait"} => Request(o).reg = "NONE"
      BY <1>5, Requests
    <3>3. o.op = "write" => Request(o) = o.req
      BY <1>5, Requests
    <3> QED BY <1>4, <3>1, <3>2, <3>3
  <2> QED BY <1>5, <1>6, <1>7, <2>1, TimerMoves
<1>10. wait_for_timer' = IF o.op = "wait" THEN o.on ELSE wait_for_timer
  BY <1>6 DEF Locals
<1>11. k \in 2..5 => wait_for_timer'
  <2>1. k \in 3..5 => wait_for_timer /\ o.op # "wait"
    <3>1. k \in 3..5 => k = 3 \/ k = 4 \/ k = 5
      OBVIOUS
    <3> QED BY <1>4, <3>1 DEF MawAt
  <2>2. k \in 2..5 => k = 2 \/ k \in 3..5
    OBVIOUS
  <2> QED BY <1>4, <1>10, <2>1, <2>2
<1>12. k = 4 => count_q' = 0
  <2>1. k = 4 => Request(o).reg = "COMPARE"
    BY <1>4, <1>5, Requests
  <2> QED BY <1>5, <1>6, <2>1, TimerMoves
<1>13. k = 5 => (clean' => NotYet')
  <2> SUFFICES ASSUME k = 5 PROVE clean' => NotYet'
    OBVIOUS
  <2>1. Arms(o) /\ Request(o).reg = "CTRL"
    BY <1>4, <1>5, Requests DEF Arms, CtrlBits
  <2>2. count_q = 0
    BY DEF MawAt
  <2> QED BY <1>5, <1>6, <1>7, <2>1, <2>2, TimerMoves
<1>14. CASE k < 5
  <2>1. k + 1 < 6 /\ (k + 1 \in 3..5 => k \in 2..5) /\ (k + 1 = 5 => k = 4) /\ ~(k + 1 >= 6)
    BY <1>14
  <2> QED BY <1>6, <1>8, <1>9, <1>11, <1>12, <1>14, <2>1 DEF MawAt, P
<1>15. CASE k = 5
  <2>1. k + 1 = 6 /\ k \in 2..5
    BY <1>15
  <2> QED BY <1>6, <1>11, <1>13, <1>15, <2>1 DEF MawAt, P
<1> QED BY <1>14, <1>15

\* The handler stops the timer and sets the variable.
LEMMA MawHandling ==
  ASSUME TypeInv, program = "maw", program' = program, Handle
  PROVE  /\ TimerCycle(Head(isr)) /\ Head(isr) \in Step /\ ~Arms(Head(isr))
         /\ Request(Head(isr)).reg \in {"STATUS", "CTRL", "NONE"}
<1>1. TimerCycle(Head(isr)) /\ Head(isr) \in Step
  BY Carried DEF Handle, Do, Cycle
<1>2. PICK k \in 0..Len(Handler)-1 : Head(isr) = Handler[k + 1]
  BY Handling
<1>3. /\ Len(Handler) = 4
      /\ Handler[1] = WriteBits("STATUS", {"EXPIRED"}) /\ Handler[2] = WriteBits("CTRL", {})
      /\ Handler[3] = Set("wait", FALSE) /\ Handler[4] = Op("mret")
  BY HandlerPrograms DEF Handler
<1>4. Head(isr) \in {WriteBits("STATUS", {"EXPIRED"}), WriteBits("CTRL", {}), Set("wait", FALSE),
                     Op("mret")}
  <2>1. k + 1 = 1 \/ k + 1 = 2 \/ k + 1 = 3 \/ k + 1 = 4
    BY <1>3
  <2> QED BY <1>2, <1>3, <2>1, Zenon
<1>5. \/ Head(isr).op \in {"wait", "mret"}
      \/ /\ Head(isr).op = "write" /\ Head(isr).req.reg \in {"STATUS", "CTRL"}
         /\ "ENABLE" \notin Head(isr).req.bits
  BY <1>4 DEF WriteBits, Set, Op
<1>6. CASE Head(isr).op \in {"wait", "mret"}
  BY <1>1, <1>6, Requests
<1>7. CASE /\ Head(isr).op = "write" /\ Head(isr).req.reg \in {"STATUS", "CTRL"}
           /\ "ENABLE" \notin Head(isr).req.bits
  <2>1. Request(Head(isr)) = Head(isr).req
    BY <1>1, <1>7, Requests
  <2> QED BY <1>1, <1>7, <2>1 DEF Arms
<1> QED BY <1>1, <1>5, <1>6, <1>7

\* The interrupt comes only when the timer has expired.
LEMMA MawKeeps ==
  ASSUME TypeInv, program = "maw", program' = program, NEW c \in Cycles, NEW k \in 0..8,
         MawAt(c, k), Interrupt \/ Handle \/ Elapse
  PROVE  MawAt(c, k)' /\ main' = main
<1>1. main' = Rest(MawMain(c), k) /\ main' = main
  BY DEF MawAt, Interrupt, Handle, Elapse
<1>2. CASE k < 6
  <2>1. ctrl_q = {} /\ ~Expired /\ isr = <<>>
    BY <1>2 DEF MawAt
  <2>2. Elapse
    BY <2>1 DEF Interrupt, Handle, Taken, Pending
  <2>3. /\ TimerCycle(Op("none")) /\ Op("none") \in Step
        /\ wait_for_timer' = wait_for_timer /\ isr' = <<>>
    BY <2>1, <2>2, Carried DEF Elapse, Cycle, locals
  <2>4. Request(Op("none")).reg = "NONE"
    BY <2>3, Requests DEF Op
  <2>5. ctrl_q' = {} /\ ~Expired' /\ count_q' = count_q
    BY <2>1, <2>3, <2>4, TimerMoves
  <2>6. (k \in 3..5 => wait_for_timer) /\ (k = 5 => count_q = 0)
    BY DEF MawAt
  <2> QED BY <1>1, <1>2, <2>3, <2>5, <2>6 DEF MawAt
<1>3. CASE k >= 6
  <2>1. /\ clean => NotYet
        /\ clean /\ (isr # <<>> \/ ~wait_for_timer) => age > compare_q
    BY <1>3 DEF MawAt
  <2>2. ASSUME NEW o \in Step, TimerCycle(o), ~Arms(o),
               Request(o).reg \in {"STATUS", "CTRL", "NONE"},
               clean /\ (isr' # <<>> \/ ~wait_for_timer') => age > compare_q
        PROVE  MawAt(c, k)'
    <3>1. Request(o).reg \notin {"COUNT", "COMPARE"}
      BY <2>2
    <3>2. clean' => NotYet'
      BY <2>1, <2>2, <3>1, TimerMoves
    <3>3. clean' = clean /\ (age > compare_q => age' > compare_q')
      BY <2>2, <3>1, TimerLate
    <3>4. ~(k < 6) /\ k \notin 3..5 /\ k # 5
      BY <1>3
    <3> QED BY <1>1, <2>2, <3>2, <3>3, <3>4, Zenon DEF MawAt
  <2>3. CASE Interrupt
    <3>1. TimerCycle(Op("interrupt")) /\ Op("interrupt") \in Step /\ Expired
      BY <2>3, Carried DEF Interrupt, Cycle, Taken, Pending
    <3>2. Request(Op("interrupt")).reg = "NONE" /\ ~Arms(Op("interrupt"))
      BY <3>1, Requests DEF Op
    <3>3. clean => age > compare_q
      BY <2>1, <3>1 DEF NotYet
    <3> QED BY <1>1, <2>2, <3>1, <3>2, <3>3
  <2>4. CASE Handle
    <3>1. clean => age > compare_q
      BY <2>1, <2>4 DEF Handle
    <3> QED BY <1>1, <2>2, <2>4, <3>1, MawHandling
  <2>5. CASE Elapse
    <3>1. /\ TimerCycle(Op("none")) /\ Op("none") \in Step
          /\ wait_for_timer' = wait_for_timer /\ isr' = isr
      BY <2>5, Carried DEF Elapse, Cycle, locals
    <3>2. Request(Op("none")).reg = "NONE" /\ ~Arms(Op("none"))
      BY <3>1, Requests DEF Op
    <3> QED BY <1>1, <2>1, <2>2, <3>1, <3>2
  <2> QED BY <2>3, <2>4, <2>5
<1> QED BY <1>2, <1>3

\* The loop ends when the handler has set the variable.
LEMMA MawWaits ==
  ASSUME TypeInv, program = "maw", program' = program, NEW c \in Cycles, NEW k \in 6..7,
         MawAt(c, k), Instruction
  PROVE  MawAt(c, k + 1)' /\ (k = 6 /\ clean => age > compare_q)
<1> DEFINE P == MawMain(c)
           o == P[k + 1]
<1>1. P \in Seq(Operation) /\ Len(P) = 8 /\ P[7] = Op("spin") /\ P[8] = Set("wait", TRUE)
  BY MawProgram, Zenon
<1> HIDE DEF P
<1>2. main = Rest(P, k) /\ k \in 0..Len(P)-1
  BY <1>1 DEF MawAt, P
<1>3. /\ k = 6 => o = Op("spin")
      /\ k = 7 => o = Set("wait", TRUE)
  <2>1. (k = 6 => k + 1 = 7) /\ (k = 7 => k + 1 = 8)
    OBVIOUS
  <2> QED BY <1>1, <2>1
<1>4. /\ o \in Step /\ o.op \in {"spin", "wait"}
      /\ k = 6 => o.op = "spin"
      /\ k = 7 => o.op = "wait" /\ o.on
  <2>1. o \in Step
    <3>1. P \in Seq(Operation) /\ k + 1 \in 1..Len(P)
      BY <1>1, <1>2
    <3> QED BY <3>1 DEF Step
  <2>2. k = 6 \/ k = 7
    OBVIOUS
  <2> QED BY <1>3, <2>1, <2>2 DEF Set, Op
<1>5. /\ TimerCycle(o) /\ Locals(o) /\ main' = Rest(P, k + 1)
      /\ isr' = <<>> /\ ~Waiting
  BY <1>1, <1>2, <1>4, InstructionAt DEF Do, Cycle
<1>6. /\ clean => NotYet
      /\ clean /\ ~wait_for_timer => age > compare_q
  <2>1. k >= 6
    OBVIOUS
  <2> QED BY <2>1 DEF MawAt
<1>7. k = 6 => ~wait_for_timer
  <2>1. k = 6 => At(main, "spin")
    <3>1. main # <<>> /\ Head(main) = o
      BY <1>1, <1>2, Ahead
    <3> QED BY <1>4, <3>1 DEF At
  <2> QED BY <1>5, <2>1 DEF Waiting
<1>8. Request(o).reg = "NONE" /\ ~Arms(o)
  BY <1>4, Requests
<1>9. clean' => NotYet'
  BY <1>4, <1>5, <1>6, <1>8, TimerMoves
<1>10. clean' /\ ~wait_for_timer' => age' > compare_q'
  <2>1. clean' = clean /\ (age > compare_q => age' > compare_q')
    BY <1>4, <1>5, <1>8, TimerLate
  <2>2. wait_for_timer' = IF o.op = "wait" THEN o.on ELSE wait_for_timer
    BY <1>5 DEF Locals
  <2>3. k = 6 \/ k = 7
    OBVIOUS
  <2> QED BY <1>4, <1>6, <1>7, <2>1, <2>2, <2>3
<1>11. MawAt(c, k + 1)'
  <2>1. ~(k + 1 < 6) /\ k + 1 \notin 3..5 /\ k + 1 # 5
    OBVIOUS
  <2> QED BY <1>5, <1>9, <1>10, <2>1, Zenon DEF MawAt, P
<1> QED BY <1>6, <1>7, <1>11

\* Where the program may be at the loop; it never sleeps.
LEMMA MawPlaces ==
  ASSUME NEW c \in Cycles, NEW k \in 0..8
  PROVE  LET s == Rest(MawMain(c), k)
         IN  /\ ~InSleepOf(s) /\ (s = <<>> <=> k = 8)
             /\ k # 8 => Head(s).op \notin {"asleep", "write_cmp"}
             /\ k # 8 /\ Head(s).op = "spin" => k = 6
<1> DEFINE P == MawMain(c)
           s == Rest(P, k)
<1>1. /\ P \in Seq(Operation) /\ Len(P) = 8
      /\ P[1] = Set("mie", TRUE) /\ P[2] = Set("gie", TRUE) /\ P[3] = Set("wait", TRUE)
      /\ P[4] = Write("COUNT", 1) /\ P[5] = Write("COMPARE", c)
      /\ P[6] = WriteBits("CTRL", CtrlBits) /\ P[7] = Op("spin")
      /\ P[8] = Set("wait", TRUE)
  BY MawProgram, Zenon
<1> HIDE DEF P
<1>2. /\ P[1].op = "mie" /\ P[2].op = "gie" /\ P[3].op = "wait" /\ P[4].op = "write"
      /\ P[5].op = "write" /\ P[6].op = "write" /\ P[7].op = "spin" /\ P[8].op = "wait"
  BY <1>1 DEF Set, Write, WriteBits, Op
<1>3. P \in Seq(Operation) /\ k \in 0..Len(P) /\ Len(P) = 8
  BY <1>1
<1>4. CASE k = 8
  <2>1. s = <<>>
    BY <1>3, <1>4, RestEnd
  <2> QED BY <1>4, <2>1 DEF InSleepOf, P
<1>5. CASE k # 8
  <2>1. k < Len(P)
    BY <1>3, <1>5
  <2>2. /\ s # <<>> /\ Head(s) = P[k + 1] /\ Len(s) = 8 - k
        /\ \A i \in 1..8 - k : s[i] = P[k + i]
    BY <1>3, <2>1, RestOf
  <2> HIDE DEF s
  <2>3. s[Len(s)] = P[8]
    <3>1. 8 - k \in 1..8 - k /\ k + (8 - k) = 8
      BY <1>3, <2>1
    <3> QED BY <2>2, <3>1
  <2>4. P[k + 1].op \notin {"asleep", "write_cmp"} /\ (P[k + 1].op = "spin" => k = 6)
    <3>1. \/ k = 0 /\ k + 1 = 1
          \/ k = 1 /\ k + 1 = 2
          \/ k = 2 /\ k + 1 = 3
          \/ k = 3 /\ k + 1 = 4
          \/ k = 4 /\ k + 1 = 5
          \/ k = 5 /\ k + 1 = 6
          \/ k = 6 /\ k + 1 = 7
          \/ k = 7 /\ k + 1 = 8
      BY <1>5
    <3> QED BY <1>2, <3>1
  <2>5. ~InSleepOf(s)
    BY <1>2, <2>3 DEF InSleepOf
  <2> QED BY <1>5, <2>2, <2>4, <2>5 DEF s, P
<1> QED BY <1>4, <1>5

LEMMA MawStep ==
  ASSUME TypeInv, program = "maw", MawInv, Next
  PROVE  /\ MawInv'
         /\ At(main, "asleep") \/ At(main, "spin") => (main' # main /\ clean => age > compare_q)
         /\ ~InSleep /\ ~At(main', "write_cmp")
<1>0. program' = program
  BY DEF Next
<1>1. PICK c \in Cycles, k \in 0..8 : MawAt(c, k)
  BY DEF MawInv
<1>2. main = Rest(MawMain(c), k)
  BY <1>1 DEF MawAt
<1>3. /\ main = <<>> <=> k = 8
      /\ ~InSleep /\ ~At(main, "asleep") /\ (At(main, "spin") => k = 6)
  BY <1>2, MawPlaces, InSleepOfMain DEF At
<1>4. ASSUME NEW j \in 0..8, MawAt(c, j)' PROVE MawInv' /\ ~At(main', "write_cmp")
  <2>1. main' = Rest(MawMain(c), j)
    BY <1>4 DEF MawAt
  <2> QED BY <1>4, <2>1, MawPlaces DEF MawInv, At
<1>5. CASE Interrupt \/ Handle \/ Elapse
  BY <1>0, <1>1, <1>3, <1>4, <1>5, MawKeeps
<1>6. CASE Instruction
  <2>1. k # 8
    BY <1>3, <1>6 DEF Instruction, Waiting
  <2>2. k \in 0..5 \/ k \in 6..7
    BY <2>1
  <2>3. k + 1 \in 0..8
    BY <2>1
  <2>4. CASE k \in 0..5
    BY <1>0, <1>1, <1>3, <1>4, <1>6, <2>3, <2>4, MawSets
  <2>5. CASE k \in 6..7
    BY <1>0, <1>1, <1>3, <1>4, <1>6, <2>3, <2>5, MawWaits
  <2> QED BY <2>2, <2>4, <2>5
<1>7. ~Call
  BY DEF Call
<1> QED BY <1>5, <1>6, <1>7 DEF Next

-----------------------------------------------------------------------------
(* The theorems.                                                           *)

Inv ==
  /\ TypeInv
  /\ program = "clint" => ClintInv
  /\ program = "driver" => DriverInv
  /\ program = "maw" => MawInv

LEMMA Start == Init => Inv
<1> SUFFICES ASSUME Init PROVE Inv
  OBVIOUS
<1>1. TypeInv
  BY TypeInit
<1>2. program = "clint" => ClintInv
  BY DEF Init, ClintInv
<1>3. program = "driver" => DriverInv
  BY DEF Init, DriverInv, Quiet
<1>4. program = "maw" => MawInv
  <2> SUFFICES ASSUME program = "maw" PROVE MawInv
    OBVIOUS
  <2>1. PICK c \in Cycles : main = MawMain(c)
    BY DEF Init
  <2>2. main = Rest(MawMain(c), 0)
    <3>1. MawMain(c) \in Seq(Operation) /\ Len(MawMain(c)) = 8
      BY MawProgram, Zenon
    <3>2. 0 \in 0..Len(MawMain(c))
      BY <3>1
    <3> QED BY <2>1, <3>1, <3>2, RestOf
  <2>3. ctrl_q = {} /\ ~Expired /\ isr = <<>>
    BY DEF Init, Timer!Init, Expired
  <2>4. MawAt(c, 0)
    BY <2>2, <2>3 DEF MawAt
  <2> QED BY <2>4 DEF MawInv
<1> QED BY <1>1, <1>2, <1>3, <1>4 DEF Inv

LEMMA Programs == ASSUME Inv, Next PROVE Inv'
<1>1. TypeInv' /\ program' = program /\ program \in {"driver", "maw", "clint"}
  BY TypeStep DEF Inv, Next, TypeInv
<1>2. CASE program = "clint"
  BY <1>1, <1>2, ClintStep DEF Inv
<1>3. CASE program = "driver"
  BY <1>1, <1>3, DriverStep DEF Inv
<1>4. CASE program = "maw"
  BY <1>1, <1>4, MawStep DEF Inv
<1> QED BY <1>1, <1>2, <1>3, <1>4

\* A cycle in which nothing moves.
LEMMA Standing == ASSUME Inv, UNCHANGED vars PROVE Inv'
<1>1. UNCHANGED <<timervars, clintvars, program, main, isr, mie, gie, locals, ticked, age, clean>>
  BY DEF vars
<1>2. TypeInv' /\ program' = program
  BY <1>1, TypeStep DEF Inv
<1>3. ClintInv => ClintInv'
  <2>1. /\ mtime_q' = mtime_q /\ mtimecmp_q' = mtimecmp_q /\ main' = main /\ isr' = isr
        /\ mie' = mie /\ gie' = gie /\ time' = time /\ ticked' = ticked /\ age' = age
        /\ program' = program /\ status_q' = status_q
    BY <1>1 DEF timervars, clintvars, locals
  <2>2. Taken => Taken'
    BY <2>1 DEF Taken, Pending, Expired, CLINT!timer_irq_o
  <2>3. \A t \in Ticks, k \in 0..7 : ClintSleepAt(t, k) => ClintSleepAt(t, k)'
    BY <2>1 DEF ClintSleepAt, Since, Outlasted, Room, ReadHigh
  <2>4. \A t \in Ticks : ClintAsleep(t) => ClintAsleep(t)'
    BY <2>1 DEF ClintAsleep, Outlasted
  <2>5. \A t \in Ticks : ClintWoken(t) => ClintWoken(t)'
    BY <2>1, <2>2 DEF ClintWoken
  <2>6. \A t \in Ticks : ClintLeaving(t) => ClintLeaving(t)'
    BY <2>1 DEF ClintLeaving
  <2> QED BY <2>1, <2>3, <2>4, <2>5, <2>6, Zenon DEF ClintInv
<1>4. DriverInv => DriverInv'
  BY <1>1 DEF DriverInv, DriverSleepAt, DriverAsleep, NotYet, Expired, timervars, locals
<1>5. MawInv => MawInv'
  BY <1>1 DEF MawInv, MawAt, NotYet, Expired, timervars, locals
<1> QED BY <1>2, <1>3, <1>4, <1>5 DEF Inv

LEMMA Running == Spec => []Inv
<1>1. Inv /\ [Next]_vars => Inv'
  BY Programs, Standing
<1> QED BY <1>1, Start, PTL DEF Spec

\* clint_get_mtime never runs ahead of the time, and is late by the span of a word or not
\* at all.
THEOREM TimeRead == Spec => TimeReadIsPast
<1> DEFINE A == time' # time /\ At(main', "write_cmp") /\ ~At(main, "write_cmp")
                => time' = mtime_q \/ time' = mtime_q - CLINT!Word
<1>1. Inv /\ [Next]_vars => [A]_vars
  <2> SUFFICES ASSUME Inv, Next PROVE A
    OBVIOUS
  <2>1. program \in {"driver", "maw", "clint"}
    BY DEF Inv, TypeInv
  <2>2. CASE program = "clint"
    BY <2>2, ClintTimeRead DEF Inv
  <2>3. CASE program = "driver"
    BY <2>3, DriverNoTime DEF Inv
  <2>4. CASE program = "maw"
    BY <2>4, MawStep DEF Inv
  <2> QED BY <2>1, <2>2, <2>3, <2>4
<1> QED BY <1>1, Running, PTL DEF Spec, TimeReadIsPast

\* clint_sleep_ticks returns no sooner than the ticks asked for, whatever was enabled and
\* pending before, and wherever the ticks fall.
THEOREM SleepLasts == Spec => SleepLastsTicks
<1> DEFINE A == program = "clint" /\ At(main, "asleep") /\ main' # main
                => age >= Head(main).ticks
<1>1. Inv /\ [Next]_vars => [A]_vars
  BY ClintLasts DEF Inv
<1> QED BY <1>1, Running, PTL DEF Spec, SleepLastsTicks

\* A wait for the OBI timer takes more than the cycles asked for, in obi_timer_sleep and in
\* the loop of maw_obi_timer_interrupt.c, unless a flag was left from before.
THEOREM WaitsLong == Spec => WaitsLongEnough
<1> DEFINE A == /\ program # "clint"
                /\ At(main, "asleep") \/ At(main, "spin")
                /\ main' # main /\ clean
                => age > compare_q
<1>1. Inv /\ [Next]_vars => [A]_vars
  <2> SUFFICES ASSUME Inv, Next PROVE A
    BY DEF vars
  <2>1. program \in {"driver", "maw", "clint"}
    BY DEF Inv, TypeInv
  <2>2. CASE program = "driver"
    BY <2>2, DriverLasts DEF Inv
  <2>3. CASE program = "maw"
    BY <2>3, MawStep DEF Inv
  <2> QED BY <2>1, <2>2, <2>3
<1> QED BY <1>1, Running, PTL DEF Spec, WaitsLongEnough

\* A sleep of either driver ends with the interrupt enables as they were when it was called,
\* except that the default handler leaves the CLINT's interrupt disabled.
THEOREM Restores == Spec => EnablesRestored
<1> DEFINE A == InSleep /\ ~InSleep' => /\ mie' = (before.mie /\ program = "driver")
                                        /\ gie' = before.gie
<1>1. Inv /\ [Next]_vars => [A]_vars
  <2> SUFFICES ASSUME Inv, Next PROVE A
    OBVIOUS
  <2>1. program \in {"driver", "maw", "clint"} /\ before.mie \in BOOLEAN /\ mie' \in BOOLEAN
    BY TypeStep DEF Inv, TypeInv, TypeOK
  <2>2. CASE program = "clint"
    BY <2>1, <2>2, ClintEnds DEF Inv
  <2>3. CASE program = "driver"
    BY <2>1, <2>3, DriverEnds DEF Inv
  <2>4. CASE program = "maw"
    BY <2>4, MawStep DEF Inv
  <2> QED BY <2>1, <2>2, <2>3, <2>4
<1> QED BY <1>1, Running, PTL DEF Spec, EnablesRestored

=============================================================================
