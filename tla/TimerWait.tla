------------------------------ MODULE TimerWait ------------------------------
(***************************************************************************)
(* The two timers and the programs that wait for them: a main program that *)
(* calls the driver obi_timer.c in any order, with the interrupt handler   *)
(* of test_interrupts.c; the program maw_obi_timer_interrupt.c with its    *)
(* own handler; and a main program that calls the driver clint.c in any    *)
(* order, with the default handler of crt0.S.  One step is one clock       *)
(* cycle, in which the processor may finish an instruction: a bus access,  *)
(* a write of a CSR, wfi, mret, or the entry into the handler.             *)
(* Instructions that touch neither a timer nor the interrupt enables are   *)
(* part of the time the others take.                                       *)
(*                                                                         *)
(* A program is the sequence of operations it still has to do.  No program *)
(* uses both timers, so each is left out of the other's programs.          *)
(***************************************************************************)
EXTENDS Integers, Sequences

CONSTANTS
  CounterBits,
  Cycles,        \* cycles the programs ask for
  MaxStall,      \* bound: longest instruction, in cycles, less one
  MinPeriod,     \* cycles from which on a handler run fits into a period
  WordBits,      \* of a word of the CLINT's time
  Ticks,         \* ticks of the slow clock that clint_sleep_ticks is asked for
  Times          \* times that clint_set_mtimecmp is called with

ASSUME WaitAssumption ==
  /\ CounterBits \in Nat \ {0}
  /\ Cycles \subseteq 1..2^CounterBits-2
  /\ MaxStall \in Nat /\ MinPeriod \in Nat
  /\ WordBits \in Nat \ {0}
  /\ Ticks \subseteq 0..2^WordBits-1 /\ Times \subseteq 0..2^WordBits*2^WordBits-1

VARIABLES
  count_q, compare_q, ctrl_q, status_q,      \* the OBI timer
  mtime_q, mtimecmp_q,                       \* the CLINT
  program,     \* which of the three: "driver", "maw" or "clint"
  main, isr,   \* what the main program and the running handler still have to do
  mie, gie,    \* CSRs: IRQ_OBI_TIMER or IRQ_TIMER in mie, MIE in mstatus
  ctrl,        \* local of write_ctrl_reg_bit
  before,      \* locals of a sleep: mie and gie before the call
  wait_for_timer,
  time,        \* local of clint_sleep_ticks: what of the time it has read
  stall,       \* cycles the current instruction has taken
  ticked,      \* bound: a call outlasts no more than one tick, except where it waits
  age,         \* history: cycles since obi_timer_set enabled the timer, up to a cap;
               \* ticks since clint_sleep_ticks read the time
  clean,       \* history: no flag was left from before when it did; no interrupt was
               \* taken since clint_sleep_ticks began
  old          \* history: mtimecmp before clint_set_mtimecmp

timervars == <<count_q, compare_q, ctrl_q, status_q>>
clintvars == <<mtime_q, mtimecmp_q>>
locals == <<ctrl, before, wait_for_timer, time>>
vars == <<timervars, clintvars, program, main, isr, mie, gie, locals, stall, ticked, age, clean,
          old>>

Timer == INSTANCE ObiTimer
CLINT == INSTANCE Clint

-----------------------------------------------------------------------------
(* The programs.                                                           *)

Op(name)           == [op |-> name]
Write(reg, v)      == [op |-> "write", req |-> [reg |-> reg, value |-> v, bits |-> {}]]
WriteBits(reg, bs) == [op |-> "write", req |-> [reg |-> reg, value |-> 0, bits |-> bs]]
SetBit(bit, on)    == [op |-> "write_ctrl", bit |-> bit, on |-> on]
Set(name, on)      == [op |-> name, on |-> on]

write_ctrl_reg_bit(bit, on) == <<Op("read_ctrl"), SetBit(bit, on)>>
obi_timer_clear_expired     == <<WriteBits("STATUS", {"EXPIRED"})>>

obi_timer_set(cycles) ==
  write_ctrl_reg_bit("ENABLE", FALSE) \o <<Write("COUNT", 0)>>
  \o write_ctrl_reg_bit("AUTORESET", TRUE) \o <<Write("COMPARE", cycles)>>
  \o write_ctrl_reg_bit("ENABLE", TRUE)

obi_timer_sleep(cycles) ==
  <<Op("save")>> \o obi_timer_set(cycles)
  \o <<Set("mie", TRUE), Set("gie", TRUE), Op("wfi"), Op("restore_mie"), Op("restore_gie")>>

\* Mutant: the low word first.
get_mtime_low_first == <<Op("read_low"), Op("read_high")>>

clint_get_mtime == <<Op("read_high"), Op("read_low")>>

\* The words written are those of an offset from the time that has been read, if any.
WriteCmp(reg, offset) == [op |-> "write_cmp", reg |-> reg, offset |-> offset]
clint_set_mtimecmp(offset) ==
  <<WriteCmp("MTIMECMP_HIGH0", offset), WriteCmp("MTIMECMP_LOW0", offset)>>

Wfi(ticks) == [op |-> "wfi", ticks |-> ticks]

\* Mutant: the timer's interrupt is not enabled.
sleep_ticks_disabled(ticks) ==
  clint_get_mtime \o clint_set_mtimecmp(ticks)
  \o <<Op("save"), Set("gie", TRUE), Wfi(ticks), Op("restore_mie"), Op("restore_gie")>>

clint_sleep_ticks(ticks) ==
  clint_get_mtime \o clint_set_mtimecmp(ticks)
  \o <<Op("save"), Set("mie", TRUE), Set("gie", TRUE), Wfi(ticks), Op("restore_mie"),
       Op("restore_gie")>>

\* Time does not run out: a call may see two more ticks before it reads the time.
ClintCalls ==
  {clint_sleep_ticks(t) : t \in {u \in Ticks : mtime_q + 2 + u <= CLINT!MaxTime}}
  \cup {clint_set_mtimecmp(t) : t \in Times}
  \cup {<<Set("mie", on)>> : on \in BOOLEAN} \cup {<<Set("gie", on)>> : on \in BOOLEAN}

\* Calls of the driver and of the inline functions of util.h.
DriverCalls ==
  {obi_timer_sleep(c) : c \in Cycles} \cup {obi_timer_set(c) : c \in Cycles}
  \cup {write_ctrl_reg_bit("ENABLE", FALSE), write_ctrl_reg_bit("AUTORESET", FALSE),
        obi_timer_clear_expired}
  \cup {<<Set("mie", on)>> : on \in BOOLEAN} \cup {<<Set("gie", on)>> : on \in BOOLEAN}

\* Mutant: the handler stops the timer.
croc_handler_stopping ==
  obi_timer_clear_expired \o <<WriteBits("CTRL", {}), Op("mret")>>

croc_interrupt_handler == obi_timer_clear_expired \o <<Op("mret")>>

\* Mutant: the variable is set only when the timer already runs.
MawMainLate(cycles) ==
  <<Set("mie", TRUE), Set("gie", TRUE), Write("COUNT", 1), Write("COMPARE", cycles),
    WriteBits("CTRL", {"ENABLE", "AUTORESET"}), Set("wait", TRUE), Op("spin"),
    Set("wait", TRUE)>>

MawMain(cycles) ==
  <<Set("mie", TRUE), Set("gie", TRUE), Set("wait", TRUE), Write("COUNT", 1),
    Write("COMPARE", cycles), WriteBits("CTRL", {"ENABLE", "AUTORESET"}), Op("spin"),
    Set("wait", TRUE)>>

\* Mutant: the handler forgets to stop the timer.
direct_handler_running ==
  <<WriteBits("STATUS", {"EXPIRED"}), Set("wait", FALSE), Op("mret")>>

direct_handler ==
  <<WriteBits("STATUS", {"EXPIRED"}), WriteBits("CTRL", {}), Set("wait", FALSE), Op("mret")>>

\* The handler of crt0.S disables the interrupt.
default_handler == <<Set("mie", FALSE), Op("mret")>>

Handler == CASE program = "maw"    -> direct_handler
             [] program = "driver" -> croc_interrupt_handler
             [] program = "clint"  -> default_handler

-----------------------------------------------------------------------------
(* The processor.                                                          *)

NoEnables == [mie |-> FALSE, gie |-> FALSE]

Init ==
  /\ Timer!Init /\ CLINT!Init
  /\ \/ program \in {"driver", "clint"} /\ main = <<>>
     \/ program = "maw" /\ \E c \in Cycles : main = MawMain(c)
  /\ isr = <<>>
  /\ mie = FALSE /\ gie = FALSE
  /\ ctrl = {} /\ before = NoEnables /\ wait_for_timer = FALSE /\ time = 0
  /\ stall = 0 /\ ticked = FALSE
  /\ age = 0 /\ clean = FALSE /\ old = 0

At(prog, name) == prog # <<>> /\ Head(prog).op = name
Expired == "EXPIRED" \in status_q
Pending == IF program = "clint" THEN CLINT!timer_irq_o ELSE Expired

\* The main program has nothing to do: sleep ends when an enabled interrupt is pending,
\* globally enabled or not, and the loop of the second program with its variable.
Waiting == \/ main = <<>>
           \/ At(main, "asleep") /\ ~(mie /\ Pending)
           \/ At(main, "spin") /\ wait_for_timer

Written(o) == (time + o.offset) % (CLINT!MaxTime + 1)

\* What an operation puts on the timers' ports.
Request(o) ==
  CASE o.op = "write"      -> o.req
    [] o.op = "write_ctrl" ->
         WriteBits("CTRL", IF o.on THEN ctrl \cup {o.bit} ELSE ctrl \ {o.bit}).req
    [] o.op = "write_cmp" ->
         Write(o.reg, IF o.reg = "MTIMECMP_HIGH0" THEN CLINT!High(Written(o))
                      ELSE CLINT!Low(Written(o))).req
    [] OTHER -> Timer!NoWrite

\* Locals are kept as long as they are used.
Locals(o) ==
  /\ ctrl' = CASE o.op = "read_ctrl" -> ctrl_q [] o.op = "write_ctrl" -> {} [] OTHER -> ctrl
  /\ before' = CASE o.op = "save" -> [mie |-> mie, gie |-> gie]
                 [] o.op = "restore_gie" -> NoEnables
                 [] OTHER -> before
  /\ wait_for_timer' = IF o.op = "wait" THEN o.on ELSE wait_for_timer
  /\ time' = CASE o.op = "read_high" -> time + CLINT!High(mtime_q) * CLINT!Word
               [] o.op = "read_low"  -> time + CLINT!Low(mtime_q)
               [] o.op = "write_cmp" /\ o.reg = "MTIMECMP_LOW0" -> 0
               [] OTHER -> time

\* Mutant: interrupts are disabled afterwards whatever they were before.
EnablesForgetful(o) ==
  /\ mie' = CASE o.op = "mie" -> o.on [] o.op = "restore_mie" -> FALSE [] OTHER -> mie
  /\ gie' = CASE o.op = "gie" -> o.on [] o.op = "mret" -> TRUE
              [] o.op = "restore_gie" -> FALSE [] OTHER -> gie

\* What was enabled before the sleep stays enabled.
Enables(o) ==
  /\ mie' = CASE o.op = "mie" -> o.on
              [] o.op = "restore_mie" -> mie /\ before.mie
              [] OTHER -> mie
  /\ gie' = CASE o.op = "gie" -> o.on
              [] o.op = "mret" -> TRUE
              [] o.op = "restore_gie" -> gie /\ before.gie
              [] OTHER -> gie

\* Arming, the write that enables the timer, comes last in both programs.
Arms(o) == \/ o.op = "write_ctrl" /\ o.bit = "ENABLE" /\ o.on
           \/ o.op = "write" /\ "ENABLE" \in o.req.bits

TimerCycle(o) ==
  /\ Timer!Step(Request(o))
  /\ age' = IF Arms(o) THEN 0 ELSE IF age < compare_q + 2 THEN age + 1 ELSE age
  /\ clean' = IF Arms(o) THEN ~Expired ELSE clean
  /\ UNCHANGED <<clintvars, ticked, old>>

\* The slow clock has a period longer than a call that does not wait.
ClintCycle(o) ==
  \E tick \in BOOLEAN :
    /\ tick => (Waiting \/ ~ticked) /\ mtime_q < CLINT!MaxTime
    /\ CLINT!Step(Request(o), tick)
    /\ ticked' = (~Waiting /\ (ticked \/ tick))
    /\ age' = IF o.op = "read_low" THEN (IF tick THEN 1 ELSE 0)
              ELSE IF tick /\ (\E t \in Ticks : age < t) THEN age + 1 ELSE age
    /\ clean' = ((clean \/ o.op = "read_high") /\ o.op # "interrupt")
    /\ old' = CASE o.op # "write_cmp" -> old
                [] o.reg = "MTIMECMP_HIGH0" -> mtimecmp_q
                [] OTHER -> 0
    /\ UNCHANGED timervars

Cycle(o) == IF program = "clint" THEN ClintCycle(o) ELSE TimerCycle(o)

Do(o) == Cycle(o) /\ Locals(o) /\ Enables(o) /\ stall' = 0

\* The interrupt is taken between two instructions of the main program; while it is
\* asleep, after it has woken up.
Taken == mie /\ gie /\ Pending /\ isr = <<>> /\ ~At(main, "asleep")

Interrupt ==
  /\ Taken
  /\ isr' = Handler
  /\ gie' = FALSE
  /\ stall' = 0
  /\ Cycle(Op("interrupt"))
  /\ UNCHANGED <<main, mie, locals>>

Handle ==
  /\ isr # <<>>
  /\ Do(Head(isr))
  /\ isr' = Tail(isr)
  /\ UNCHANGED main

Instruction ==
  /\ isr = <<>> /\ ~Taken /\ ~Waiting
  /\ Do(Head(main))
  /\ main' = (IF At(main, "wfi") THEN <<[Head(main) EXCEPT !.op = "asleep"]>> ELSE <<>>) \o Tail(main)
  /\ UNCHANGED isr

Call ==
  /\ program # "maw" /\ main = <<>> /\ isr = <<>> /\ ~Taken
  /\ main' \in (IF program = "clint" THEN ClintCalls ELSE DriverCalls)
  /\ Cycle(Op("none"))
  /\ stall' = 0
  /\ UNCHANGED <<isr, mie, gie, locals>>

\* A cycle in which no instruction ends: there is none, or it takes longer.  The length of
\* instructions makes no difference to ticks, which come in any cycle.
Elapse ==
  /\ IF isr = <<>> /\ ~Taken /\ Waiting THEN stall' = 0
     ELSE program # "clint" /\ stall < MaxStall /\ stall' = stall + 1
  /\ Cycle(Op("none"))
  /\ UNCHANGED <<main, isr, mie, gie, locals>>

Next == (Interrupt \/ Handle \/ Instruction \/ Call \/ Elapse) /\ UNCHANGED program

Tick == program = "clint" /\ Next /\ mtime_q' # mtime_q

\* Both clocks run; MaxStall bounds every instruction, so nothing else is assumed.
Spec == Init /\ [][Next]_vars /\ WF_vars(Next) /\ WF_vars(Tick)

-----------------------------------------------------------------------------
(* Properties.                                                             *)

Values == 0..2^CounterBits-1
TypeOK ==
  /\ count_q \in Values /\ compare_q \in Values
  /\ ctrl_q \subseteq {"ENABLE", "AUTORESET"} /\ status_q \subseteq {"EXPIRED", "OVERFLOW"}
  /\ mie \in BOOLEAN /\ gie \in BOOLEAN /\ wait_for_timer \in BOOLEAN
  /\ isr # <<>> => ~gie
  /\ stall \in 0..MaxStall
  /\ age \in 0..(IF program = "clint" THEN CLINT!Word - 1 ELSE 2^CounterBits + 1)
  /\ mtime_q \in 0..CLINT!MaxTime /\ mtimecmp_q \in 0..CLINT!MaxTime

\* Unless a flag was left from before, a wait, by sleeping or by spinning, takes more
\* than the cycles asked for, whatever the timer was doing when it was set.
WaitsLongEnough ==
  [][/\ program # "clint"
     /\ At(main, "asleep") \/ At(main, "spin")
     /\ main' # main /\ clean
     => age > compare_q]_vars

\* A sleep ends with the interrupt enables as they were when it was called, except that
\* the default handler leaves the CLINT's interrupt disabled.
InSleep ==
  /\ main # <<>> /\ main[Len(main)].op = "restore_gie"
  /\ \A i \in DOMAIN main : main[i].op # "save"
EnablesRestored ==
  [][InSleep /\ ~InSleep' => /\ mie' = (before.mie /\ program = "driver")
                          /\ gie' = before.gie]_vars

\* Every sleep ends, if a handler run fits into the period: an interrupt that comes
\* before wfi is lost, but the timer resets itself and fires again.
SleepReturns == []<>(program = "clint" \/ ~InSleep \/ compare_q < MinPeriod)

\* The waiting program always gets on, however early the interrupt comes, ...
WaitEnds == program = "maw" => <>(main = <<>>)

\* ... and leaves the timer stopped and no interrupt pending, also when the timer
\* expires again between the handler's two writes.
QuietAfterWait ==
  program = "maw" => <>[](ctrl_q = {} /\ ~Expired /\ isr = <<>>)

\* clint_get_mtime never runs ahead of the time; if the low word overflows between its two
\* reads, and only then, it is late by the span of a word.
TimeReadIsPast ==
  [][time' # time /\ At(main', "write_cmp") /\ ~At(main, "write_cmp")
     => time' = mtime_q \/ time' = mtime_q - CLINT!Word]_vars

\* A sleep of the CLINT that returns took the ticks asked for, whatever was enabled and
\* pending before, and wherever the ticks fell.
SleepLastsTicks ==
  [][program = "clint" /\ At(main, "asleep") /\ main' # main
     => age >= Head(main).ticks]_vars

\* A sleep of the CLINT returns, unless the interrupt came before wfi: the default handler
\* disables it, and nothing wakes the processor.
SleepReturnsUnlessEarly == []<>(program # "clint" \/ ~InSleep \/ ~clean)

\* No interrupt is taken because the words of mtimecmp are written one after the other,
\* when neither the old nor the new time has come: the comment in clint_set_mtimecmp.
NoSpuriousInterrupt ==
  [][/\ program = "clint" /\ isr = <<>> /\ isr' # <<>>
     /\ At(main, "write_cmp") /\ Head(main).reg = "MTIMECMP_LOW0"
     => mtime_q >= old \/ mtime_q >= Written(Head(main))]_vars

\* An interrupt of a timer that obi_timer_set has set comes no sooner than the cycles
\* asked for: the comment on obi_timer_set, which forgets the flag left from before.
InterruptAfterCycles ==
  [][/\ program = "driver"
     /\ ~\E i \in DOMAIN main : Arms(main[i])
     /\ isr = <<>> /\ isr' # <<>>
     => age >= compare_q]_vars
=============================================================================
