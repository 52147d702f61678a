# TLA+ models of the croc-robot SoC

The repository is the Croc system-on-chip (a CVE2 core, SRAM, an OBI crossbar and
peripherals) with a **drone controller** added in the user domain: a register block, a
reader that fetches a feedback matrix and three vectors from memory, the fixed-point
control law `u = K(xref - xstate) + u0`, and four PWM channels. Its register block comes
with a **register documentation**, a small web application in
`rtl/drone_controller/reg/doc` that PeakRDL-html generated from the register description:
a tree of the registers, their pages, a form to encode and decode values, and a search.
Its scripts are PeakRDL's (LGPL), not the authors' own; they are shipped with the
repository, run on its data, and are the one part of it that is asynchronous throughout.

This directory holds TLA+ models of that logic, the TLC configurations that check them,
and TLAPS proofs. One step of a hardware model is one clock cycle, one step of the
documentation's is one event handler; names are the source's where TLA+ allows it.

    tlc -workers 2 -config MCDroneController.cfg MCDroneController
    tlapm DroneController_proofs.tla

## 1. Inventory

Paths are relative to `src/`. "dc" stands for `rtl/drone_controller`, "js" for
`rtl/drone_controller/reg/doc/js`.

| Component | State | Operations | Hard behaviour | What makes it correct |
|---|---|---|---|---|
| Memory interface (`dc/controller/controller_memory_interface.sv`) | two mode bits, latched address and length, counters of grants and of answers | latch a job, refuse read+write, count grants and answers, done | grants run ahead of answers by up to two; inputs are sampled only while idle | every word moved once, in order; no answer of one job counted in the next; requests stable until granted |
| Reader FSM (`dc/controller/controller_top.sv`) | phase, four operand registers, a *latch* on the length (no default assignment) | accept a command, load K, u0, xref, xstate, chain to the next phase | pointer writes and commands during a load; back-to-back phases with answers in flight | whole, fresh, correctly placed operands; commands terminate |
| Register block (`dc/reg/drone_controller_reg.sv`) | captured request, busy flag, pointer/PWM registers, singlepulse command bits | capture, grant, decode, answer | one request at a time over three cycles | every request is answered and the port freed |
| Control law (`dc/vector_arithmetic`, `controller_top.sv` lines 52-91) | three pipeline stages | subtract, dot product, add | saturation at three places, stale stages, scale of products | settles to the saturated law of the operands |
| PWM (`dc/pwm`) | a 32-bit counter per channel | count, clear, compare | registers rewritten one by one while the counter runs | exact period and duty, no run-away lap |
| Main crossbar (`rtl/obi/obi_xbar.sv`, `obi_demux`, `obi_mux`, `rr_arb_tree`, `fifo_v3`, `delta_counter`) | per manager: outstanding counter and selection; per subordinate: priority, lock, id fifo | route, arbitrate, lock, record and pop ids | answers of different subordinates overtaking, full fifo, lock, starvation | answers find their issuer, in order; no starvation |
| OBI timer, `sw/lib/src/obi_timer.c`, `sw/maw_obi_timer_interrupt.c` | count, compare, control, two sticky flags | register writes; set, sleep; handlers | flag left over from before, clear against expiry, read-modify-write, lost wake-up | one wake-up per sleep, no early interrupt |
| CLINT, `sw/lib/src/clint.c` | 64-bit mtime and mtimecmp, msip | ticks, 32-bit accesses; 64-bit accessors, sleep | torn 64-bit reads and writes, lost wake-up | monotonic time, no spurious interrupt |
| Documentation: tree, paths, addresses (`js/ral.js`) | indexes last used for each array | parse and build paths, flat indexes, search for an address, reset indexes | any URL can be typed; arrays with gaps, nested and of several dimensions | no index beyond its dimension; paths and addresses lead back |
| Documentation: register form (`js/field_testers.js`) | texts of the inputs, radix, invalid marks, values kept per address | decode, encode, reset, switch radix | handlers that throw half way; the current node need not be the page's | the fields show the register's bits; values are kept where they are shown |
| Documentation: sidebar (`js/sidebar.js`) | open entries, marks, the node selected last | open, close, close all, select | entries are deleted and created anew | an open entry is in the tree, at most one is marked |
| Documentation: search (`js/search.js`, `path_search.js`, `content_search.js`, `address_search.js`) | query, abort flag, results, previews, cached parts of the index | start, abort, pause, fetch, rank, preview, limit, select | the reader types on while a search pauses | results belong to the query on display; every match is found, up to the limit |
| Documentation: navigation, index editor (`js/nav.js`, `main.js`, `index_edit.js`) | current node, page, crumb trail, address, title, URL and history, editor | links, tree, history, keys, index editor, start | pages arrive in any order or fail; the editor stays open meanwhile | the parts of the page agree in the end |
| GPIO, `sw/lib/src/gpio.c` | direction, output, enables, edge status | edge detection, read-modify-write driver | handler against main program | no lost update, no lost edge |
| SoC control, boot ROM | boot address, core status, msip | park, wake, run, report | wake-up handshake with the debugger | exactly one start per wake-up |
| CVE2 (`rtl/cve2`, vendored) | instruction under way, `mie`, `mstatus.MIE` | take an interrupt, enter the handler, `wfi`, `mret` | an interrupt before `wfi`, between any two instructions | part of `TimerWait`; the rest is not modelled |
| UART, iDMA (disabled in `croc_pkg.sv`), debug module | vendored | | | not modelled |
| Flight simulation (`dronesim`) | floating point, MuJoCo | | | reference for the law's scale only |
| Physical flow (`openroad`, `yosys`, `klayout`, `ihp13`) | scripts | | | not modelled |

**Interactions.** Software writes the register block through the user-domain bus; the
register block's wires feed the reader and the PWM drivers; the reader drives the memory
interface (`request_read`, address, length) and takes words and `done` from it; the
memory interface is a manager of the main crossbar and shares SRAM with the core; the
operand registers feed the arithmetic in every cycle. Timer, CLINT and GPIO interrupt the
core, which runs the drivers. In the documentation every handler works on the current
node and the indexes kept in `RAL`; handlers, answered fetches, and the pauses of a search
interleave, and the sidebar, the form and the search are called by the navigation.

The hazards that follow from this are listed, at their lines, in `PROJECT.json`.

## 2. Modules

| Module | Models | Composes / implements |
|---|---|---|
| `MemInterface` | the memory interface: flip-flops, combinational outputs, clock edge | |
| `ObiPort` | the bus as one manager sees it: bounded outstanding, answers in order, later than the grant | |
| `WordTransfer` | *abstract*: what a job of the memory interface promises | |
| `MemTransfer` | memory interface between an arbitrary client and an arbitrary port | `MemInterface`, `ObiPort`; implements `WordTransfer` |
| `RegBlock` | the register block, parameterised by its stored registers | |
| `ControllerLoads` | *abstract*: what a command of the reader promises | |
| `DroneController` | register block + reader FSM + memory interface + port, with software and memory around them | `RegBlock`, `MemInterface`, `ObiPort`; implements `ControllerLoads` |
| `DroneController_proofs` | theorems about `DroneController` | |
| `MemTransfer_proofs` | theorems about `MemTransfer` | |
| `DataLemmas` | lemmas about queues, sums and folds over sets, powers of two, remainders, numbers made of fields of bits, induction over numbers and over a rank; used by the other proofs | |
| `VecArith`, `ControlLaw` | the saturating arithmetic at any width; the three-stage pipeline | |
| `ControlLaw_proofs` | theorems about `ControlLaw` | |
| `Pwm`, `Pwm_proofs` | one PWM channel behind its registers; theorems about it | `RegBlock` |
| `ObiXbar` | demultiplexers, arbiters, id fifos of the main crossbar | every manager port is an `ObiPort` |
| `ObiXbar_proofs` | theorems about `ObiXbar` | |
| `ObiTimer` | the OBI timer: counter, compare, control, sticky flags | |
| `Clint` | the time, the time compared with and the timer interrupt of the CLINT | |
| `TimerWait` | the drivers of both timers called in any order, and `maw_obi_timer_interrupt.c`, with their interrupt handlers, on a processor with `mie`, `mstatus.MIE` and `wfi` | `ObiTimer`, `Clint` |
| `TimerWait_proofs` | theorems about `TimerWait` | |
| `Ral` | tree, indexes, paths and addresses of the documentation: pure functions of the indexes | |
| `RegTester` | the register form: each handler a function from form to form | `Ral` |
| `Sidebar` | the tree beside the page | `Ral` |
| `DocSearch` | the search, in the pieces it runs in | `Ral` |
| `DocViewer` | the documentation in a browser: start, pages, links, history, index editor, form, search | `RegTester`, `Sidebar`, `DocSearch` |
| `DocViewer_proofs` | theorems about `DocViewer`, and lemmas about `Ral`, `RegTester`, `Sidebar` and `DocSearch` | |
| `MC...` | instances for TLC | |

Definitions prefixed in a comment by "Mutant" are plausible wrong versions of the
definition that follows; `PROJECT.json` pairs each property with one that breaks it.

**Correspondence, and what is abstracted.**

- *Memory interface.* `Latch`, `Refuse` and `Count` are the three branches of its
  `always_comb`; `Req`, `ReqAddr`, `DataValid` and `Done` its outputs. Read and write data
  pass through unchanged and are left to the composing module. `err_o` is unconnected in
  `controller_top` and left out, so an error answer counts as data (a listed hazard). In a
  write the block shows `data_word_request_o` on every grant, requested or not; no client
  writes, so this is not modelled. A length of zero would never be done; no client asks
  for it, and `MaxWords` starts at one. The block never drives OBI `be`.
- *Reader.* `FsmIdle` is the branch of RST and IDLE, `FsmLoad` the branches of the four
  loading phases, which differ in pointer, length, destination and successor only.
  `n_words_wire` with the variable `sram_n_words` is the inferred latch. `Slot` is
  `mat_row`/`mat_col`. A word of memory is `<<address, time>>`, time being the number of
  stores software made so far: this determines its contents, and tells stale, torn and
  misplaced words from right ones without modelling data. RUN_CALC and U_OUT_VEC are
  decoded by the register block but have no effect in the source.
- *Register block.* Captures, grants, answers, stores whole words (the C driver issues
  nothing else), clears CMD in every other cycle. Byte enables and read data are left out.
- *Arithmetic.* Two's complement numbers of width w are given by `h = 2^(w-1)`;
  truncation and the test of upper bits are as in the code. `uout_q` is one element
  (`uout_d[0]`): the code assigns the sum of the vectors to a wire one element wide.
- *PWM.* The value written to CONF is its MODE field. The driver ignores CLK_DIV, and
  implements no center-aligned mode: modes 2 and 3 hold the counter at zero, as modelled.
  The four channels are independent copies. `pwm_out_o` is not connected in the SoC.
- *Crossbar.* An address is the subordinate it decodes to; the stored request vector of an
  arbiter is kept where it can matter (under the lock). A manager's request stays up until
  granted (OBI rule), subordinates are arbitrary.
- *Timer and its programs.* `Step` is the clock edge of the timer; the enable and
  auto-reset bits are the set `ctrl_q`, the sticky flags the set `status_q`. A program is
  the sequence of bus accesses and CSR writes its C code makes, `obi_timer_set` and
  `obi_timer_sleep` being concatenations as in the source; everything between two of them
  is duration, one to `MaxStall + 1` cycles. `Taken`, `Interrupt`,
  `wfi` and `mret` are those of the controller in `cve2_controller.sv` (`handle_irq`,
  `IRQ_TAKEN`, `WAIT_SLEEP`, `SLEEP`): `wfi` executed with the interrupt already handled sleeps, and
  wakes on an enabled pending interrupt whatever `mstatus.MIE` says. The trap wrapper of
  the boot ROM is duration. `maw`'s constants 0x0A and 0x2A are 1 and a member of `Cycles`.
- *CLINT and its programs.* A word of mtime and mtimecmp has `WordBits` bits. The slow
  clock may tick in any cycle, but no more than once in a call that does not wait for it
  (`ticked`): hundreds of cycles of the SoC pass between two ticks of 32.768 kHz, a call
  takes tens. The length
  of instructions makes no further difference and is not varied. Time stops at its last
  value and calls that would need more are not made. The handler is the weak one of
  `crt0.S`, which disables the interrupt.
- *Documentation.* A handler runs to its end, so it is one action; what a click commits
  when it reaches the handler of the window (the editor of an index closes) is part of the
  action. The state of the page and of `RAL` is the record `ui`, and the source's
  functions are operators from `ui` to `ui`. A page asked for is an entry of `loads`,
  which may arrive or fail at any time, in any order. A path is the sequence of its names
  and indexes, a text in an input the number it stands for or `Garbage`, for which
  `BigInt` throws; a handler that throws keeps what it has done so far. A word of a query
  is a sequence of groups of letters ("tokens"); which words of the index it begins is part
  of the index. The search runs from one `await` or `setTimeout` to the next; an
  aborted one runs on to its next check. Layout, scrolling, anchors, themes and the help
  window are left out.

## 3. Runs

| Run | Shows | Size |
|---|---|---|
| `mem_transfer` | type; counters account for everything in flight; requests stable until granted; implements `WordTransfer` (safety and termination) | 337 states |
| `drone_controller` | type; FSM and interface agree on the job and own the bus; words placed; operands never a mixture; a finished load is complete and no older than its command; register port frees itself; implements `ControllerLoads` | 51,754 states, about 45 s |
| `control_law` | type; three cycles after the last change the output is the clamped law | 30,059 states |
| `pwm` | type; exact period and duty of an undisturbed period after any history; counter inside the period one cycle after any change of top | 1,791 states |
| `obi_xbar` | type; ids and counters agree with what is outstanding; the lock's assumption holds; every port is an `ObiPort`; nobody starves | 46,208 states, about 40 s |
| `obi_timer` | OBI timer: no wait shorter than asked for unless a flag was left; every sleep and the waiting program end; enables restored; timer stopped and nothing pending after the program. CLINT: the time read is past, by a word at most; no sleep shorter than its ticks; a sleep ends unless its interrupt came before `wfi` | 402,870 states, about 60 s |
| `doc_viewer` | type, with every index inside its dimension; the tree's marks sound; the scripts work on the page on display; page, title, sidebar, crumb trail, address, indexes and URL agree in the end; the form shows the register's bits and the value kept for its address; values kept under the address on display; results are of the query on display; a search that ends has found what there is; paths and addresses lead back | 72,165 states, about 60 s |
| `timer_set_interrupts_after_cycles` | **violation**: `obi_timer_set` leaves the sticky flag, so the interrupt may come at once | |
| `clint_spurious_interrupts` | **violation**: between the two writes of `clint_set_mtimecmp` the time compared with may lie in the past | |
| `commands_per_register_description` | **violation**: an UPDATE bit loads more than the register description says | |
| `fixed_point` | **violation**: the product of Q4.4 numbers is not scaled back | |
| `pwm_polarity` | **violation**: output is high below, not above, COUNT_COMPARE | |

**Findings** (details and quotations in `PROJECT.json`).
`UPDATE_CONTROLLER_REFERENCE` goes on to load xstate, and `UPDATE_CONTROLLER` everything;
the register description names fewer operands. The dot product saturates the full-scale
product without removing its four extra fractional bits, so feedback is 16 times too
strong for Q4.4. `obi_timer_set` does not clear the sticky expired flag.
`clint_set_mtimecmp` writes the high word first, which avoids spurious interrupts only if
the high word does not become smaller. The PWM output has the opposite polarity of its
description.

**What the documentation's properties leave out.** Three history variables name the
situations in which the scripts do go wrong; nothing in the repository promises
otherwise, so these are no findings.

- `rough` is set by going back or forward to the current node with other indexes (the
  indexes are set, but neither crumb trail nor address nor form is refreshed), by asking
  for a page while one asked for by the history is on its way, or the other way round
  (whichever comes last wins, and the URL may be the other's), and by a failure of a page
  that the history or a search result asked for (its indexes stay set). It ends when the
  last page on its way has come and was not one of the history's.
- `lost` is set when a page asked for by the history fails: the current node stays that of
  the page that is not there.
- `form.clean` ends when a handler of the form has thrown, or worked on a node that is not
  the page's.

Within these limits all interleavings count. Also modelled as they are, and visible in
traces: after a click on an index Ctrl+] finds no next one (a text is appended to a number);
Ctrl+/ searches for the displayed path with its capitals, which is then not found by
name; a word whose hash lies behind the last part of the index is dropped from the query;
a second data file that fails, or comes after one failed, finds the progress bar gone; a
reset does not take away the mark of an invalid input; the register's input has no upper
limit.

**Bounds and why they are enough.**

- `mem_transfer`: jobs of 1 to 4 words, two outstanding transactions (`NumMaxTrans` in
  `croc_domain`), three start addresses with overlapping jobs. Four words are twice the
  outstanding limit, so the counters are apart, equal and at their end in every
  combination; `Conflict` arises because the client may raise both requests.
- `drone_controller`: K is 2 x 8 (four words, two per row, so a load crosses a row inside
  a burst), vectors of two words and one word, one store (`MaxTime = 1`: a word is from
  before or after it), one pointer that moves between adjacent regions during a load,
  every command bit alone and one combination. The proofs remove these bounds.
- `control_law`: 3-bit numbers, a 2 x 2 law, `Frac = 2`; samples at both ends of the range
  make every stage saturate both ways.
- `pwm`: a counter of `Range = 8` values stands for that of 2^32, tops 0, 1, 3, 6 and
  compare values 0, 2, 7 lie below, at and above each other and the counter.
- `obi_xbar`: three managers, two of which switch between two subordinates; the smallest
  instance in which locks, full fifos, changes of destination and a third competitor meet.
- `obi_timer`: a 4-bit counter; a wait of 1 cycle (period 2, shorter than any handler
  run, so interrupts fall between any two instructions and between the handler's own
  writes) and one of 14 (longer than a handler run, `MinPeriod`). Below `MinPeriod`, and
  only there, a main program may be starved by its own interrupts, so `SleepReturns`
  speaks of the longer ones. A wait of 0 cycles never ends: the timer treats a compare
  value of 0 as "off"; `Cycles` starts at 1.
- The CLINT in `obi_timer`: words of two bits, so that mtime carries and mtimecmp is set to
  times with different high words; sleeps of one tick (may end before `wfi`) and of three
  (ends after it), one or two ticks before the time is read.
- `doc_viewer`: the nodes of `data/ral-data-0.json` without four of the six controller
  registers, with 4-bit registers. The scripts handle arrays of several dimensions, gaps
  between elements and arrays inside arrays, none of which this file has, so the model
  lays the four PWM channels out as a 2 x 2 array with gaps and makes `COUNT_COMPARE` an
  array inside it: flat indexes, their inverse, the index editor's steps and searches
  for an address between two elements are all exercised. There is an index with the
  words the queries begin; two data files instead of one, so that one may fail and the
  other arrive; a URL with an index beyond its dimension. `MaxLoads = 2` pages on their
  way, `MaxSearches = 2` searches started, chunks of three nodes and limits of three
  results (100, 100 and 25 in the source), so that a search of eight nodes pauses and
  meets its limits. `Sessions` bounds the events of one reader to three or four, of the
  kinds that act on the same state; all events of all kinds together are out of reach.
- `age`, `clean`, `old`, `rough` and `lost` are history as well.
- `quiet`, `since`, `now`, `moved`, `span`, `high`, `pend`, `order` and `turn` are history
  the properties need; they guard nothing (`pend` also says who owes an answer: it is the
  subordinates' own state).

**Fairness.** The clock runs (`WF(Next)`: a step is a cycle). A request held on a manager
port is eventually granted: the arbiter is round robin, which `obi_xbar` checks as
`NoStarvation`. An accepted request is eventually answered: SRAM answers after one cycle.
Nothing is assumed of software; in `TimerWait` every instruction ends within
`MaxStall + 1` cycles, which is part of the transition relation, and the slow clock of
the CLINT runs too (`WF(Tick)`) until time ends. The documentation assumes no fairness:
pages, searches and readers may all stop, so its properties say what holds whenever
nothing is pending. In `ObiXbar` only the subordinates are fair; weak fairness
is spelled out with the negated guards, because the steps are chosen inside `Next`.

## 4. Proofs

All theorems hold for every value of the constants that the modules' assumptions allow;
each theorem module extends the module it is about.

**`DroneController_proofs`**, for every matrix size divisible into words
(`DimAssumption`), every number of outstanding transactions, every number of stores and
every set of requests (`RequestAssumption`):

- `TypeCorrect`: `Spec => []TypeOK`
- `BusOwnership`: `Spec => []PhaseOwnsBus`
- `WordsPlaced`: `Spec => []PartPlaced`
- `WholeOperands`: `Spec => []OperandsWhole`
- `LoadsComplete`: `Spec => LoadCompleteAndFresh`

`OperandsWhole` is not inductive: that a load ends with a whole operand needs to know that
the words so far lie in place, which needs to know that the word at the head of the bus is
word `word_counter_q` of the phase being loaded, which needs to know that nothing of an
earlier phase is in flight when a phase begins. So the invariant is
`Safe == PhaseOwnsBus /\ PartPlaced /\ OperandsWhole /\ since <= now`, under `TypeOK`. The
step lemmas follow the memory interface: an idle cycle latches and starts from nothing in
flight; a counting cycle moves head and tail of the queue with the two counters; the last
answer empties the queue and completes the operand. The arithmetic of operand layout
(`SlotPlace`, `PlaceSlot`: word n goes to the place 4n bytes into the operand, and every
place is that of one word) is proved once, from uniqueness of integer division.

`KeepsPromise` is the safety part of the refinement of `ControllerLoads`: the initial state
is the promise's, and every cycle is `Command`, `Loaded`, `Store` or leaves its variables
alone. It rests on the same step lemmas: an idle cycle that sees a command starts at a
suffix of the loading order (`TodoIsSuffix`), a loading cycle disturbs the operand being
loaded only, and the last one takes that operand off the list (`TodoAdvances`) and leaves
it the image of one region (`LastStep`).

**`MemTransfer_proofs`**, for every job length and every depth of the port: `TypeCorrect`,
`Accounted` (`InFlightAccounted`), `HeldRequest` (`RequestHeldUntilGranted`), and
`WordsInOrder`, the safety part of the refinement: every step of the memory interface is a
step of `WordTransfer` or leaves its variables alone. The invariant is
`TypeOK /\ InFlightAccounted /\ JobAccounted`; the last part says that the addresses in
flight are those of the words between the two counters, which is why the head of the queue
is the word that comes next.

**`Pwm_proofs`**, for every range of the counter: `TypeCorrect`, `InsidePeriod`
(`NoRunaway`), `ExactDuty` (`DutyExact`). The invariant is
`TypeOK /\ RegsOK /\ PeriodAccounted`: while nothing was rewritten, the history variables
`span` and `high` are functions of the counter.

**`ControlLaw_proofs`**, for every width and every length of the vectors: `TypeCorrect` and
`Settles` (`SettlesToLaw`). The dot product sums as many products as the vectors have
lanes, so this needs induction over the lanes: `DataLemmas` derives it for sets of numbers
(a nonempty set of naturals has a least member; strict inclusion of finite sets is well
founded), states what a sum over a set is when one more element joins (`SumRecursion`),
and bounds it (`SumBound`). With the bound the accumulator never overflows (`DotClamped`),
and the upper-bits test of the code clamps exactly (`Saturated`). The invariant is
`TypeOK /\ Settled`, which says for each age of the operands which stages hold their
final value.

**`ObiXbar_proofs`**, for up to eight managers (the arbiter compares three index bits), any
subordinates, any reachability and every depth of the fifos: `TypeCorrect`,
`AnswersReturn` (`AnswersFindTheirIssuer`), `LockHolds` (`LockedStayRequested`), and
`PortsInOrder`: every manager port is an `ObiPort` if the fifos hold two ids or more. (With
one, a grant may come in the very cycle of the answer, which `ObiPort` does not
allow.) The three invariants need each other: a request passes a demultiplexer only if
no answer is to come from elsewhere, so all that a manager is owed is at the subordinate
its demultiplexer listens to, so an answer is that of its oldest request, so the counter
counts right, so a request once shown stays shown. The missing link is `OwedByOne`: how
often a manager stands in the queue of a subordinate is the number of answers it is owed if
it is the selected one, and zero otherwise. Each cycle is taken apart into what it does to
the queues (`MuxQueues`, `DemuxQueue`) and to the registers of a demultiplexer
(`DemuxRegisters`).

**`TimerWait_proofs`**, for every set of durations, of ticks and of starting times, every
width of the two words of the CLINT's clock, every limit of instructions and interrupts:

- `Typing`: `Spec => []TypeOK`
- `TimeRead`: `Spec => []TimeReadIsPast`
- `SleepLasts`: `Spec => SleepLastsTicks`
- `WaitsLong`: `Spec => WaitsLongEnough`
- `Restores`: `Spec => EnablesRestored`

The invariant describes the program that is running: where in which driver call it stands
is a suffix of that call's accesses, and for each suffix it says what the registers hold by
then. For the OBI timer it relates count, compare value, sticky flags and the age of the
wait: unless a flag was left from before, age and count advance together, and a flag means
the count has been reached. For the CLINT it says what each of the three reads of
`clint_get_mtime` has returned relative to the time now: the loop accepts a low word only
between two equal high words, so the pair is a time that has been, behind the present by
the span of a word if the low word overflows between the reads. One lemma per kind of step
(access, CSR write, interrupt, return, falling asleep, waking) keeps each part. The
assumption on `Ticks` is the type of the parameter, `uint32_t ticks` of `clint_sleep_ticks`:
one word, added to a time of two.

**`DocViewer_proofs`**, for every register tree, index, query, reader and number of pages on
their way:

- `CurrentPage`: `Spec => []PageIsCurrent`
- `Typing`: `Spec => []TypeOK`
- `SoundSidebar`: `Spec => []SidebarSound`
- `LatestResults`: `Spec => []ResultsOfLatestQuery`
- `SettledParts`: `Spec => []PartsAgree`
- `FormsAgree`: `Spec => []FormShowsRegister`
- `SearchFindsAll`: `Spec => []SearchComplete`
- `SavedWhereShown`: `Spec => EditsSavedWhereShown`
- `PathsRoundTrip`: `Spec => PathRoundTrip`
- `AddressesRoundTrip`: `Spec => AddressRoundTrip`

`PageIsCurrent` needs `DOMAIN ui` and the type of `loads` only. The others rest on
`ViewerInv`, the shape of everything: indexes within their dimensions (`IdxsOK`), paths in
the history, a sound tree, an editor on an existing dimension, results whose indexes lie
within theirs (`SearchInv`). That it is kept is mostly a matter of the functions of `Ral`:
whatever path is parsed, its indexes are cut to their dimensions (`SanitizeInRange`,
`WalkExists`), an address found leads to a position (`Placed`), and the node the walk ends
at has the path's nodes above it. Tree and path are recursive data, so these lemmas go by
induction over the rank of a node (a parent has a smaller number than its children), which
`DataLemmas` derives for sets (`RankInduction`); folds over sequences are taken apart with
`FoldRecursion`.

`SearchInv` adds what a paused search may still write: results of the latest search carry
its number, and one told to stop writes none.

`PartsAgree` is about a moment at which nothing is on its way. Its strengthening
`AgreeInv` says what holds meanwhile, unless `rough`: a page the URL asked for is alone on
its way and URL and node are there already; or a result has set its indexes and its page is
on its way; or all parts agree although pages of links are on their way. The last
disjunct holds because following a link resets only indexes below the common ancestor
(`NextKeepsPath`), so head, address and URL of the page still on display stay
right. Each handler keeps agreement (`Keeps`), each page that comes establishes it
(`ShownAgrees`). The same invariant says that the address on display is the key under which
an edit is saved, which is `EditsSavedWhereShown`. `PathRoundTrip` is
`IdxsOK(idxs) => PathsLeadBack(idxs)` (`LeadsBack`), by induction along the path.

`AddressRoundTrip` follows from `IdxsOK(idxs) => AddressesLeadBack(idxs)` (`AddressBack`). The
number of an element is its indexes written as digits of mixed base, each of the weight
of an element's span in that dimension, so dividing by the weight reads each index back
(`FlatDigits`), and an address inside an element leads to its indexes and the rest
(`ElementAt`). What is left of the address in each node on the path lies in that node
(`WayDown`, from the page upwards). As the ranges of children do not overlap, the first
child that fits is the one on the path (`ChildAt`), and the search meets no gap before
it reaches the page's node (`FoundAt`).

`FormShowsRegister` rests on `FormInv`: the form on display is that of the register of the
page (`FormHolds`), the fields hold the digits of the register's value, and that value is
the one saved last unless `rough`, or a page the URL or a search asked for is on its way.
That fields decoded from a register are its bits again is arithmetic: the value is a sum of
fields, each a digit at a power of two; if no two share a bit, every digit can be read back
from the sum (`DigitsOfSum` in `DataLemmas`), by induction over the fields in the order of
their positions: what lies below a field is smaller than its lowest bit, what lies above is
a multiple of the power beyond its highest. The handlers of the form work on the node the
URL names by then, which need not be the page's. They fail, changing nothing, unless the
form has exactly the fields of that node by name; and registers of equal field names have
equal fields.

`SearchComplete` rests on `ListInv`, which says of the latest search, as long as it is not
told to stop, what it has listed so far, by the phase of its run: while it scans, each path
of the nodes before the pause once, and nothing else; while it waits for the index, all
paths; while previews come, also the spots of the first matches. Each node adds exactly its
own paths (`NodeLists`), since the walk of `test_path` from left to right finds the
keywords iff they occur one behind the other at some places (`TestIsInOrder`: the earliest
place of a keyword leaves most room for the next, by induction over the keywords). A chunk
adds node after node (`ChunkLists`), to the end or to the limit. The ranking inserts every
place all keywords lead to once, whatever the order (`InsertOnce`, `RankedAgreed`). Other
searches were told to stop and write nothing (`SearchInv`); the parts of the index they
fetch in between are those this search would fetch.

The assumptions on the constants are facts about the data the scripts run on:
`TreeAssumption` (parents come before their children, siblings have different names,
dimensions are positive: so in `data/ral-data-0.json`), `FieldsAssumption` (the fields
of a register have different names and no common bit, fit their reset values, and
registers with a field name in common have the same layout: so in the same file),
`SearchAssumption` (index and queries have the types their readers expect),
`LayoutAssumption` (elements and children do not overlap and lie within their parent: so in
`data/ral-data-0.json`), `NamesAssumption` (a query is one of the four kinds `start_search` tells apart, words are
made of tokens; the fields of a register have different names), and `ReaderAssumption` (a path has no negative index: `parse_path` rejects one that has,
which makes it `NoPath`; what is typed into the form is a number or none).

**Only model-checked**

- Liveness is out of the prover's reach: `RegPortFrees`, `NoStarvation`, termination in
  the two refinements, and the timers' `SleepReturns`, `WaitEnds`, `QuietAfterWait` and
  `SleepReturnsUnlessEarly`.

Every other property a passing run checks is stated by a theorem.

## 5. Plan

Done: memory interface, drone controller, control law, PWM, crossbar, both timers with
their programs, the register documentation, and the theorems above. In order of importance,
next come

1. An abstract specification of a sleep (one wake-up, no sooner than asked for) implemented
   by `TimerWait`; the driver calls `obi_timer_set_count`, `..._compare` and
   `..._clear_overflow` on their own, and `clint_sleep_ms`.
2. Error answers on the bus, which the reader takes for data.
3. `Gpio` with its driver; then the wake-up handshake of SoC control registers and boot ROM.

## 6. Not modelled

Vendored blocks (CVE2 except its interrupts, debug module, UART, iDMA, the OBI error
subordinate), address decoding and pads (wiring; what matters enters as constants), byte
enables and read data of the register block, the clock divider input (unused in the
source), the flight simulation (continuous dynamics), synthesis and layout scripts,
reset during operation (the SoC resets as a whole). GPIO (plain register logic; no
program of the repository combines its driver with a handler), SoC control registers and
boot ROM (one sender, one receiver, and only the debugger sends). Of the CLINT msip, the
read-back of mtimecmp, byte enables and error answers, and `clint_sleep_ms`. Of the
documentation the vendored SHA-1 (its result enters as the part of the index a word is
in) and progress bar, the sidebar's width, anchors, scrolling, themes, the notes for old
browsers, and `load_page_via_path` with `onClickPathLink`: no page of the repository has
such a link.
