# A TLA+ verification of gCarvin

gCarvin is Inventables' fork of Grbl 1.1e for the Carvey milling machine: firmware
for an AVR (ATmega2560) that reads g-code lines from a serial port, plans and steps
motions, runs a spindle and coolant, homes, probes, and stops for holds, doors, limits
and a front button. There is no operating system: one main program runs to completion
and calls `protocol_execute_realtime()` at its check points; interrupts raise flags in
volatile bytes that only these calls act on. What is hard about it is exactly that
meeting point, so the project begins there.

Source references are `file:line` under `src/`.

## 1. The system

| Component | State it keeps | Operations | Talks to | What is hard | What makes it correct |
|---|---|---|---|---|---|
| Real-time executor (`protocol.c:216-512`) | `sys.state`, `sys.suspend`, `sys.step_control`, `sys.abort`, `sys.soft_limit`, `sys.spindle_stop_ovr`; the volatile `sys_rt_exec_state`, `_alarm`, `_*_override` | alarm and critical-alarm loop, hold/door/cancel/sleep, cycle start, cycle stop, overrides, segment prep | called by every wait of the program; wakes and stops the stepper | copies flags once, clears the live ones later; interrupts in between | no flag is lost that matters; a stop is never undone by the machine itself; motion always shows in the state |
| Suspend loop (`protocol.c:520-780`) | `restore_condition`, retract data, flags in `sys.suspend` | retract, de-energise, sleep, door check, restore, plunge, spindle-stop override | parking motions through stepper; calls the executor at each delay and wait | a door that re-opens at any point of a restore; sleep, reset, override races | power is off while parked and comes back as it was; leaves only when nothing is suspended |
| Main program (`main.c`, `protocol.c:36-213`, `gcode.c` step 4, `motion_control.c`, `jog.c`, `system.c:116-278`) | line buffer, g-code modes, planner queue | reset loop, line loop, `$` lines, motions, synchronise, pause, dwell, probe, jog, soft limit | queues blocks; waits on executor | waits that an abort, a hold or a cancel may end in the wrong way | a wait ends, and ends for the right reason; alarms hold |
| Homing (`limits.c:150-330`, `motion_control.c:205-262`) | axis lock, limit interrupt mask | approach, pull-off, alarms | stepper, reset | waits without check points | limits armed again; failure leads to an alarm |
| Interrupts (`serial.c`, `limits.c:87`, `system.c:41-60`, `carvin.c:75-173`, `probe.c`) | pin debounce counter | raise flags, `mc_reset()` | executor | nest in each other and between any two accesses | what they raise is acted on |
| Stepper (`stepper.c`) | segment ring, `st_prep_block` ring, prep state | prep, load, step, wake up, idle, reset, parking save and restore | planner, executor | ring shared with interrupt; a half-prepared block set aside for parking | motion ends; nothing of a block is lost |
| Planner (`planner.c`) | block ring with tail, head and planned pointer, previous nominal speed | queue, recalculate, discard, reinitialise, update for an override | main program, stepper | the plan changes while its first block is executed; only part of it is recomputed; holds, overrides, parking motions at any point | plan optimal, within every limit, reachable from the speed now; the stepper follows it |
| Spindle and coolant (`spindle_control.c`, `coolant_control.c`, `carvin.c` for the motor) | outputs; target, duration and level of the motor | set, sync, stop; the fade of the timer 5 interrupt | parser, executor, stepper, `mc_reset()` | several writers without a lock | the speed asked for last; off after a reset |
| Serial rings (`serial.c`) | two rings | read, write, counts | sender, executor | interrupt on the other end of each ring; a writer in an interrupt | first in, first out, counts right |
| Settings, EEPROM (`settings.c`, `eeprom.c`, `ps_settings.c`) | persistent records with checksum and version; copies in RAM | start and upgrade, store, read, restore | main program | power loss between byte writes; old versions | what is in use is what is stored; a loss costs one record |
| Sleep (`sleep.c`) | timer count | check, count | timer 3 interrupt | races flags and characters | sleep only when nothing is asked for |
| Over-current monitor (`spindle_current.c`) | filter state | sample, trip | door flag | timer interrupt vs settings | trips when over the threshold |
| LED and spindle fades (`carvin.c`, `PWM_control.c`) | counters | step | timer 5 | rewritten by the main program | fade ends at its target |
| G-code parser (`gcode.c`) | `gc_state`: modes, position, active coordinate system, G92 offset, tool length | import of a line, its checks, its execution in stages | planner, settings, accessories, probe, jog | stages that wait, with reset, jog cancel, report in between; copies of positions and offsets | all copies agree at rest; the sender is told of offsets |
| Reports (`report.c`) | counter of the work offset | status report | parser | what the sender is told last | offset reported after a change |
| Printing, number reading, driver chips (SPI) | none of control | - | - | - | - |

Every behaviour that is hard to test is listed, with its line, in the "hazards" of
`PROJECT.json`, together with the properties that would show it going wrong.

**Configuration modelled.** The build `config.h` and `carvin.h` define: `CARVIN`,
`VARIABLE_SPINDLE`, `PARKING_ENABLE`, `SLEEP_ENABLE`, `ENABLE_SAFETY_DOOR_INPUT_PIN`,
`HOMING_INIT_LOCK`, `CHECK_LIMITS_AT_INIT`, with homing enabled and laser mode off as the
default settings have them. Hard limits and soft limits are settings: a set of events with
`"limit"`, or a set of lines with `"moveOut"`, is a machine that has them on. With limits a
switch may be closed at a start, which then ends in alarm (`Enter`).

## 2. Modules

```
 RtSystem          flags, interrupts, protocol_exec_rt_system()
    ^ EXTENDS
 RtSuspend         protocol_exec_rt_suspend(), parking
    ^
 Protocol          main program, homing; Init, Next, Spec
    ^
 ProtocolSafety    properties, fairness, FairSpec      <- all .cfg files
    ^
 ProtocolProofs    theorems and TLAPS proofs: types, suspension, resumption
    ^
 ProtocolMotionProofs   limit interrupt, cycles, motion, rest, alarms, doors, coolant, parking

 ByteQueue         what a serial ring promises
    ^ implements (INSTANCE, twice)
 SerialRing        receive and transmit ring; properties      <- serial.cfg, isr_print.cfg,
    ^ EXTENDS                                                    trip_in_write.cfg
 SerialProofs      theorems and TLAPS proofs

 GcodeBlock        import and checks of a line (operators)
    ^ EXTENDS
 Gcode             execution of lines, machine, properties
    ^
 MCGcode           the lines of the run                       <- gcode.cfg
 GcodeProofs       theorems and TLAPS proofs (EXTENDS Gcode)

 Planner           planner.c, profiles, overrides; properties
    ^ EXTENDS
 MCPlanner         the lines of the run                       <- planner.cfg
 PlannerProofs     theorems and TLAPS proofs (EXTENDS Planner)
    ^
 PlannerSpeedProofs     the speeds of the plan, and that there is no better one

 Storage           EEPROM records, power losses; properties
    ^ EXTENDS
 MCStorage         contents of the chip                       <- storage.cfg
 StorageProofs     theorems and TLAPS proofs (EXTENDS Storage)

 Spindle           motor, its writers and its timer; properties <- spindle.cfg
    ^ EXTENDS
 SpindleProofs     theorem and TLAPS proof
```

`Planner`, `Gcode`, `Storage` and `Spindle` each look closer at something the first group
takes as a choice: what the blocks and their speeds are, what a line does to positions,
modes and records, what is left after a power loss, how the motor gets its speed.

The components of the first group share the `sys` structure and the volatile flags, so they
are parts of one state machine, each in a module of its own. `BlockMax`, `SegMax`, `Events`
and `Commands` are the only constants; a run chooses them in its cfg, and no wrapper module is
needed. `ConstantsAssumption` is all that is assumed about them.

### State

* `state`, `suspend`, `stepCtl`, `abort`, `softLimit`, `stopOvr` are `sys`; bit masks
  are sets of names.
* `rtState`, `rtAlarm`, `rtStopOvr` are the volatile flags.
* `pc` is the point of `protocol_exec_rt_system()` (`"run"`: not in it), and `rtExec` the
  copy it took: `alarm` (read of the alarm), `critical` (the loop on a critical alarm),
  `clear` (clear of the alarm), `copy` (copy of the flags, and the reset), `holds`,
  `start`, `stop`, `tail` (overrides and segment prep). Between any two of them
  interrupts step.
* `susp` and `restore` are the point of the suspend loop and its `restore_condition`.
* `ctx` and `cmd` are the point the main program goes on from and the line at work.
* `blocks`: the planner queue, a block being the set of accessories it was planned
  with. `segs`: the segment ring, a segment being the spindle output its loading sets.
  `stepping`: the stepper interrupt is enabled.
* `powered` are the outputs, `modal` the g-code modes; `doorOpen`, `buttonDown`,
  `debounce` the control pins; `probing`, `limitsOn` the modes of two interrupts.
* `startAuto`, `execAuto` are history variables: the pending (the copied) cycle start
  was raised by `protocol_auto_cycle_start()` or the probe cycle alone. Nothing reads them but
  properties.

### Actions

One action per interrupt handler: handlers run with interrupts disabled. The stepper
handler re-enables them, but what it touches is its own but for the flags it sets. One
action per block of the executor between two accesses to volatile flags. In the suspend
loop and in the main program, one action per stretch between two calls of the
executor; the stretch is atomic to what the interrupts can see of it. "map" in
`PROJECT.json` names the lines of every definition.

### What is abstract

* Speeds and distances. `st_prep_buffer()` may stop at any number of segments for any
  number of blocks (`PrepQueue`, `SegmentSources`), may end a forced deceleration in
  any block, and ends a system motion at any point. A segment ring that runs dry early
  is the event `"underrun"`, which no run has: it would mean a main program slower
  than the steps it prepares.
* Positions: whether a parking motion has a length, whether the tool stands below the
  parking height, whether a probe is in contact, are choices.
* A motion of no length is not distinguished; arcs are sequences of `mc_line()`. One
  startup line is executed at a start and after homing (`StartupLine`), if any: a second
  is like a line of the sender that comes at once.
* Homing: an approach and a pull-off alternate any number of times.
* The initialisation in the reset loop of `main()` (`Reinit`) is one step. Interrupts
  that come inside it are taken to come before or after it.
* An abort leaves the suspend loop at once (`RtCopy`); the code does the same at the
  next `if (sys.abort)` with nothing but returns in between.
* Read-modify-write of a flag byte without disabled interrupts (`probe.c:64`,
  `protocol.c:60`) is taken as atomic.
* Feed and rapid overrides are in `Planner`, with the program end that resets them; the
  spindle-speed override and the coolant toggle are left out.

### The serial rings

`SerialRing` is a machine of its own: it shares only the reset flag with the others.
`at` is the point of the main program in `serial_read()`, `serial_write()` or
`serial_reset_read_buffer()`, with one action per access to a buffer or an index, so
both interrupts come between any two; `byte` and `index` are the registers held across
them. Indices are single bytes, so an access to one is atomic. `udr` is the
transmit register. `isr` counts what the timer 5 interrupt has left to print; while it is
not 0 nothing else of the processor runs, which is what "interrupts disabled" means.
`Tx` and `Rx` instantiate `ByteQueue` with what lies between tail and head as the
queue, and with the transmit register or the byte about to be returned as what left it.

Two constants name conditions the code relies on and does not establish itself:

* `Trips` says when the timer 5 interrupt may print: `"any"` is the code; `"quiet"`
  keeps it out of `serial_write()` and lets it print only with room for its message. With
  `"any"` both `TxIsQueue` (the main program takes back what the interrupt stored) and
  `TripReturns` fail: `trip_in_write.cfg` and the run `isr_print`.
* `LateWriter` lets the last byte leave before its writer has executed the last three
  instructions of `serial_write()`. With it `TxArmed` fails: the interrupt is turned on
  over an empty ring. It takes the two last bytes of the ring to leave within these
  instructions; as a byte takes 87 us on the line, another interrupt would have to hold
  the processor for that long, so the runs exclude it.

`serial_get_rx_buffer_count()` is wrong by one when the ring is wrapped
(`serial.c:51`); only sleep uses it, whose count is not modelled.

### The planner

`block`, `tail`, `head`, `planned` and `prevNominal` are `block_buffer`, its indices and
`pl.previous_nominal_speed`; `exec` is what `st_prep_buffer()` keeps of the block it executes
(`loaded`: `pl_block` is set; `speed`, `exit`, `top`, `complete`: the profile; `recalc`,
`declOvr`, `partial`: the flags of `prep`), and `control` is `sys.step_control` with
the end of a hold. All of it is the main program, so one action is one call of the code
(`plan_buffer_line()`, one round of `st_prep_buffer()`, a hold, a cycle stop, ...), and the
order of calls is free where the state machine of `RtSystem` allows it.

Speeds are squared and a block's length is the change of squared speed it allows (its *room*),
so that the passes are exact in integers. A profile is a speed that moves by the room
executed; where the ramps of the code end is left to the rule that a profile ends with its
exit speed. Direction vectors appear as one number of a line, the junction limit (`corner`).
`begun` and `slowed` are history variables of properties: part of the tail block has been
executed; an override has slowed a queued junction.

### The parser

`GcodeBlock` has steps 1 to 3 of `gc_execute_line()` as operators over a sequence of words:
`Import` collects a block and finds modal conflicts, the others are the checks and
conversions in the order of the code. One word of the code is one record `[name, value]`;
`Commands` lists what each G and M word sets. Every error is the same error, since
no property depends on the status. Values are integers; `MmPerInch` is the only scale.

`Gcode` executes a block that passes: `pc` is its stage (`"speed"`, `"spindle"`, ...,
`"flow"`), and `Work` says which stages have something to do, so that the order is that of
step 4. A stage that synchronises is enabled when the queue is empty or an abort is pending
(`Synced`); while it waits every other action may come. `gc`, `eeprom`, `queue`, `ppos`,
`mpos` are `gc_state`, the coordinate records, the planned displacements, `pl.position` and
`sys_position`: a motion is queued as a displacement, because steps are what the planner
stores, and so an error in one of the positions stays. `flag` is `system_flag_wco_change()`
waiting for the queue. A record that cannot be read is `Damaged`; `Decay` damages it, and the
code replaces it by zeros. `decayed` and `homedOver` are history variables.

### The EEPROM

`eeprom` is the chip, byte by byte; an operation puts the bytes it will write into `todo`
in their order, and `PutChar` writes one. `PowerLoss` may come between any two. `pc` leads
through `settings_init()` and `ps_settings_init()` in the order of `main()`. `kept` is what
every record should hold, `torn` the records a power loss cut. The checksum is computed as
the code does it (with a logical or where a rotation is meant), modulo `Base`. One
coordinate record (G28) and one startup line stand for all; the settings are the byte of
flags, because of `$20` and `$22`, and one other.

### The spindle

`target` and `duration` are the fields of `spindle_motor` that its users write, `level`, `counter`
and `connected` those of the interrupt of timer 5. `main` and `isr` are what the main
program and the stepper interrupt have yet to do of a call, so that `set_pwm()` is two
writes and the look of `spindle_set_speed()` at the target is a step of its own;
`mc_reset()` comes between any two of them.

## 3. Properties and runs

The runs of `ProtocolSafety`:

| Run | Bounds | Events | Lines | Checks |
|---|---|---|---|---|
| `motion` | 2 blocks, 1 segment | reset, start, hold, jogCancel, spindleStop | move, moveOut, jog, unlock, spindle | `MotionVisible`, `CycleEnds`, `HoldAtRest`, `NothingLeftSuspended`, `ResumedByOperator` |
| `door` | 1, 1 | start, doorPin, timeout | move, spindle, coolant, unlock | `ParkedOff`, `CoolantRestored`, `OpenDoorStops` |
| `alarms` | 1, 1 | reset, button, probe | all but moveOut, spindle and coolant | `TypeOK`, `AlarmStill`, `LimitsArmed`, `LockKept` |
| `liveness` | 1, 1 | reset, limit, hold, door | move, unlock | `ResetServed`, `HoldCompletes`, `DoorParks` |

Passing runs explore every state; the largest has 2.7 million. Between them every
action is taken.

* `motion` - is motion always visible to the rest of the program? The steppers run only
  in a motion state, a cycle has a
  stepper interrupt that will end it, a completed hold is at rest, a finished check
  point leaves nothing half suspended, and an automatic start never resumes a stop.
* `door` - power while parked and after the restore, and that nothing starts with a
  door the debounce has reported open.
* `alarms` - what the alarm state promises, and that homing that fails anywhere re-arms
  the limit interrupt or brings a reset.
* `liveness` - no wait hangs.

The passing run of `SerialRing`:

* `serial` - rings of 2 bytes each, 2 different bytes, a message of 1 byte,
  `Trips = "quiet"`, `LateWriter = FALSE`: `TypeOK`, `TxArmed`, `RoomReported`, `RxIsQueue`,
  `TxIsQueue`, `WriteReturns`. A ring of 2 bytes has 3 places: it can be empty, partly
  filled and full with the head before, at and after the wrap. Two different bytes tell
  order and loss apart. The proofs lift these bounds; `WriteReturns` alone depends on
  TLC. It assumes that each call goes on, that the interrupts are served and that the port
  sends (`SerialRing!Fairness`), and nothing of the sender.

The passing runs of the other modules:

| Run | Bounds | Checks |
|---|---|---|
| `planner` | ring of 4 blocks (queue of 3), 3 lines of different length, rate, corner and kind, speeds up to 3, overrides of 1 or 2 in three bits | `TypeOK`, `PlannedInQueue`, `JunctionLimits`, `SpeedsReachable`, `PlanOptimal`, `ExitAgrees`, `NotBegunAgain` |
| `gcode` | 3 lines: one of 7, one of 32, one of 5; queue of 2, travel of 2, G54 to G59, one reset, record of G54 may decay | `PositionsAgree`, `SystemIsStored`, `OutputsFollowModes`, `OffsetReported`, `CheckModeStill`, `WorkPositionSet`, `LineEnds` |
| `storage` | chips erased and of versions 10, 11, 12; bytes modulo 16; 2 operations that store, 2 power losses | `InUse`, `RecordsKept`, `SoftNeedsHoming` |
| `spindle` | levels 0 to 3, speeds 0, 1 and 3, different spin-up and spin-down, 2 resets | `SpindleAsAsked`, `ResetStopsSpindle` |

* `planner` - three queued blocks are what the planned pointer needs to be before, at and after
  the tail with something behind it, and what both passes need to meet a block that is
  limited from either side; the ring wraps. `PlanOptimal` compares the plan
  with one computed from the whole queue without the pointer.
* `gcode` - the first line sets a mode or offset (incremental, G92, G55, tool
  length, inches, spindle, a jog), the second does one of the things that depend on it,
  and the third observes. Any of these meets a reset, a jog cancel, a soft limit, a probe contact,
  check mode, homing and a report at any stage. Three lines are enough because every
  property relates one line to what an earlier one left; longer
  programs repeat these states.
* `storage` - with two losses the second meets what the start after the first does. A
  chip of version 12 with a shorter parameter table makes the table grow. After both operations
  nothing is left to do, so deadlock is not checked.
* `spindle` - three levels give a fade that is interrupted half way in either direction.

**Bounds** of the `ProtocolSafety` runs. Two blocks give a block being stepped, one that waits
and a full queue; one segment gives a segment in the ring, an empty ring and a full one. The
buffers matter to the control only through "empty" and "full", and, for a segment, through the
spindle output it still carries when the program has gone on. The real sizes are 15 and 5.
Events are unbounded in number: each may come at every step. The runs differ in the events and
lines that may come together, since all at once is out of reach; each run has those its
properties turn on. Combinations no passing run has: door with limits and spindle, homing with
doors, jogs with doors.

**Fairness** (`Fairness`, used by `liveness` and `door_soft_limit` only).
`WF(MainProgram)`: the processor is not stopped, and interrupts are short.
`WF(StepSegment)`, `WF(StepDone)`, `WF(PinsDebounced)`: timers run. `SF(MotionEnds)`:
a motion has a finite length, so prep cannot go on for ever without its end.
`SF(DelayEnds)`: `delay_sec()` counts a fixed number of steps. Nothing is assumed of
the operator or the sender: no fairness of any event or line. `Gcode!Fairness`: the main
program goes on with its line, and motions that were started end (`LineEnds`).
`Spindle!Fairness`: calls are finished, the timer ticks, a motion ends, and the main program
comes to its next check point whatever it does in between (`SF`: other lines may
be executed first, but not for ever without a check point).

### Disagreements between the code and what it says

Each is a run whose counterexample TLC finds.

* `door_lost` (`protocol.c:341`). The executor acts on a copy of the flags and then
  clears hold, cancel, door and sleep in the live byte together. A door that opens while
  a hold is acted on is lost: HOLD with the door open, and the next start moves.
* `hold_in_sync` (`protocol.c:187`). A hold during `protocol_buffer_synchronize()`, while
  the last block is stepped, sets HOLD without a suspend flag: the wait ends
  with the machine still moving.
* `isr_print` (`carvin.c:141`). The over-current message is printed in the timer 5
  interrupt. With a full transmit ring `serial_write()` waits there for an interrupt
  that cannot run; a reset, which its loop checks for, cannot be received either. The
  door flag of the over-current stop is raised only after the message. The run has rings of
  1 and 2 bytes and a message of 2, which fits an empty ring, as the real one does.

The passing runs of the same properties leave out what such a disagreement needs, here and in
the first items below, and show that nothing else in them breaks the property: `door` has no
hold, `motion` no door and no probe, `alarms` no limit, and `serial` lets the interrupt print
between two writes only. The theorems of section 4 leave out just the step.

### Also seen, not stated as runs

Each of these can be reproduced: where a cfg is named, TLC finds the counterexample with it.

Executor and motion:

* `limit_survived.cfg`, `AlarmStill` (`motion_control.c:368`). A limit between the copy of a
  cycle start and its execution does not stop steppers that are not running yet; the executor
  then starts them and the critical-alarm loop waits beside a moving machine. A plain
  reset in the same window loses the position without an alarm. This is `StartMeetsReset` of
  section 4.
* `hold_in_restore.cfg`, `MotionVisible` (`protocol.c:348`). A hold in the same copy as the
  automatic start that ends a restore drops that start, and `RESTORE_COMPLETE` stays set while
  the restore runs again. A start of the operator during it then ends the door state: the machine
  is IDLE with a parking motion still stepping, which `mc_reset()` does not stop. This is
  `HoldMeetsRestored` of section 4.
* `probe_cut.cfg`, `CycleEnds` (`motion_control.c:308`). After a probe contact cancels the
  motion, `EXECUTE_HOLD` and `END_MOTION` stay set in IDLE until the next start. A start that
  comes as the cancelled motion ends (or a door, or the button) is served at the check point
  before the end of the probe cycle, whose `st_reset()` then stops the stepper in the state
  CYCLE: the next synchronisation waits until a reset. This is `ProbeCutsCycle` of section 4.
* `door_soft_limit.cfg`, `DoorParks` (`protocol.c:393`). A door during the hold a soft limit
  forces: the first parking motion's end takes the soft-limit branch, its flag is never
  cleared, and the machine waits with the spindle on and no alarm.
* A door during the hold of a soft limit and then the sleep timeout leave SLEEP with
  `sys.soft_limit` set: the next cycle stop takes the soft-limit branch (`protocol.c:393`) and
  wakes the machine without `$X`. `LockKept` is violated with the events start, doorPin, timeout and
  reset and the lines move, moveOut, unlock and spindle.
* A reset that comes after a check point has copied the flags, and before the start among them
  is served (`protocol.c:371`), switches the outputs off; the cycle starts all the same and
  moves without coolant until the next check point. `CoolantRestored` is violated. This is
  `CycleMeetsReset` of section 4.
* The spindle can stay on in a parked door stop. If the ring underruns in the fast motion to the
  parking position with a segment of the pull-out in the stepper's buffer, or if a probe contact
  has left segments and the hold flag of a cancelled motion, that motion counts as complete before
  a segment with the spindle off is loaded. `ParkedOff` is violated; these are `ParkUnderruns` and
  `LeftoverParks` of section 4.
* A start dropped with a hold leaves `protocol_buffer_synchronize()` waiting in IDLE until
  the operator starts again (`protocol.c:178`).
* A door at the end of homing leaves DOOR with the door ajar and no hold complete.
* The coolant toggle changes modes but not queued blocks, which a restore uses.
* Sleep: the character count it compares is one too low after a wrap (`serial.c:51`).

Serial rings:

* `trip_in_write.cfg`, `TxIsQueue` (`serial.c:98`). The timer 5 interrupt prints within
  `serial_write()`: the main program then stores its byte and the head it computed before, and
  what the interrupt stored is lost.

Planner:

* `planner_slow.cfg`, `SlowsInTime` (`planner.c:158`). The reverse pass skips a block whose entry
  speed is its maximum. When an override slows down the junction behind such a block, the block
  keeps an entry speed from which it cannot slow down in time; the profile then ends with a
  jump to the exit speed.
* At a feed override of 10 %, a coarse and a fine decrease in the same round wrap the `uint8_t`
  and are clamped to the maximum (`protocol.c:430-437`).

G-code:

* `jog_no_axes.cfg`, `JogNamedAxes` (`gcode.c:846`). `$J=F100` passes all checks and moves
  every axis to machine zero: a block without axis words leaves its target zero.
* The check of modal groups in a jog has a misplaced parenthesis (`gcode.c:847`): it rejects
  G20/G21 and G53, which the comment allows, and accepts G40.
* `$H` with motions in the queue leaves the positions apart (`system.c:220`); `$C` with
  motions in the queue waits in check mode until a reset.
* G10 misses a word only if both P and L are missing (`gcode.c:519`). G93 asks for F with every
  motion command, G0 included (`gcode.c:398`). A feed in inches on the line that switches
  from G93 to G94 is not converted.
* G10, G28.1 and `$RST` write the EEPROM in check mode. A line whose wait an abort ended still
  writes G10 and G28.1. A read of a damaged record zeroes it, though the line is refused.
* M2 and M30: if G54 cannot be read the accessories keep running (`gcode.c:1100`), and an M0
  and a cycle start after that put the program flow back to running; in check mode G54 is
  selected without its data being loaded.
* `$30` and `$31` stop a running spindle without the parser or `sys.spindle_speed` knowing
  (`settings.c:336`); `$100` to `$102` leave the parser's position stale.

Storage:

* With `LossInOldUpgrade = TRUE`, `RecordsKept` fails: the version byte goes to 12 before the
  checksum has moved, so a power loss while settings of version 11 are rewritten makes the
  next start restore every record (`settings.c:62`).
* A record cut by a power loss usually passes its checksum, because the rotation is a logical or
  (`eeprom.c:133`). A loss in the middle of `$RST=#` can leave G28 at zero.
* `settings_init()` restores before `ps_settings_init()` has set up the table
  (`main.c:33-35`): the header is written with a size of 0, which the second repairs in the
  same start. A chip with more parameters than the program knows gets a new size but not a new
  checksum, so that the next start finds a bad record and takes the defaults.
* The loops over the parameter table use `<=` (`ps_settings.c:118`). The second byte of a
  startup line is overwritten as if it were its checksum (`settings.c:145`).

Spindle:

* `KilledInAlarm` (`motion_control.c:360`): after a hard limit the main program may finish a
  call that sets the speed, and the spindle runs through the critical alarm; the next reset
  stops it. TLC finds it when the invariant is added to `spindle.cfg`.
* `set_pwm(0, 0)` writes the duration before the target (`carvin.c:162`): a tick in between
  takes a running fade to its old target at once.
* The change of the over-current threshold is compared with itself (`spindle_current.c:70`).

## 4. Proofs

`ProtocolProofs` proves, for every value of the constants that `ConstantsAssumption` allows,
and from nothing else:

* `TypeCorrect`: `Spec => []TypeOK`. `TypeOK` is inductive as it stands; it contains
  `Len(blocks) <= BlockMax` and `Len(segs) <= SegMax`, so it says that no path fills a
  buffer beyond its size. One lemma per action; the lemmas of the prep operators
  carry the arithmetic of the segment ring.
* `NothingSuspendedHolds`: `Spec => []NothingLeftSuspended`.
* `ResumedByOperatorHolds`: `Spec => ResumedByOperator`, an action property.

`NothingSuspendedHolds` and `ResumedByOperatorHolds` rest on the inductive invariant
`ResumeInv`, three parts of which each needs the others: `NothingLeftSuspended` (the main
program runs outside the executor with nothing suspended, or aborted, or about to enter the
suspend loop), `AbortInv` (where the program can be while an abort is pending) and
`AutoStartInv` (where an automatic start that has been copied, or is pending, can meet a
hold). Without `AutoStartInv` the automatic start could already sit in the flags when a hold
is acted on; without the first an automatic start could be raised in a suspended state.

`ProtocolMotionProofs` builds on it, again from `ConstantsAssumption` alone, with any events and
lines together: what no run of TLC can reach.

* `LimitsArmedHolds`: `Spec => []LimitsArmed`. `LimitsInv` has two parts. `CriticalInv`: a
  critical alarm comes with the reset it raised, until the critical-event loop drops it.
  `DisarmedInv`: where the program may be with the limit interrupt off (the reset loop,
  homing, or the way from an aborted homing back to the reset loop), and that no critical
  alarm is there to drop the reset which leads back.
* `CycleEndsHolds`: `Spec /\ [][~ProbeCutsCycle]_vars => []CycleEnds`. `CycleInv` adds to
  `CycleEnds` that homing, which stops the stepper itself, is never in a cycle, and that the
  loop which drops a reset is in alarm.
* `MotionVisibleHolds`, `HoldAtRestHolds`, `AlarmStillHolds` and `LockKeptHolds`:
  `Spec /\ [][Apart]_vars => ...`, from the one invariant `MotionInv`.

None of the four is inductive, nor are they together: whether an idle machine can move depends
on which cycle stops, copied or pending, are still to be acted on (`StopInv`), these on what a
hold, a cancel, sleep and a restore leave in `sys.suspend` (`HoldInv`, `JogInv`, `CancelInv`,
`SleepInv`, `RestoreInv`, `RestoredInv`), and these on what the main program is waiting for
(`ParkInv`, `SoftInv`, `SyncInv`, `HomeInv`, `LineInv`); `RestInv`, `VisibleInv` and
`AlarmInv` are the properties themselves, with what they need when a reset is pending
(`~Live`) or being served (`abort`). Each of the 15 parts was found by a step that kept the
others and broke one of them.

*What the theorems leave out.* As the code stands, `CycleEnds` and these four do not hold with
all events together: section 3 shows the counterexamples. Each comes from one step, and the
theorems are about all behaviours in which these steps do not happen. No event, line or
constant is excluded, and nothing is assumed of the order or the number of other steps, so the
theorems also say that there is no other way to violate the properties.

| Step left out | What it is | Seen in | It breaks |
|---|---|---|---|
| `HoldMeetsRestored` | `RtHolds` with a hold, and no door, in the copy of the start that ends a restore (`protocol.c:348`) | `hold_in_restore.cfg` | `MotionVisible` |
| `DoorMeetsSoftLimit` | `RtHolds` with a door while a soft limit stops the cycle (`protocol.c:393`) | `door_soft_limit.cfg` | `AlarmStill`, `HoldAtRest`, `LockKept` |
| `SyncEndsMoving` | a hold ends the wait before a probe though the machine moves (`protocol.c:187`) | run `hold_in_sync` | `AlarmStill`, `HoldAtRest`, `LockKept` |
| `StartMeetsReset` | with limit switches, a motion starts with a reset pending (`motion_control.c:368`) | `limit_survived.cfg` | `AlarmStill` |
| `ProbeCutsCycle` | the end of a probe cycle resets the stepper under a motion (`motion_control.c:308`) | `probe_cut.cfg` | `CycleEnds` |
| `DoorLost` | `RtHolds` clears a door that came after its copy (`protocol.c:341`) | run `door_lost` | `OpenDoorStops` |
| `CycleMeetsReset` | a reset between a check point and the start served there | section 3 | `CoolantRestored` |
| `ParkUnderruns` | the ring underruns in the motion to the parking position | section 3 | `ParkedOff` |
| `LeftoverParks` | that motion begins with segments of a cancelled one | section 3 | `ParkedOff` |

The first four make up `Apart`. TLC finds `[][Apart]_vars` true of `motion` and `alarms`, and
`[][~ProbeCutsCycle]_vars` of `motion`, so on their instances the theorems say what the runs
do; in `alarms`, which does not check `CycleEnds`, the button is the start that leads to
`ProbeCutsCycle`.

Three more theorems rest on `MotionInv`, each with an invariant of its own and without the
steps of `Apart` and those of its row above:

* `OpenDoorStopsHolds`: `Spec /\ [][Apart /\ ~DoorLost]_vars => OpenDoorStops`. `DoorInv` lists the
  places where an open door is known or on its way to be: behind the front button, in the debounce,
  in the flags, in the copy, in `sys.suspend`, or passed over in a state that cannot start.
* `CoolantRestoredHolds`: `Spec /\ [][Apart /\ ~CycleMeetsReset]_vars => []CoolantRestored`.
  `CoolInv` says where the coolant runs in every state and at every point of a restore, that
  every queued block was planned with the coolant of the modes (no line changes them while
  blocks are queued), and that `restore_condition` holds what the modes ask for.
* `ParkedOffHolds`: `Spec /\ [][Apart /\ ParksClean]_vars => []ParkedOff`. `ParkedInv` follows the
  spindle output through the segment ring: the last segment of the motion to the parking position
  has it off, so it is off when that motion has ended.

`SerialProofs` proves, for rings of any size and any set of bytes:

* `SerialTypeCorrect` (`Spec => []TypeOK`) and `RoomReportedHolds`, from the invariant
  `RingInv`: the types, and what the main program holds in its registers at each
  point.
* `RxIsQueueHolds`: `Spec => Rx!Spec`. The registers matter here: the place
  `serial_read()` read is still the tail when it stores the next one, and the head the
  reset loaded is still in the queue when it is stored.
* `TxArmedHolds` and `TxIsQueueHolds` (`Spec => Tx!Spec`), under `InTime`: `Trips # "any"` and
  `~LateWriter`. Their invariant `TxInv` adds `Writing`: what `serial_write()` found out about
  the ring stays true until it uses it, since only it moves the head. `TxArmed` is needed
  for the refinement: an interrupt over an empty ring would take a byte from an empty queue.

All rest on four lemmas about a ring: `StoredSeq` (its queue is as long as the indices
say), `StoredPut`, `StoredTake` and `StoredSkip` (what moving the head, or the tail, does
to it). They assume that `Bytes` is not empty and `SerialAssumption`.

`StorageProofs` proves three theorems for any contents of the chip, any number of commands and a
loss of power between any two bytes. All use `StorageAssumption` and `FlagsAssumption` (the chip
does not come with soft limits but no homing at the place of the flags; an erased byte has both),
the last two also `TableAssumption` (it does not come with more parameters than the program's
table has: section 3 says what happens then).

`SoftNeedsHomingHolds`: a statement about the settings in use is not inductive: the next start
reads them from the chip, and what the chip holds then depends on how far the last write came.
`FlagsInv` therefore says the same of the stored byte, of the settings in use and of every
byte that is still to be written; `RecordWrites` shows that only the first byte of the
settings reaches that place. The addresses and the sizes of the records are those of the
model.

`InUseHolds` compares what is in use with the chip as it *will* be: `After` is the chip once the
pending bytes are written (`Final`: of several to one address, the last counts). `UseInv` says that
the copies in RAM are what a start would read from `After`, whose settings are readable from
the moment they are in use. Since the property is about a finished operation, `After` is then the
chip itself; and a loss of power, which drops the pending bytes, is followed by a start.

`RecordsKeptHolds` assumes `~LossInOldUpgrade`: with it `RecordsKept` fails (section 3). `KeptInv`
says of `After` that every record no loss has cut reads as it should, or that the settings are
unreadable and everything is restored. A loss leaves some of the pending bytes written. They
all belong to one record, or to the conversion from version 10, which writes what is there already
(`Repeats`) or is protected by the assumption.

`SpindleProofs` proves `SpindleAsAskedHolds`, from nothing but the definitions (not even
`SpindleAssumption`). `SpindleInv` describes what is left of a call: `CallFor(v, todo)` are
the rests of a call that leads to the speed `v`, and the main program or the stepper interrupt
is in such a call for the speed asked for last, but never both. `InInit` says why a start is
clean: the duration 0 and the target 0 are both written before the next tick, unless a reset
comes.

`GcodeProofs` proves, for lines of any words and any length, any records, any travel, any
queue and any number of resets, from `GcodeAssumption` and `BlockAssumption` (six coordinate
systems at least, as G54 to G59 select one each):

* `OffsetReportedHolds` and `OutputsFollowModesHolds`, from `GcodeInv`: the fields of `gc_state`
  (`RecordsInv`), that a write never damages the record of G54 (`SlotsInv`), and the two properties
  at every stage of a line, with what holds during an abort (`ReportInv`, `OutputInv`).
* `SystemIsStoredHolds`. `SystemInv` says it within a line too, and that a line which selects
  a system has read it and finds the record unchanged when it comes to that stage.
* `PositionsAgreeHolds`. `PlaceInv` says that the queued motions lead from where the machine
  is to where the planner ends, that is where the parser believes the machine to be, but in
  the stages that are on their way there. "Lead" is a path of positions (`Leads`), one motion
  between each two, so that a block is added at one end and executed at the other without a
  sum.
* `CheckModeStillHolds`, an action property, from `ModeInv`: a jog is never executed in check mode.
* `WorkPositionSetHolds`, an action property. `FormInv` says that a G92 or G10 block, computed
  when its line was checked, is still what the position, the offsets and the record ask for
  when the stages before have been executed: none of them changes what it was computed from,
  but the selection of the system, which it was computed for.

The invariant of the last four, `ParserInv`, needs two facts that no step of the machine
shows. What importing a line leaves in the block (`BlockInv`: a changed system comes with a
word of its group, a G10 or G92 that is not refused owns the axis words) holds for lines of
any length. `Import` folds over the words; `ImportKeeps` follows the fold over the sets of
positions read so far, by the absence of a least counterexample. And the stages come in the
order of the code (`NextStage`, `LaterStage`): `Begin` chooses the least one with work, and
that there is one is lemma `Least`.

`PlannerProofs` proves, for rings of any size, any lines and any bounds and increments of the
overrides, `PlannerTypeCorrect`, `PlannedInQueueHolds`, `JunctionLimitsHolds`, `ExitAgreesHolds` and
`NotBegunAgainHolds`, from `PlannerAssumption` (which asks that the set of lines be finite). One
invariant, `PlannerInv`, serves them all:

* `Types` and `PlannedInQueue`: with them the passes of `planner_recalculate()` touch queued
  blocks only. `RecalculateIs` says what both passes, which are recursive functions over the
  places of the ring, compute at every place: a function `rev` for the reverse pass and
  equations for the forward pass (`Passes`). It is proved by induction over the places, as the
  absence of a least counterexample in a set (`InductUpTo`).
* `Limits`: the maximum of every junction is the one of the overrides in force *now*, although it is
  computed when a block is planned and again by an override, and `pl.previous_nominal_speed`
  is that of the last block.
* `QueueUsed`, `BegunKnown`: what `prep` executes, recomputes or remembers is a queued block, and a
  block that was begun is always one of them. `NotBegunAgain` needs them through parking.
* `ProfileFits`, `AtStop`: a profile ends within its block, and a motion that ended is at
  speed 0, so the speed a later profile begins with is the one `ExitAgrees` compares.

`PlannerSpeedProofs` proves `SpeedsReachableHolds` and `CanStopHolds`. `SpeedInv` says that
every junction can be reached by speeding up (`SpeedsUp`), and be left by slowing down unless
an override slowed a queued junction (`SlowsDown`), also at the tail, whose speed is that of
the profile (`TailSpeeds`, `ProfileSpeeds`) or of the end of the last block (`BetweenBlocks`).
`CanStop` is what remains of it where `slowed` is true and the plan can not be followed
(`SlowsInTime` in section 3): there are speeds at the junctions, not below the planned ones,
from which the machine stops within the queue. It must be kept through the slowed plans,
because the reverse pass repairs only the junctions it visits. It has no run: it asks for a
function of speeds, which TLC would have to enumerate.

`PlanOptimalHolds` is in the same module. The property compares the plan with one computed
from the whole queue by two recursive functions; `BestInv` replaces them by what characterises
their result (`OptimumIsBest`): there are speeds `k`, the highest from which the machine can
slow down through the rest of the queue (`Backs`), and every planned speed is the lower of `k`
and what the block before allows. The proof is about the planned pointer. `Sealed` says why
nothing before it can improve: the block it points at is at its maximum, or limited from the
front. When a block is appended, `k` only grows, and by no more than a sealed block can use.

Every invariant and every action property that a passing run checks is stated by a theorem. Left
to TLC: liveness under fairness (`ResetServed`, `HoldCompletes`, `DoorParks`, `WriteReturns`,
`LineEnds`, `ResetStopsSpindle`, and `TripReturns`, which fails), which is out of the prover's
reach, as is ENABLED.

## 5. Plan

Models to come: the segment ring with `st_prep_block` saved around parking
as queues; the accessory overrides; an abstract door specification; locate cycles of
homing.

**Not modelled**, and not planned: splitting a line into words and reading numbers (sequential code
on text and floats), points of an arc, the text of reports, LED fades, the driver chips'
SPI words, the filter of the spindle current, the timer count of sleep, examples and binaries. The
status of each component in `PROJECT.json` says which of its parts these are.
