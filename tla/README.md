# The pedal sensor in TLA+

EUPedalSensor is the firmware of a bicycle pedal sensor: an nRF52832 with the
S132 SoftDevice counts the steps of a quadrature encoder, tells a wheel about
them over the Nordic UART Service (NUS), watches its battery, shows its level on
two LEDs, and keeps records in flash behind a serial command line. Everything
below refers to files of `src/PedalSensorServer/`.

## 1. The system

### Who runs when

| Context | Runs | Preempted by |
| --- | --- | --- |
| main program | `main`: initialisation, then an endless loop that ends in `sd_app_evt_wait` | everything |
| application interrupts, all of priority 7 (`sdk_config.h`) | QDEC reports, SAADC results, `app_timer` (1 s tick, two LED timers, connection parameters, buttons) | BLE events |
| BLE and FDS events (`NRF_SDH_DISPATCH_MODEL 0`) | `ble_evt_handler`, `on_adv_evt`, `nus_data_handler`, `fds_evt_handler` | the SoftDevice itself |

So two application handlers never overlap, a handler is one step for the main
loop, and several steps for a BLE event. There are no locks anywhere: the
correctness of every shared variable rests on this table.

### Components

| Component | State it keeps | Operations | Meets |
| --- | --- | --- | --- |
| window of positions (`winbuf.c`, `posbuf.c`) | ring of ten reports, index, running `int16_t` sum | `posbuf_init`, `posbuf_add` | called by the report handler |
| report handler (`qdecmain.c`) | last report, `pedaling_count` (`uint8_t`), `qdec_event`, `qdec_report_count` | `qdec_event_handler`; getters, resets | main loop reads and resets the counts, LED driver asks `KeepOnPedaling`, link sends the report |
| main loop (`main.c:819-872`) | `general_tick_timeout_pending`, `duration_no_qdec_event` | log once a second, measure idleness, command line, sleep | all interrupts |
| LED driver (`low_power_pwm.c`) | per LED: driver state, period, duty cycle, phase, pin | init, start, stop, duty_set, timeout handler | `app_timer`; settings stored into it by the indicator |
| indicator and power (`indicator.c`, `sadcmain.c`) | level, level of the last pattern | `indicator_init`, `SetIndicator`, `indicator_stop`, `PowerManage` | SAADC interrupt, LED driver, system-off |
| battery measurement (`sadcmain.c`) | sample buffers, average | `saadc_callback` | gives the reading to the indicator |
| record command line (`cli.c`, `climain.c`) | two static buffers, `m_delete_all`, `m_fds_initialized` | write, update, delete, delete_all, gc | FDS, which works later and calls back |
| packet parser (`nrfparsr.c`) | state, index, length, bytes so far, `g_enable_notify` | `NRFPacketParser`, `NRFCommandParser` | bytes from the link, replies to it |
| radio link (`main.c`) | `g_connected`, `m_conn_handle`, advertising | BLE events, connection parameters, buttons, `nrfsendbytes` | SoftDevice, client |
| start-up (`main.c:781-816`, `cli_main`, `saadc_main`, `qdec_main`) | how far initialisation is, `m_fds_initialized`, `sn`, the advertising data | two dozen calls in a fixed order, several of which enable an interrupt | every handler; FDS, for whose event it waits; the record in flash |
| parameter storage (`nvram.c`) | named elements in RAM, a flash page | `nvram_init`, `nvram_write`, `nvram_prog` | start-up calls `nvram_init`; the rest comes from the console |
| DOS commands (`doscmd.c`) | the line typed so far | `DOSCommandParser` | the UART; storage and simulator |
| encoder simulator (`qenc.c`) | state, place in its decay table, timer | start, stop, timer handler | the console; reports like the QDEC's |
| armRF (`armRF.c`) | a packet | none is called by the program | - |

The console (`doscmd.c`) with what hangs on it is compiled but not reached in
this build: `uart_init` is commented out (`main.c:789`). Only `nvram_init` runs.

### What is hard, and what makes each part right

* **Interleaving of the loop with interrupts.** Flags are tested, used and
  cleared by separate statements. Right means: no report is counted twice, no
  tick goes unserved, the sensor is never taken for idle while it turns.
* **State kept by differences.** The window's sum is right only if every
  eviction ever was; `pedaling_count` wraps.
* **Settings changed under a running timer.** An LED's next phase is computed
  from values that another step may have changed half; right means that no
  phase is refused or endless, and that the LEDs show the level.
* **Calls that only queue.** FDS reads its data after the command has returned;
  `app_timer_stop` is queued while its timeout is due.
* **A link that breaks anywhere.** Packets cut into writes, connections lost in
  the middle of a packet or between the test of `g_connected` and the use of
  the handle, two disconnections at once.
* **Resets.** Queued flash operations and a half-done update are met by the next
  start, whose memory is new.
* **The order of the start.** Interrupts come as soon as the call that enables
  them returns; nothing but the order of the calls keeps a handler from what is
  not initialised yet, and an event of FDS from being missed.

`PROJECT.json` lists each of these at its line under "hazards".

## 2. Modules

`PedalTravel <- PosWindow <- PedalMain`, `LowPowerPwm <- Indicator` and
`NvRam, EncoderSim <- DosCommand` are the compositions; `PedalTravel`,
`RecordStore` and `LinkService` are abstract specifications that `PosWindow`,
`FdsCli` and `NusLink` implement. Each `MC*` module extends the module it checks and adds only
what the configuration cannot say; each `*_proofs` module extends the module it
proves about.

| Module | Models | How state and actions correspond |
| --- | --- | --- |
| `PedalTravel` | the promise of the window | `travel[i]` is the movement over the last `i` reports; the position is `travel[WinSize]` |
| `PosWindow` | `winbuf.c`, `posbuf.c` | `buf`, `index`, `sum` as in C; `posbuf_add` one step; `travel` is a history variable and the refinement mapping takes `sum` for the position |
| `PedalMain` | `qdecmain.c`, loop and tick of `main.c` | extends `PosWindow`: the report interrupt is its `posbuf_add` and the counters; `pc` is the statement of the loop; one action per statement that touches shared state |
| `LowPowerPwm` | `low_power_pwm.c` | `pwm[c]` is the instance with its pin, `timer[c]` the `app_timer` with queued stops; `NextSlope` is the handler's body, a function of the instance, used by the timeout and by start |
| `Indicator` | `indicator.c`, power management | extends `LowPowerPwm`; start-up is one step per store because the LED timers are already running, the SAADC callback is one step. `off` says what has turned the device off: `PowerManage`, or the button's `sleep_mode_enter`, which leaves LEDs and timers as they are |
| `SaadcAverage` | the filter of `saadc_callback` | one step per sample |
| `RecordStore` | the promise of the record commands | `asked` holds the accepted operations with their own data; each is carried out whole and in order, a reset forgets those that were not |
| `FdsCli` | `cli.c`, `climain.c` | `at` is the next call of the main loop into FDS; `queue` is the FDS queue and holds, like the code, which buffer to read and not the data; a reset keeps the flash only. The refinement mapping reads a queued operation with the data it was asked to store |
| `Startup` | `main` up to its loop, with the calls of `cli_main`, `saadc_main` and `qdec_main` in place | `Order` lists the calls, `at` is the next; `Enables` and `Uses` say which call enables which handler and what each needs, `early` collects what was used before it was there, as pairs of user and used; what SDK calls need of each other is external |
| `NvRam` | `nvram.c` | `nvram` and `page` by element; the erase and each round of `nvram_prog` are a step, so that power may fail between them |
| `EncoderSim` | `qenc.c` | `ss`, `factor_index`, `start_sim` as in C; of a factor, on which side of 0.1 and 0.98 it lies |
| `DosCommand` | `doscmd.c`, `uart_event_handle` | `aReceBuf` is the line; a character is a whole piece of text, a space or a control character; a line is run in the step of its CR |
| `LinkService` | the promise of the radio side to its clients | a command is `asked` and obeyed as sent; `swallow` says how many a torn packet of an earlier connection may still cost; `due` is a report to notify, `enabled` a setting that outlives the connection; `plan` is what a button or a failed negotiation has started, and whether the connection has overtaken it; once a client has sent anything else (`breached`) nothing is promised until the next power-up |
| `NusLink` | `nrfparsr.c`, the radio part of `main.c` | `parser` holds the static variables, `stream` the client's packet with the bytes written and taken; `handler` is the interrupt handler that BLE events may split, with its next statement: the three calls of `sleep_mode_enter`, the read of `m_conn_handle` and the disconnection with it, the test and the restart of advertising are steps of their own, and none asks for more than the code does. Clients may send any bytes. The refinement mapping counts the packets of the connection for `swallow` and reads `due` off the handler's place |

Variables named `seen`, `blink`, `reused`, `travel`, `early`, `found`, `cut`, `stopping`, and
the fields `asked` of a record, `total` of `stream` and `link` of `handler`, are history: no action's guard or other effect depends on them, except
that bounds on the length of a run count in `seen`. Operators that carry a
comment beginning "Fault" are wrong variants of the one below them, used by no
action; `PROJECT.json` names the property that each would break.

External parts are modelled from their use: FDS (a bounded queue, operations
that end in order, refusals, timeouts), `app_timer` (single shot, queued stop, a
late timeout), the SoftDevice (one link, a bounded queue of notifications,
advertising that times out, errors of a second disconnection), `ble_conn_params`
and `bsp_btn_ble`, which raise an event only if there is a connection to give up
or to close, or none (`Raise`; whether it still holds when the handler gets to
act is another matter), and the client.

## 3. Runs

| Run | Question | Bounds, and why they are enough |
| --- | --- | --- |
| `pedal_main` | loop against interrupts; is the sum the travel of the window, does the ring implement it | a ring of three, the smallest with a slot that is neither newest nor oldest; five reports, so that the ring wraps and `pedaling_count`, cut to 2 bits, does too; two ticks, which may fall into one turn of the loop |
| `low_power_pwm` | the driver under any use | one instance (instances share nothing), a 2 s period and a very short one, duty cycles at both ends. Complete state space |
| `indicator` | LEDs and level together | the real periods and duty cycles, readings on both sides of each threshold, a button at any moment. Complete state space |
| `fds_cli` | commands against FDS and resets; do they implement `RecordStore` until a buffer is reused | a queue of two, room for four records, three commands and a reset: enough to fill the queue, to reuse a buffer, to delete what is being updated, and to cut an update |
| `saadc_average` | the filter | seven samples as in the code, of four values: two neighbours, a spike, a negative one |
| `nus_link` | parser, link and notifications; does the link implement `LinkService` | two connections of two packets; a packet holds six bytes behind its length, so a torn one swallows more than the next and the following one must be found; a packet of length 0 among them. 1.6 million states |
| `startup` | what is used too early, is FDS's event ever missed, which serial number is advertised | the real order of calls, two serial numbers or none, any number of resets. Complete state space |
| `console` | lines, stray characters, power failures, the simulator's timer | a line of each kind of command, one with a space too many, one without its words, one that does not fit; three elements; a table of 14 with margins of 5, for 110 and 10 in `qenc.c` (the handler walks it one by one, so that its length only repeats steps; the proofs hold for every length). Complete state space |
| `pwm_full`, `delete_all`, `static_buffer`, `only_disconnects` | four statements of the source that the code does not keep | as above |

`saadc_average` stops by itself after its last step and is checked without
deadlock; every other run is checked with it. In particular the loop never
hangs and the link never ends in a state that nothing leaves.

### Fairness

* `PedalMain`: weak fairness of the loop. It is endless and interrupts are rare
  compared with its statements. It sleeps until an interrupt, so liveness rests
  on the wake-up flag and not on fairness of interrupts; nothing says that the
  pedals turn.
* `LowPowerPwm`, `Indicator`: weak fairness of each running timer (the RTC) and, in
  `Indicator`, of the start-up code. Nothing is assumed of the rider or the battery.
* `FdsCli`: weak fairness of the loop, which any interrupt wakes; strong
  fairness of FDS's own steps (`Fds`), since FDS retries and not every operation
  times out. Initialisation may fail, so it has none, and resets have none.
* `Startup`: weak fairness of `main`, which runs whenever no handler does, and of
  `fds_evt_handler`: FDS reports the end of its initialisation, good or bad.
* `DosCommand`: weak fairness of `nvram_prog`, a bounded loop; strong fairness of
  `Tick`, since a timer interrupt that `nvram_prog` delays stays pending and is
  served afterwards. None of the user.
* `NusLink` has no liveness property and no fairness; `AlwaysFindable` says by an
  invariant that advertising is never off while nobody is connected.

### What the violated runs show

1. `pwm_full`: `low_power_pwm.h:195` promises that 255 is always on; the driver
   compares with 256, which the `uint8_t` argument cannot be. (The indicator
   stores into the instance directly and is not affected.)
2. `delete_all`: `climain.c:179`; `pending` is never set, deletions of one record
   fill the queue, and the command gives up with records left.
3. `static_buffer`: `cli.c:518`; two quick writes, and the first record gets the
   second one's data. `RecordIsAsked` shows that this needs a reused buffer, and
   `ImplementsStore` that without one the commands keep their promise.
4. `only_disconnects`: `main.c:271`; a failed negotiation while the button's
   disconnection is under way stops the device. `StopsOnlyInARace` shows that
   among the handlers for buttons, failed negotiations and GATT timeouts nothing
   but such a race does: the connection is being closed already, or has come or
   gone since the event. The other checks of `main.c` that stop the device
   (`main.c:195`, 295, 414-427 and those of calls that fail) are not modelled.

Seen while modelling, without a sentence in the source that says otherwise:

* The encoder reports only while its position changes (`qdecmain.c:153`). If the
  last report leaves `pedaling_count` above ten it stays there, and both LEDs stay
  dark while the pedals stand still (`low_power_pwm.c:59`), until the next ride.
* The page that `nvram_prog` erases (`nvram.c`, 0x7f000) is the last of flash, where
  FDS keeps its pages by default.
* `sleep_mode_enter` (`main.c:326`) turns the device off without `indicator_stop`: an
  LED that is lit stays lit. `OffIsDark` speaks of the other way off only, the one
  of `PowerManage`.
* `sleep_mode_enter` does not ask for the connection either. A client that connects
  between the button's event and `sd_power_system_off` is cut off;
  `ImplementsService` says no more than that nobody was connected when the button
  was pressed.
* A rider who goes on pedalling clears the flag of pedalling for eleven of every 256
  reports (`qdecmain.c:174`), and may see a light then. `PedalingDarkens` speaks of a
  flag that stays set.
* A packet of length 0 is executed with its command byte and 255 bytes of data, and
  `NRFSendReplyPacket` copies them into 32 bytes (`nrfparsr.c:43-49`, 101, 111). In
  `NusLink` the device may stop then. `nrfpf.h` does not say that a length may be 0:
  `ReplyFits` shows that no well-formed packets come to it, not even where the length
  of a torn packet is a byte of the next client.
* From `buttons_leds_init` (`main.c:797`) on a button may ask for advertising without
  whitelist (`main.c:525-533`), with an `m_advertising` that `advertising_init` fills
  in only at `main.c:808`. It is the one exception that `NothingElseTooEarly` names.
* A `start` while the simulator fades out is lost, its first and last reports are
  unscaled, and its table is computed with pi as 3.415926 (`qenc.c:92`).
* Comments at `main.c:542-546` and `doscmd.c:206` describe another program.

## 4. Proofs

TLAPS proves the following for every value of the constants that satisfies the
modules' named assumptions. Each module follows one pattern: an inductive
invariant, initial states, one step per action, and corollaries.

* **`PedalMain_proofs`**. `WindowInv` says that slot `k` is the difference of two
  consecutive travels, by its age. `SumIsTravel` alone is not inductive: what is
  evicted must be known, and that is `RingHoldsReports`. `TravelBounded` with
  `WindowAssumption` (a window fits the word) keeps the `int16_t` exact.
  From it follow the types, the sum, and the refinement of `PedalTravel`.
  `PedalInv` adds to `WindowInv` that a counter above the streak means a long
  streak (the wrap only lowers it) and, for the loop, what a tick or report that
  arrives at each statement leaves to be done (`pc = "log"` means a pending tick,
  `pc = "taken"` a reset idle time). Six results follow, one of them an action
  property. `NeverSleepsOnWork` comes on top: a tick or report that falls behind
  the test for it has left the wake-up flag set, so that the loop does not sleep
  on it (`NoLostWakeup`).
* **`LowPowerPwm_proofs`**. `PwmInv` ties timers to driver states, because
  legality of a phase is claimed for running timers and darkness for stopped
  ones. The arithmetic of a phase is one lemma over all periods and duty cycles.
  `BlinkTakesPeriod` needs to know of a running on-phase that it is exactly that of
  the present settings, which late timeouts and restarts have to keep.
* **`Indicator_proofs`**. `IndicatorInv` contains the driver's `PwmInv` for both
  LEDs and says, for every store of `indicator_init`, which settings are already
  those of the level. A phase may be computed between two of them: it is legal
  because the driver's lemma covers every duty cycle with every period.
  `LevelIsShown` and `OffIsDark` (after `PowerManage`'s way off) follow. `NeverStuck` adds that an LED once
  started has its timer running while there is power, and that a light is always
  in a phase that ends it: a stop, a late timeout and a new pattern keep that,
  since none of the patterns is one of 100%. From the same lemma about the
  handler (`SlopeLight`) no step lights an LED while the flag of pedalling is set.
* **`FdsCli_proofs`**. `FdsInv` adds to the types where a queued operation finds its
  data (`QueueFindsBuffer`), that the next call finds its own
  (`CallFindsBuffer`), and what a half-done update has written (`HalfDone`):
  without the last, neither `ConfigSurvives` nor the step from flagging the old
  record to `RecordStore`'s `Remove` can be shown. The refinement is proved step by
  step: each action of `FdsCli` is a step of `RecordStore` or none.
* **`SaadcAverage_proofs`**. `AverageInv` describes minimum, maximum and sum after
  each sample relative to the two extremes among the steady samples.
* **`NusLink_proofs`**. Clients may send anything: the types, what the firmware
  believes of its connection (`LinkKnown`, `HandlerKnows`), `AlwaysFindable` and
  `NotifyStops` hold for any bytes. What is said of commands, replies and torn packets
  holds as long as all packets since power-up were `WellFormed` (`seen.formed`): the
  format of `nrfpf.h`, with the first head byte nowhere else. `LinkInv` further says
  where the parser may be in a packet after a torn one
  (`ParserPlace`) and where it must be on a clean connection (`CleanPlace`).
  `CommandsAsSent` is not inductive without the last two, `NotifyStops` (a
  conjunct of `LinkInv`) not without the knowledge that a late notification has
  left its handler. `Resyncs` rests on `TornEnds`: the bytes that a torn packet
  still wants, with those the client has sent, never exceed the longest packet,
  since a later head is either a true one or the very first of the connection.
  `ReplyFits` rests on the length of what the parser takes for a packet: behind a torn
  head it is the first head byte of the next packet, which is clamped, and never 0.
  `LinkImplementsService` adds `Taking` (nothing happens between the bytes of a
  write) and `FewLost` (a parser that is not in step has had few packets of this
  connection), which keeps `swallow`, mapped to what remains of `MaxLost`, from
  going below zero; then each action of `NusLink` is a step of `LinkService` or
  none. Bytes of a write are steps that the service does not see, but for the last
  of a packet.
* **`Startup_proofs`**. Two lemmas say that no call comes before one it uses and
  that no handler is enabled before what it uses, but for the button and
  advertising; with "the calls done are a prefix of the order"
  `NothingElseTooEarly` follows, whenever interrupts come.
  `AdvertisesItsSerial` needs that the record cannot change before the loop.
  `NoMissedEvent` (`EventIsHeard`) says that while `main` waits for FDS its event
  is still to come or has been heard: the handler is registered first.
* **`DosCommand_proofs`**. `ConsoleInv`: types, the page complete up to the element
  written next, and the simulator's index with the margin that ends its way in
  either direction.
  `StopsInTime` bounds the life of the simulator after `stop` by the ticks it has
  had and those its place in the table still wants (`TicksLeft`), which every tick
  lowers by one, and never raises unless `start` comes.

Assumptions used: the named assumptions on the constants in `PosWindow`,
`PedalMain`, `LowPowerPwm`, `Indicator`, `FdsCli`, `SaadcAverage`, `NusLink`,
`Startup`, `NvRam`, `EncoderSim` and `DosCommand`. TLC evaluates each of them on the
runs' values. Every type invariant is a conjunct of its module's inductive
invariant, which the run checks as a whole.

Only model-checked: all liveness, which needs fairness and ENABLED and is beyond
TLAPS here. What the code itself contributes to it is proved as safety, and the
rest is only that the loop, the timers and FDS go on:

| Liveness (TLC) | The safety behind it (TLAPS) |
| --- | --- |
| `TickServed`, `ReportNoticed` | `NoLostWakeup`: the loop never sleeps on work |
| `LedsBlink` | `NoLedIsStuck`: timers run, lights have an end |
| `PedalingDarkens` | `NoLightWhilePedaling`: no LED is switched on while the flag is set |
| `ComesUp` | `EventIsHeard`: the event of FDS is not missed |
| `SimStops` | `StopIsHeard`: at most `MaxFade` ticks after `stop` |
| `DeleteAllEnds` | none: it rests on the strong fairness of FDS |

Every safety invariant and every action property of the passing runs is proved,
and so are the three refinements. `LightsOnlyAtRest` is proved only; the runs
check the other theorems' statements, most of them as conjuncts of the
inductive invariants.

## 5. Not modelled

* `armRF.c`, which has no caller, and `lppwm_led_test`, `demo`, `posbuf_test`.
* `sdk_config.h` (constants only, 12192 of the 17139 lines counted as
  implementation) and the vendor's start-up code: the map covers a small share
  of the total for that reason, although most of the program's own functions
  that change state are modelled.
* Values written and never read (`m_pos`, `m_accdblread`, `m_report_ready_flag`),
  log texts, the battery level that is only logged, RSSI.
* Commands that only print, of both command lines; `FindFSData`, whose source is
  not in the tree. The configuration record that `cli_main` handled at start-up is
  compiled out (`climain.c:272-314`), as is reading the parameter page back.
* The length of words at the DOS console (buffers of 47 and 15 characters), and
  the reports of the simulator as input of `PosWindow`.
* The order in which a sample buffer is given back and read (`sadcmain.c:179`):
  only real time keeps the converter from it.
* PHY, security and system attribute requests: replies without state.
* What a reply to a length of 0 overwrites: the device goes on or stops. Clients may
  send such packets, and data bytes equal to the first head byte, after which the
  time to resynchronise has no bound; nothing but the invariants named in section 4
  is claimed then.
* What `BSP_INDICATE_IDLE` does to the LEDs of the board, whose file is not in the
  tree.
* SDK, SoftDevice, images: external.

## 6. Plan

Done, in the order of importance: the measuring core (`PosWindow`, `PedalMain`),
the LEDs (`LowPowerPwm`, `Indicator`), flash records with resets (`FdsCli`,
`RecordStore`), the filter, the radio link, start-up, the console (`NvRam`,
`EncoderSim`, `DosCommand`); proofs of all their safety properties.

What remains worth doing:

1. A composition of `PedalMain` with `Indicator` through `KeepOnPedaling`, with an
   encoder that reports only while it moves (see the first observation above).
2. The simulator's reports as a second source of `posbuf_add`, whose handler has
   the QDEC handler's priority.
3. A measure that `delete_all` lowers with every round, as the safety behind
   `DeleteAllEnds`.
