--------------------------- MODULE Startup_proofs ---------------------------
(***************************************************************************)
(* The order of main's calls suffices for every handler, and the sensor    *)
(* advertises the serial number it started with, for every set of serial   *)
(* numbers and any number of starts.                                       *)
(***************************************************************************)
EXTENDS Startup, TLAPS

\* The calls before number i.
Before(i) == {Order[j] : j \in 1..i - 1}

LEMMA LengthOfOrder == Len(Order) = 23 /\ DOMAIN Order = 1..23
  BY DEF Order, Calls

\* No call stands twice in the order.
LEMMA Places ==
  /\ Order[1] = "ble_stack_init" /\ Order[2] = "timers_init"
  /\ Order[3] = "general_timer_create" /\ Order[4] = "cli_init"
  /\ Order[5] = "fds_register" /\ Order[6] = "fds_init"
  /\ Order[7] = "wait_for_fds_ready" /\ Order[8] = "sn_init" /\ Order[9] = "cli_start"
  /\ Order[10] = "buttons_leds_init" /\ Order[11] = "power_management_init"
  /\ Order[12] = "nvram_init" /\ Order[13] = "indicator_init"
  /\ Order[14] = "saadc_init" /\ Order[15] = "saadc_sampling_event_enable"
  /\ Order[16] = "gap_params_init" /\ Order[17] = "gatt_init"
  /\ Order[18] = "services_init" /\ Order[19] = "advertising_init"
  /\ Order[20] = "conn_params_init" /\ Order[21] = "advertising_start"
  /\ Order[22] = "posbuf_init" /\ Order[23] = "nrf_drv_qdec_enable"
  BY DEF Order, Calls

\* Every call comes after those it uses.
LEMMA CallsAreInOrder ==
  ASSUME NEW i \in 1..23, NEW j \in 1..23, Uses(Order[i], Order[j])
  PROVE  j < i
  BY Places, SMTT(60) DEF Uses

\* By the end of the call that enables a handler, all that it uses is done, but
\* for the advertising that a button may ask for.
LEMMA HandlersAreInOrder ==
  ASSUME NEW i \in 1..23, NEW h \in Handlers, Enables(Order[i], h),
         NEW j \in 1..23, Uses(h, Order[j]), <<h, Order[j]>> \notin TooEarly
  PROVE  j <= i
<1>1. \/ h = "bsp_event_handler" /\ i = 10
      \/ h = "pwm_timeout_handler" /\ i = 13
      \/ h = "saadc_callback" /\ i = 15
      \/ h = "ble_evt_handler" /\ i = 21
      \/ h = "qdec_event_handler" /\ i = 23
  BY Places, SMTT(60) DEF Enables
<1>2. CASE h = "bsp_event_handler"
  <2>1. Order[j] \in {"ble_stack_init", "buttons_leds_init"}
    BY <1>2 DEF Uses, TooEarly
  <2> QED BY <1>1, <1>2, <2>1, Places, SMTT(60)
<1>3. CASE h = "pwm_timeout_handler"
  <2>1. Order[j] = "timers_init"
    BY <1>3 DEF Uses
  <2> QED BY <1>1, <1>3, <2>1, Places, SMTT(60)
<1>4. CASE h = "saadc_callback"
  <2>1. Order[j] \in {"ble_stack_init", "indicator_init", "saadc_init"}
    BY <1>4 DEF Uses
  <2> QED BY <1>1, <1>4, <2>1, Places, SMTT(60)
<1>5. CASE h = "ble_evt_handler"
  <2>1. Order[j] \in {"buttons_leds_init", "gatt_init", "services_init",
                      "advertising_init", "conn_params_init"}
    BY <1>5 DEF Uses
  <2> QED BY <1>1, <1>5, <2>1, Places, SMTT(60)
<1>6. CASE h = "qdec_event_handler"
  <2>1. Order[j] \in {"posbuf_init", "services_init"}
    BY <1>6 DEF Uses
  <2> QED BY <1>1, <1>6, <2>1, Places, SMTT(60)
<1> QED BY <1>2, <1>3, <1>4, <1>5, <1>6 DEF Handlers

-----------------------------------------------------------------------------
\* Whatever is enabled after the first calls of the order finds what it uses.
LEMMA InOrder ==
  ASSUME at \in 1..24, initialised = Before(at)
  PROVE  /\ \A i \in 1..23 : at = i => Missing(Order[i]) = {}
         /\ \A h \in Handlers : (\E x \in initialised : Enables(x, h)) =>
              \A y \in Missing(h) : <<h, y>> \in TooEarly
<1>1. ASSUME NEW i \in 1..23, at = i
      PROVE  Missing(Order[i]) = {}
  <2>1. ASSUME NEW j \in 1..23, Uses(Order[i], Order[j])
        PROVE  Order[j] \in initialised
    <3>1. j < i
      BY <2>1, CallsAreInOrder
    <3>2. j \in 1..at - 1
      BY <3>1, <1>1
    <3> QED BY <3>2 DEF Before
  <2> QED BY <2>1, LengthOfOrder DEF Missing
<1>2. ASSUME NEW h \in Handlers, NEW x \in initialised, Enables(x, h), NEW y \in Missing(h)
      PROVE  <<h, y>> \in TooEarly
  <2>1. PICK i \in 1..at - 1 : x = Order[i]
    BY DEF Before
  <2>2. i \in 1..23
    OBVIOUS
  <2>3. PICK j \in 1..23 : y = Order[j] /\ Uses(h, Order[j]) /\ Order[j] \notin initialised
    BY LengthOfOrder DEF Missing
  <2>4. SUFFICES ASSUME <<h, Order[j]>> \notin TooEarly PROVE FALSE
    BY <2>3
  <2>5. j <= i
    BY <1>2, <2>1, <2>2, <2>3, <2>4, HandlersAreInOrder
  <2>6. j \in 1..at - 1
    BY <2>5
  <2> QED BY <2>3, <2>6 DEF Before
<1> QED BY <1>1, <1>2

\* Which calls are done when main is at number i.
LEMMA DoneByThen ==
  ASSUME at \in 1..24, initialised = Before(at)
  PROVE  /\ "sn_init" \in initialised <=> at > 8
         /\ "advertising_init" \in initialised <=> at > 19
         /\ "advertising_start" \in initialised <=> at > 21
  BY Places, SMTT(60) DEF Before

\* Advertising starts after its data is set.
LEMMA InvAdvertises == StartupCore => AdvertisesItsSerial
<1> SUFFICES ASSUME StartupCore PROVE AdvertisesItsSerial
  OBVIOUS
<1>1. at \in 1..24 /\ initialised = Before(at)
  BY LengthOfOrder DEF StartupCore, TypeOK, Before
<1> QED BY <1>1, DoneByThen DEF StartupCore, AdvertisesItsSerial

-----------------------------------------------------------------------------
\* StartupCore with the places of the calls in numbers.
InNumbers == /\ TypeOK /\ at \in 1..24
             /\ initialised = Before(at)
             /\ early \subseteq TooEarly
             /\ at <= 23 => record = found
             /\ at > 8 => sn = Serial(found)
             /\ at > 19 => advertised = Serial(found)

LEMMA InvInNumbers == StartupCore <=> InNumbers
<1>1. TypeOK => at \in 1..24
  BY LengthOfOrder DEF TypeOK
<1> QED BY <1>1, DoneByThen, LengthOfOrder DEF StartupCore, NothingElseTooEarly, Before, InNumbers

LEMMA InvInNumbersNext == StartupCore' <=> InNumbers'
  BY InvInNumbers, PTL

\* A call that main does finds what it uses, and takes its place among those done.
LEMMA CallInOrder ==
  ASSUME StartupCore, NEW x, Call(x)
  PROVE  /\ at \in 1..23 /\ Order[at] = x /\ at' = at + 1
         /\ initialised' = Before(at') /\ early' \subseteq TooEarly
<1>1. /\ at \in 1..23 /\ Order[at] = x /\ at' = at + 1
      /\ initialised' = Before(at) \cup {Order[at]}
  BY InvInNumbers, LengthOfOrder DEF Call, InNumbers
<1>2. Before(at + 1) = Before(at) \cup {Order[at]}
  <2>1. 1..at = (1..at - 1) \cup {at}
    BY <1>1
  <2>2. (at + 1) - 1 = at
    BY <1>1
  <2> QED BY <2>1, <2>2 DEF Before
<1>3. initialised' = Before(at')
  BY <1>1, <1>2
<1>4. Missing(x) = {}
  BY <1>1, InvInNumbers, InOrder DEF InNumbers
<1> QED BY <1>1, <1>3, <1>4, InvInNumbers DEF Call, Checked, InNumbers

LEMMA SerialIsOne ==
  ASSUME NEW r \in Serials \cup {None}
  PROVE  Serial(r) \in Serials \cup {Default}
  BY DEF Serial

LEMMA InitStartup == Init => StartupCore
<1> SUFFICES ASSUME Init PROVE InNumbers
  BY InvInNumbers
<1>1. Before(1) = {}
  BY DEF Before
<1>2. TypeOK
  <2>1. at = 1 /\ record \in Serials \cup {None} /\ found = record
    BY DEF Init
  <2>2. m_fds_initialized \in BOOLEAN
    BY Zenon DEF Init
  <2>3. fds \in {"off", "busy", "done", "failed"} /\ power \in {"on", "off", "stopped"}
    BY DEF Init
  <2>4. sn \in Serials \cup {Default, None} /\ advertised \in Serials \cup {Default, None}
    BY DEF Init
  <2> QED BY <2>1, <2>2, <2>3, <2>4, LengthOfOrder DEF TypeOK
<1> QED BY <1>1, <1>2 DEF Init, InNumbers

LEMMA WaitStep == StartupCore /\ wait_for_fds_ready => StartupCore'
<1> SUFFICES ASSUME StartupCore, wait_for_fds_ready PROVE InNumbers'
  BY InvInNumbersNext
<1>1. Call("wait_for_fds_ready")
  BY DEF wait_for_fds_ready
<1>2. at = 7 /\ at' = 8 /\ initialised' = Before(at') /\ early' \subseteq TooEarly
  BY <1>1, CallInOrder, Places, SMTT(60)
<1>3. /\ UNCHANGED <<m_fds_initialized, fds, record, found, sn, advertised, power>>
      /\ TypeOK /\ record = found
  BY <1>2, InvInNumbers DEF wait_for_fds_ready, InNumbers
<1>4. TypeOK'
  BY <1>2, <1>3, LengthOfOrder DEF TypeOK
<1> QED BY <1>2, <1>3, <1>4 DEF InNumbers

LEMMA FdsInitStep == StartupCore /\ fds_init => StartupCore'
<1> SUFFICES ASSUME StartupCore, fds_init PROVE InNumbers'
  BY InvInNumbersNext
<1>1. Call("fds_init")
  BY DEF fds_init
<1>2. at = 6 /\ at' = 7 /\ initialised' = Before(at') /\ early' \subseteq TooEarly
  BY <1>1, CallInOrder, Places, SMTT(60)
<1>3. /\ UNCHANGED <<m_fds_initialized, record, found, sn, advertised>>
      /\ fds' \in {fds, "busy"} /\ power' \in {power, "stopped"}
      /\ TypeOK /\ record = found
  BY <1>2, InvInNumbers DEF fds_init, InNumbers
<1>4. TypeOK'
  BY <1>2, <1>3, LengthOfOrder DEF TypeOK
<1> QED BY <1>2, <1>3, <1>4 DEF InNumbers

LEMMA SerialStep == StartupCore /\ sn_init => StartupCore'
<1> SUFFICES ASSUME StartupCore, sn_init PROVE InNumbers'
  BY InvInNumbersNext
<1>1. Call("sn_init")
  BY DEF sn_init
<1>2. at = 8 /\ at' = 9 /\ initialised' = Before(at') /\ early' \subseteq TooEarly
  BY <1>1, CallInOrder, Places, SMTT(60)
<1>3. /\ UNCHANGED <<m_fds_initialized, fds, record, found, advertised, power>>
      /\ sn' = Serial(record) /\ TypeOK /\ record = found
  BY <1>2, InvInNumbers DEF sn_init, InNumbers
<1>4. sn' \in Serials \cup {Default}
  BY <1>3, SerialIsOne DEF TypeOK
<1>5. TypeOK'
  BY <1>2, <1>3, <1>4, LengthOfOrder DEF TypeOK
<1>6. Serial(found') = Serial(found)
  BY <1>3
<1> QED BY <1>2, <1>3, <1>5, <1>6 DEF InNumbers

LEMMA AdvertisingStep == StartupCore /\ advertising_init => StartupCore'
<1> SUFFICES ASSUME StartupCore, advertising_init PROVE InNumbers'
  BY InvInNumbersNext
<1>1. Call("advertising_init")
  BY DEF advertising_init
<1>2. at = 19 /\ at' = 20 /\ initialised' = Before(at') /\ early' \subseteq TooEarly
  BY <1>1, CallInOrder, Places, SMTT(60)
<1>3. /\ UNCHANGED <<m_fds_initialized, fds, record, found, sn, power>>
      /\ advertised' = sn /\ TypeOK /\ record = found /\ sn = Serial(found)
  BY <1>2, InvInNumbers DEF advertising_init, InNumbers
<1>4. TypeOK'
  BY <1>2, <1>3, LengthOfOrder DEF TypeOK
<1>5. Serial(found') = Serial(found)
  BY <1>3
<1> QED BY <1>2, <1>3, <1>4, <1>5 DEF InNumbers

LEMMA OtherCallStep == StartupCore /\ OtherCall => StartupCore'
<1> SUFFICES ASSUME StartupCore, OtherCall PROVE InNumbers'
  BY InvInNumbersNext
<1>1. PICK i \in 1..23 : /\ Order[i] \notin {"wait_for_fds_ready", "fds_init", "sn_init",
                                             "advertising_init"}
                         /\ Call(Order[i])
  BY LengthOfOrder DEF OtherCall
<1>2. /\ at \in 1..23 /\ Order[at] = Order[i]
      /\ at' = at + 1 /\ initialised' = Before(at') /\ early' \subseteq TooEarly
  BY <1>1, CallInOrder
<1>3. at # 8 /\ at # 19
  BY <1>1, <1>2, Places
<1>4. UNCHANGED <<m_fds_initialized, fds, record, found, sn, advertised, power>> /\ InNumbers
  BY InvInNumbers DEF OtherCall
<1>5. TypeOK'
  BY <1>2, <1>4, LengthOfOrder DEF TypeOK, InNumbers
<1>6. Serial(found') = Serial(found)
  BY <1>4
<1> QED BY <1>2, <1>3, <1>4, <1>5, <1>6 DEF InNumbers

\* What is not a call of main leaves its place and the serial numbers alone.
LEMMA EventSteps ==
  StartupCore /\ (fds_evt_handler \/ Interrupt \/ climain_process) => StartupCore'
<1> SUFFICES ASSUME StartupCore, fds_evt_handler \/ Interrupt \/ climain_process
             PROVE  InNumbers'
  BY InvInNumbersNext
<1>1. InNumbers /\ UNCHANGED <<at, initialised, found, sn, advertised>>
  BY InvInNumbers DEF fds_evt_handler, Interrupt, climain_process
<1>2. early' \subseteq TooEarly /\ (at <= 23 => record' = record) /\ record' \in Serials \cup {None}
  <2>1. CASE fds_evt_handler
    BY <1>1, <2>1 DEF fds_evt_handler, InNumbers, TypeOK
  <2>2. CASE Interrupt
    <3>1. PICK h \in Handlers : (\E x \in initialised : Enables(x, h)) /\ Checked(h)
      BY <2>2 DEF Interrupt
    <3>2. \A y \in Missing(h) : <<h, y>> \in TooEarly
      BY <1>1, <3>1, InOrder DEF InNumbers
    <3>3. early' \subseteq TooEarly
      BY <1>1, <3>1, <3>2 DEF Checked, InNumbers
    <3>4. record' = record
      BY <2>2 DEF Interrupt
    <3> QED BY <1>1, <3>3, <3>4 DEF InNumbers, TypeOK
  <2>3. CASE climain_process
    BY <1>1, <2>3, LengthOfOrder DEF climain_process, InNumbers
  <2> QED BY <2>1, <2>2, <2>3
<1>3. /\ m_fds_initialized' \in BOOLEAN
      /\ fds' \in {"off", "busy", "done", "failed"}
      /\ power' \in {"on", "off", "stopped"}
  <2>1. CASE fds_evt_handler
    BY <1>1, <2>1 DEF fds_evt_handler, InNumbers, TypeOK
  <2>2. CASE Interrupt
    BY <1>1, <2>2 DEF Interrupt, InNumbers, TypeOK
  <2>3. CASE climain_process
    BY <1>1, <2>3 DEF climain_process, InNumbers, TypeOK
  <2> QED BY <2>1, <2>2, <2>3
<1>4. TypeOK'
  BY <1>1, <1>2, <1>3 DEF InNumbers, TypeOK
<1>5. Before(at') = Before(at) /\ Serial(found') = Serial(found)
  BY <1>1
<1> QED BY <1>1, <1>2, <1>4, <1>5 DEF InNumbers

\* A reset starts anew, with the record that flash holds by then.
LEMMA ResetStep == StartupCore /\ Reset => StartupCore'
<1> SUFFICES ASSUME StartupCore, Reset PROVE InNumbers'
  BY InvInNumbersNext
<1>1. InNumbers
  BY InvInNumbers
<1>2. at' = 1 /\ initialised' = Before(at') /\ early' \subseteq TooEarly /\ record' = found'
  BY <1>1 DEF Reset, Before, InNumbers
<1>3. TypeOK'
  <2>1. m_fds_initialized' \in BOOLEAN
    BY Zenon DEF Reset
  <2>2. /\ fds' \in {"off", "busy", "done", "failed"} /\ power' \in {"on", "off", "stopped"}
        /\ sn' \in Serials \cup {Default, None} /\ advertised' \in Serials \cup {Default, None}
    BY DEF Reset
  <2>3. record' \in Serials \cup {None} /\ found' = record'
    BY <1>1 DEF Reset, InNumbers, TypeOK
  <2> QED BY <1>2, <2>1, <2>2, <2>3, LengthOfOrder DEF TypeOK
<1> QED BY <1>2, <1>3 DEF InNumbers

-----------------------------------------------------------------------------
\* Which of the calls around FDS are done when main is at number i.
LEMMA FdsByThen ==
  ASSUME at \in 1..24, initialised = Before(at)
  PROVE  /\ "fds_register" \in initialised <=> at > 5
         /\ "fds_init" \in initialised <=> at > 6
         /\ "wait_for_fds_ready" \in initialised <=> at > 7
  BY Places, SMTT(60) DEF Before

\* NoMissedEvent with the places of the calls in numbers.
HeardInNumbers == /\ fds # "off" => at > 6
                  /\ power = "on" /\ at > 6 => fds # "off"
                  /\ m_fds_initialized <=> fds = "done"
                  /\ at > 7 => m_fds_initialized

LEMMA HeardIs == StartupCore => (NoMissedEvent <=> HeardInNumbers)
  BY InvInNumbers, FdsByThen DEF InNumbers, NoMissedEvent, HeardInNumbers

LEMMA HeardIsNext == StartupCore' => (NoMissedEvent' <=> HeardInNumbers')
  BY HeardIs, PTL

\* FDS reports once, to the handler registered before, and main waits for it.
LEMMA HeardStep ==
  ASSUME StartupCore, StartupCore', NoMissedEvent, [Next]_startVars
  PROVE  NoMissedEvent'
<1> SUFFICES HeardInNumbers'
  BY HeardIsNext
<1>1. HeardInNumbers /\ InNumbers
  BY HeardIs, InvInNumbers
<1>2. at \in 1..24 /\ m_fds_initialized \in BOOLEAN
  BY <1>1 DEF InNumbers, TypeOK
<1>3. CASE wait_for_fds_ready
  <2>1. at = 7 /\ at' = 8 /\ m_fds_initialized
    <3>1. Call("wait_for_fds_ready") /\ m_fds_initialized
      BY <1>3 DEF wait_for_fds_ready
    <3> QED BY <3>1, CallInOrder, Places, SMTT(60)
  <2>2. UNCHANGED <<m_fds_initialized, fds, power>>
    BY <1>3 DEF wait_for_fds_ready
  <2> QED BY <1>1, <2>1, <2>2 DEF HeardInNumbers
<1>4. CASE fds_init
  <2>1. at = 6 /\ at' = 7
    <3>1. Call("fds_init")
      BY <1>4 DEF fds_init
    <3> QED BY <3>1, CallInOrder, Places, SMTT(60)
  <2>2. fds = "off" /\ ~m_fds_initialized
    BY <1>1, <2>1 DEF HeardInNumbers
  <2>3. /\ m_fds_initialized' = m_fds_initialized
        /\ fds' = "busy" \/ (fds' = fds /\ power' = "stopped")
    BY <1>4 DEF fds_init
  <2> QED BY <2>1, <2>2, <2>3 DEF HeardInNumbers
<1>5. CASE sn_init \/ advertising_init \/ OtherCall
  <2>1. PICK x : Call(x) /\ x \notin {"wait_for_fds_ready", "fds_init"}
    BY <1>5 DEF sn_init, advertising_init, OtherCall
  <2>2. at \in 1..23 /\ Order[at] = x /\ at' = at + 1
    BY <2>1, CallInOrder
  <2>3. at # 6 /\ at # 7
    BY <2>1, <2>2, Places
  <2>4. UNCHANGED <<m_fds_initialized, fds, power>>
    BY <1>5 DEF sn_init, advertising_init, OtherCall
  <2> QED BY <1>1, <2>2, <2>3, <2>4 DEF HeardInNumbers
<1>6. CASE fds_evt_handler
  <2>1. /\ power = "on" /\ fds = "busy" /\ fds' \in {"done", "failed"}
        /\ m_fds_initialized' = (fds' = "done" /\ "fds_register" \in initialised)
        /\ UNCHANGED <<at, power>>
    BY <1>6 DEF fds_evt_handler
  <2>2. at = 7
    BY <1>1, <1>2, <2>1 DEF HeardInNumbers
  <2>3. "fds_register" \in initialised
    BY <1>1, <2>2, FdsByThen DEF InNumbers
  <2>4. m_fds_initialized' <=> fds' = "done"
    BY <2>1, <2>3
  <2> QED BY <2>1, <2>2, <2>4 DEF HeardInNumbers
<1>7. CASE Interrupt \/ climain_process
  <2>1. power = "on" /\ UNCHANGED <<at, m_fds_initialized, fds>>
    BY <1>7 DEF Interrupt, climain_process
  <2> QED BY <1>1, <2>1 DEF HeardInNumbers
<1>8. CASE Reset
  <2>1. at' = 1 /\ fds' = "off" /\ ~m_fds_initialized'
    BY <1>8 DEF Reset
  <2> QED BY <2>1 DEF HeardInNumbers
<1>9. CASE UNCHANGED startVars
  BY <1>1, <1>9 DEF startVars, HeardInNumbers
<1> QED BY <1>3, <1>4, <1>5, <1>6, <1>7, <1>8, <1>9 DEF Next, main

-----------------------------------------------------------------------------
\* Main stands where its calls done so far put it, and the serial number it has
\* taken over is the one flash held at the last start, whenever the interrupts
\* come and however often it restarts (main.c:781, climain.c:235).
THEOREM StartupInvariant == Spec => []StartupInv
<1>1. StartupCore /\ UNCHANGED startVars => StartupCore'
  <2> SUFFICES ASSUME StartupCore, UNCHANGED startVars PROVE InNumbers'
    BY InvInNumbersNext
  <2>1. InNumbers
    BY InvInNumbers
  <2> QED BY <2>1 DEF startVars, InNumbers, TypeOK, Before
<1>2. StartupCore /\ [Next]_startVars => StartupCore'
  BY <1>1, WaitStep, FdsInitStep, SerialStep, AdvertisingStep, OtherCallStep,
     EventSteps, ResetStep DEF Next, main
<1>3. StartupInv /\ [Next]_startVars => StartupInv'
  BY <1>2, HeardStep DEF StartupInv
<1>4. Init => StartupInv
  <2> SUFFICES ASSUME Init PROVE StartupInv
    OBVIOUS
  <2>1. fds = "off" /\ ~m_fds_initialized /\ initialised = {}
    BY DEF Init
  <2> QED BY <2>1, InitStartup DEF StartupInv, NoMissedEvent
<1> QED BY <1>3, <1>4, PTL DEF Spec

\* A button that asks to advertise before m_advertising is initialised
\* (main.c:797-808) is the only handler or call to find uninitialised what it uses.
THEOREM NeverTooEarly == Spec => []NothingElseTooEarly
<1>1. StartupInv => NothingElseTooEarly
  BY DEF StartupInv, StartupCore
<1> QED BY <1>1, StartupInvariant, PTL

\* The sensor advertises the serial number flash held when it started (main.c:653).
THEOREM AdvertisesTheSerial == Spec => []AdvertisesItsSerial
<1>1. StartupInv => AdvertisesItsSerial
  BY InvAdvertises DEF StartupInv
<1> QED BY <1>1, StartupInvariant, PTL

\* The wait for FDS never misses its event (climain.c:252), and what follows it finds
\* FDS ready, after any number of resets.
THEOREM EventIsHeard == Spec => []NoMissedEvent
<1>1. StartupInv => NoMissedEvent
  BY DEF StartupInv
<1> QED BY <1>1, StartupInvariant, PTL
=============================================================================
