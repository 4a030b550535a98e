------------------------------ MODULE Startup ------------------------------
(***************************************************************************)
(* main of main.c up to its endless loop, with cli_main, saadc_main and    *)
(* qdec_main in their place.  Interrupts come as soon as the call that     *)
(* enables them has returned, so that the order of the calls is all that   *)
(* keeps a handler from state that nobody has initialised.  The serial     *)
(* number is read from flash once, and advertised as it was then.          *)
(*                                                                         *)
(* What a call of the SDK needs from others is external; what the handlers *)
(* of the program need is read from their code.                            *)
(***************************************************************************)
EXTENDS Naturals, Sequences

CONSTANTS Serials,  \* serial numbers a record may hold
          Default,  \* "0000000000"
          None      \* no record, or nothing yet

ASSUME SerialAssumption == Default \notin Serials /\ None \notin Serials \cup {Default}

VARIABLES
  at,          \* number of the call that main does next
  initialised, \* the calls it has done
  early,       \* history: which call or handler came before which that it uses
  m_fds_initialized,
  fds,         \* initialisation of FDS: "off", "busy", "done" or "failed"
  record,      \* the serial number in flash
  found,       \* history: the one there at the last power-up
  sn,          \* the static sn of climain.c
  advertised,  \* the manufacturer data of the advertising packets
  power        \* "on", "off" in system-off mode, "stopped" by an error

startVars == <<at, initialised, early, m_fds_initialized, fds, record, found, sn,
               advertised, power>>

-----------------------------------------------------------------------------
\* Faults: events before the handler is registered; the encoder before its
\* window; the advertising data before the serial number.
Swapped(s, x, y) == [i \in DOMAIN s |-> CASE s[i] = x -> y [] s[i] = y -> x [] OTHER -> s[i]]

\* The calls of main, in order.
Calls == << "ble_stack_init", "timers_init", "general_timer_create", "cli_init",
            "fds_register", "fds_init", "wait_for_fds_ready", "sn_init", "cli_start",
            "buttons_leds_init", "power_management_init", "nvram_init",
            "indicator_init", "saadc_init", "saadc_sampling_event_enable",
            "gap_params_init", "gatt_init", "services_init", "advertising_init",
            "conn_params_init", "advertising_start", "posbuf_init",
            "nrf_drv_qdec_enable" >>

Order_unregistered == Swapped(Calls, "fds_register", "fds_init")
Order_unbuffered   == Swapped(Calls, "posbuf_init", "nrf_drv_qdec_enable")
Order_unnumbered   == Swapped(Calls, "sn_init", "advertising_init")

Order == Calls

\* Call x enables the interrupts of handler h.
Enables(x, h) ==
  \/ x = "buttons_leds_init"           /\ h = "bsp_event_handler"
  \/ x = "indicator_init"              /\ h = "pwm_timeout_handler"
  \/ x = "saadc_sampling_event_enable" /\ h = "saadc_callback"
  \/ x = "advertising_start"           /\ h = "ble_evt_handler"
  \/ x = "nrf_drv_qdec_enable"         /\ h = "qdec_event_handler"

Handlers == {"bsp_event_handler", "pwm_timeout_handler", "saadc_callback",
             "ble_evt_handler", "qdec_event_handler"}

\* Call or handler x uses what call y initialises.
Uses(x, y) ==
  \/ x \in {"general_timer_create", "buttons_leds_init", "indicator_init",
            "conn_params_init", "pwm_timeout_handler"} /\ y = "timers_init"
  \/ x \in {"fds_init", "gap_params_init", "gatt_init", "services_init",
            "bsp_event_handler", "saadc_callback"} /\ y = "ble_stack_init"
  \/ x = "fds_init"          /\ y = "fds_register"
  \/ x = "sn_init"           /\ y = "wait_for_fds_ready"
  \/ x = "saadc_sampling_event_enable" /\ y = "saadc_init"
  \/ x = "advertising_init"  /\ y \in {"services_init", "sn_init"}
  \/ x = "conn_params_init"  /\ y = "gap_params_init"
  \/ x = "advertising_start" /\ y \in {"advertising_init", "buttons_leds_init"}
  \/ x = "bsp_event_handler" /\ y \in {"buttons_leds_init", "advertising_init"}
  \/ x = "saadc_callback"    /\ y \in {"indicator_init", "saadc_init"}
  \/ x = "ble_evt_handler"   /\ y \in {"buttons_leds_init", "gatt_init", "services_init",
                                      "advertising_init", "conn_params_init"}
  \/ x = "qdec_event_handler" /\ y \in {"posbuf_init", "services_init"}

Missing(x) == {Order[i] : i \in {j \in DOMAIN Order : /\ Uses(x, Order[j])
                                                     /\ Order[j] \notin initialised}}

Checked(x) == early' = early \cup {<<x, y>> : y \in Missing(x)}

-----------------------------------------------------------------------------
\* FindFSData of sn_init is external: it finds the record if there is one.
Serial(r) == IF r = None THEN Default ELSE r

\* main does its next call, one that returns.
Call(x) == /\ power = "on" /\ at <= Len(Order) /\ Order[at] = x
           /\ at' = at + 1 /\ initialised' = initialised \cup {x}
           /\ Checked(x)

wait_for_fds_ready == /\ Call("wait_for_fds_ready") /\ m_fds_initialized
                      /\ UNCHANGED <<m_fds_initialized, fds, record, found, sn,
                                     advertised, power>>

\* With no room for its pages FDS refuses, and APP_ERROR_CHECK stops the device.
fds_init == /\ Call("fds_init")
            /\ \/ fds' = "busy" /\ UNCHANGED power
               \/ power' = "stopped" /\ UNCHANGED fds
            /\ UNCHANGED <<m_fds_initialized, record, found, sn, advertised>>

sn_init == /\ Call("sn_init") /\ sn' = Serial(record)
           /\ UNCHANGED <<m_fds_initialized, fds, record, found, advertised, power>>

advertising_init == /\ Call("advertising_init") /\ advertised' = sn
                    /\ UNCHANGED <<m_fds_initialized, fds, record, found, sn, power>>

OtherCall ==
  /\ \E i \in DOMAIN Order :
       /\ Order[i] \notin {"wait_for_fds_ready", "fds_init", "sn_init", "advertising_init"}
       /\ Call(Order[i])
  /\ UNCHANGED <<m_fds_initialized, fds, record, found, sn, advertised, power>>

main == wait_for_fds_ready \/ fds_init \/ sn_init \/ advertising_init \/ OtherCall

-----------------------------------------------------------------------------
\* FDS_EVT_INIT: without a registered handler nobody hears of it.
fds_evt_handler ==
  /\ power = "on" /\ fds = "busy" /\ fds' \in {"done", "failed"}
  /\ m_fds_initialized' = (fds' = "done" /\ "fds_register" \in initialised)
  /\ UNCHANGED <<at, initialised, early, record, found, sn, advertised, power>>

\* An interrupt.  The button and a low battery turn the device off; two
\* disconnections at once stop it.
Interrupt ==
  \E h \in Handlers :
    /\ power = "on" /\ \E x \in initialised : Enables(x, h)
    /\ Checked(h)
    /\ power' \in {"on"} \cup (IF h \in {"bsp_event_handler", "saadc_callback"} THEN {"off"} ELSE {})
                         \cup (IF h = "ble_evt_handler" THEN {"stopped"} ELSE {})
    /\ UNCHANGED <<at, initialised, m_fds_initialized, fds, record, found, sn, advertised>>

\* climain_process of the endless loop: a command writes or deletes the record.
climain_process ==
  /\ power = "on" /\ at > Len(Order) /\ record' \in Serials \cup {None}
  /\ UNCHANGED <<at, initialised, early, m_fds_initialized, fds, found, sn, advertised, power>>

-----------------------------------------------------------------------------
Init == /\ at = 1 /\ initialised = {} /\ early = {} /\ power = "on"
        /\ m_fds_initialized = FALSE /\ fds = "off"
        /\ record \in Serials \cup {None} /\ found = record
        /\ sn = None /\ advertised = None

\* The power fails and comes back, or a button wakes the device.
Reset == /\ at' = 1 /\ initialised' = {} /\ power' = "on"
         /\ m_fds_initialized' = FALSE /\ fds' = "off"
         /\ found' = record /\ sn' = None /\ advertised' = None
         /\ UNCHANGED <<early, record>>

Next == main \/ fds_evt_handler \/ Interrupt \/ climain_process \/ Reset

\* main goes on, and FDS reports how its initialisation ended.
Spec == Init /\ [][Next]_startVars /\ WF_startVars(main) /\ WF_startVars(fds_evt_handler)

-----------------------------------------------------------------------------
TypeOK == /\ at \in 1..Len(Order) + 1
          /\ m_fds_initialized \in BOOLEAN /\ fds \in {"off", "busy", "done", "failed"}
          /\ record \in Serials \cup {None} /\ found \in Serials \cup {None}
          /\ sn \in Serials \cup {Default, None}
          /\ advertised \in Serials \cup {Default, None}
          /\ power \in {"on", "off", "stopped"}

\* The order of the calls in main does not cover one thing: a button may ask to
\* advertise without whitelist (main.c:525-533) from buttons_leds_init
\* (main.c:797) on, before m_advertising is initialised (main.c:808).
TooEarly == {<<"bsp_event_handler", "advertising_init">>}

\* Whenever the interrupts come, no call and no handler finds anything else
\* uninitialised that it uses (main.c:787-816, climain.c:243).
NothingElseTooEarly == early \subseteq TooEarly

\* Once it advertises, the sensor shows the serial number that flash held when
\* it started, and keeps to it until the next start: no command typed since
\* and no earlier start shows through (climain.c:223, main.c:646).
AdvertisesItsSerial ==
  "advertising_start" \in initialised => advertised = Serial(found)

\* What the two rest on: the calls done are the first ones of the order, and
\* the record does not change while main is at them.
StartupCore ==
  /\ TypeOK
  /\ initialised = {Order[i] : i \in 1..at - 1}
  /\ NothingElseTooEarly
  /\ at <= Len(Order) => record = found
  /\ "sn_init" \in initialised => sn = Serial(found)
  /\ "advertising_init" \in initialised => advertised = Serial(found)

\* While main waits for FDS its event is still to come, was heard or told of a
\* failure, and main goes on only with FDS ready (climain.c:212, 243, 252): no
\* event of the last start and none that came too early stands for it.
NoMissedEvent ==
  /\ fds # "off" => "fds_init" \in initialised
  /\ power = "on" /\ "fds_init" \in initialised => fds # "off"
  /\ m_fds_initialized <=> fds = "done"
  /\ "wait_for_fds_ready" \in initialised => m_fds_initialized

\* The inductive invariant of the proofs in Startup_proofs.
StartupInv == StartupCore /\ NoMissedEvent

\* Unless FDS fails, the device loses power or stops, it comes to advertise:
\* the wait for FDS never misses the event it waits for (climain.c:243, 252).
ComesUp ==
  fds = "done" ~> \/ "advertising_start" \in initialised
                  \/ power # "on"
                  \/ fds # "done"
=============================================================================
