------------------------------ MODULE NusLink ------------------------------
(***************************************************************************)
(* The radio side: advertising, the connection and the packets of the      *)
(* Nordic UART service (main.c, nrfparsr.c).  A client writes command      *)
(* packets in pieces, NRFPacketParser takes them byte by byte, and the     *)
(* QDEC interrupt sends notifications while a command has enabled them.    *)
(*                                                                         *)
(* BLE events preempt the handlers of the QDEC and of app_timer, which do  *)
(* not preempt each other: handler is the one that runs, and any BLE event *)
(* may come between two of its steps.  The handler of a BLE event is one   *)
(* step, but for nus_data_handler, whose bytes are a step each: nothing    *)
(* else runs until the parser has taken all that were written.             *)
(*                                                                         *)
(* External: the SoftDevice with ble_advertising, ble_nus, ble_conn_params *)
(* and bsp_btn_ble; the client.                                            *)
(***************************************************************************)
EXTENDS Integers, Sequences

CONSTANTS MaxRemaining,    \* MAX_REMAINING_SIZE, 29
          HvnSize,         \* notifications the SoftDevice queues
          Packets,         \* what a client sends
          MaxPackets,      \* bound: packets of a connection
          MaxConnections   \* bound: connections

Byte == 0..255

\* A client may send anything.
ASSUME LinkAssumption ==
  /\ MaxRemaining \in 2..250 /\ HvnSize \in Nat
  /\ MaxPackets \in Nat /\ MaxConnections \in Nat
  /\ Packets \subseteq Seq(Byte)

\* The format of nrfpf.h:6: two head bytes, the length of what follows it, the
\* command and its data, which the command that sets the notification flag
\* has.  Properties that rest on it say so (seen.formed), and on the first head
\* byte being nowhere else.
WellFormed(p) ==
  /\ Len(p) \in 4 .. MaxRemaining + 3
  /\ p[1] = 165 /\ p[2] \div 16 = 12 /\ p[2] % 4 = 0 /\ p[3] = Len(p) - 3
  /\ p[4] = 33 => Len(p) > 4
  /\ \A n \in 2..Len(p) : p[n] # 165

VARIABLES
  parser,          \* the static variables of NRFPacketParser
  stream,          \* the packet that the client sends, with how much of it is
                   \* written and how much of that NRFPacketParser has taken;
                   \* total is history: all it has taken of this connection
  g_enable_notify,
  g_connected, m_conn_handle,
  handler,         \* the interrupt handler below the BLE events: its next
                   \* statement and the handle it has read; link is history:
                   \* "changed" by a connection or its end since the event
  power,           \* "boot", "on", "stopped" by a fault, "off"
  link, cccd, hvn, \* SoftDevice: the connection, whether the client takes
                   \* notifications, how many are queued
  adv,             \* ble_advertising
  seen             \* history, read by the properties only:
                   \*   sent, executed  commands of this connection
                   \*   clean           the parser was at rest when it began
                   \*   late            notifications queued while disabled
                   \*   connections     so far
                   \*   formed          all packets since power-up were

parsing == <<parser, stream, g_enable_notify>>
connection == <<g_connected, m_conn_handle, link, cccd, adv>>
vars == <<parsing, connection, handler, power, hvn, seen>>

NoHandle == "invalid"     \* BLE_CONN_HANDLE_INVALID
Handle == "0"             \* the SoftDevice has one link and reuses its handle

Step(at) == [at |-> at, handle |-> NoHandle, link |-> "same"]
Resting == Step("idle")

-----------------------------------------------------------------------------
(* nrfparsr.c                                                              *)

Wait1th(p, ch) == [p EXCEPT !.ss = IF ch = 165 THEN "WAIT_2TH" ELSE "WAIT_1TH"]

\* The packet type, in the lowest two bits, has to be PTYPE_COMMAND.
Wait2th(p, ch) == [p EXCEPT !.ss = IF ch % 4 = 0 /\ ch \div 16 = 12
                                   THEN "WAIT_LENGTH" ELSE "WAIT_1TH"]

\* Faults: the index goes on from the packet before; any length is taken.
WaitLength_on(p, ch) ==
  [p EXCEPT !.length = IF ch > MaxRemaining THEN MaxRemaining ELSE ch,
            !.ss = "WAIT_REMAINING"]
WaitLength_any(p, ch) ==
  [p EXCEPT !.length = ch, !.index = 0, !.ss = "WAIT_REMAINING"]

WaitLength(p, ch) ==
  [p EXCEPT !.length = IF ch > MaxRemaining THEN MaxRemaining ELSE ch,
            !.index = 0, !.ss = "WAIT_REMAINING"]

\* Fault: the packet waits for one byte more.
Complete_late(p) == p.index >= p.length

\* With the byte that comes next the packet is complete.
Complete(p) == p.index + 1 >= p.length

WaitRemaining(p, ch) ==
  [p EXCEPT !.remaining[p.index] = ch, !.index = @ + 1,
            !.ss = IF Complete(p) THEN "WAIT_1TH" ELSE @]

NextParser(p, ch) == CASE p.ss = "WAIT_1TH" -> Wait1th(p, ch)
                       [] p.ss = "WAIT_2TH" -> Wait2th(p, ch)
                       [] p.ss = "WAIT_LENGTH" -> WaitLength(p, ch)
                       [] p.ss = "WAIT_REMAINING" -> WaitRemaining(p, ch)

\* ble_nus_data_send has room and a client that listens.
Accepted(h) == h = Handle /\ link # "none" /\ cccd /\ hvn < HvnSize

\* nrfsendbytes within a BLE event.
Reply == hvn' = IF g_connected /\ Accepted(m_conn_handle) THEN hvn + 1 ELSE hvn

\* The length of a command's data: p.length - 1, as a uint8_t.
DataLen(p) == (p.length + 255) % 256

\* Does it fit packet[] of NRFSendReplyPacket, behind four bytes of its own?
Fits(p) == 4 + DataLen(p) <= MaxRemaining + 3

\* NRFCommandParser: cmd and data[0] are the first bytes of remaining, however
\* many of them the packet brought.  A reply that does not fit overwrites the
\* stack, and then the device may stop.
NRFCommandParser(p) ==
  LET cmd == p.remaining[0]
      on == p.remaining[1]
  IN  /\ g_enable_notify' = IF cmd = 33 THEN on ELSE g_enable_notify
      /\ IF cmd \in {32, 33} THEN Reply ELSE UNCHANGED hvn
      /\ power' \in IF cmd \in {32, 33} /\ ~Fits(p) THEN {power, "stopped"} ELSE {power}
      /\ seen' = [seen EXCEPT !.executed = Append(@, [n \in 1..p.length |-> p.remaining[n-1]]),
                              !.late = IF cmd = 33 /\ on # 0 THEN 0 ELSE @]

NRFPacketParser ==
  /\ power = "on" /\ stream.taken < stream.written
  /\ stream' = [stream EXCEPT !.taken = @ + 1, !.total = @ + 1]
  /\ parser' = NextParser(parser, stream.packet[stream.taken + 1])
  /\ IF parser.ss = "WAIT_REMAINING" /\ parser'.ss = "WAIT_1TH"
     THEN NRFCommandParser(parser')
     ELSE UNCHANGED <<g_enable_notify, hvn, power, seen>>
  /\ UNCHANGED <<connection, handler>>

-----------------------------------------------------------------------------
(* BLE events; Ready: nothing of their priority runs.                      *)

Ready == power = "on" /\ stream.taken = stream.written

\* nus_data_handler is given the next bytes of the packet.
nus_data_handler ==
  /\ Ready /\ link # "none"
  /\ \E n \in stream.written + 1 .. Len(stream.packet) :
       stream' = [stream EXCEPT !.written = n]
  /\ UNCHANGED <<parser, g_enable_notify, connection, handler, power, hvn, seen>>

\* Handlers that act upon a connection, and upon there being none.
OnLink == {"failed", "conn_params", "button", "bsp"}
OffLink == {"whitelist", "restart"}

\* History: the connection comes or goes under such a handler.
LinkChanges ==
  handler' = IF handler.at \in OnLink \cup OffLink
             THEN [handler EXCEPT !.link = "changed"] ELSE handler

\* Fault: the handle is not taken over.
Connected_nohandle == /\ m_conn_handle' = NoHandle
                      /\ g_connected' = TRUE

Connected == /\ m_conn_handle' = Handle
             /\ g_connected' = TRUE

\* A client connects: BLE_GAP_EVT_CONNECTED.
Connect ==
  /\ Ready /\ link = "none" /\ adv # "off"
  /\ seen.connections < MaxConnections
  /\ link' = "up" /\ adv' = "off" /\ cccd' = FALSE
  /\ Connected
  /\ seen' = [seen EXCEPT !.sent = <<>>, !.executed = <<>>,
                          !.clean = (parser.ss = "WAIT_1TH"),
                          !.connections = @ + 1]
  /\ LinkChanges
  /\ UNCHANGED <<parsing, power, hvn>>

\* Nothing to send.
NoStream == [packet |-> <<>>, written |-> 0, taken |-> 0, total |-> 0]

\* The connection is lost or closed: ble_advertising starts over, and then
\* BLE_GAP_EVT_DISCONNECTED comes.  Neither the parser nor the notification
\* flag hears of it.
Disconnected ==
  /\ Ready /\ link # "none"
  /\ link' = "none" /\ adv' = "fast" /\ cccd' = FALSE /\ hvn' = 0
  /\ stream' = NoStream
  /\ m_conn_handle' = NoHandle /\ g_connected' = FALSE
  /\ LinkChanges
  /\ UNCHANGED <<parser, g_enable_notify, power, seen>>

\* GATT client or server timeout: the connection is closed, or the device
\* stops if it is being closed already (NRF_ERROR_INVALID_STATE).
GattTimeout ==
  /\ Ready /\ link # "none"
  /\ IF link = "up" THEN link' = "closing" /\ UNCHANGED power
                    ELSE power' = "stopped" /\ UNCHANGED link
  /\ UNCHANGED <<parsing, g_connected, m_conn_handle, cccd, adv, handler, hvn, seen>>

\* Fault: advertising stops with the slow one.
on_adv_evt_once == adv' = IF adv = "fast" THEN "slow" ELSE "off"

\* BLE_ADV_EVT_SLOW follows fast advertising, BLE_ADV_EVT_IDLE the slow one;
\* then it is started anew.
on_adv_evt == adv' = IF adv = "fast" THEN "slow" ELSE "fast"

AdvTimeout == /\ Ready /\ adv # "off" /\ on_adv_evt
              /\ UNCHANGED <<parsing, g_connected, m_conn_handle, link, cccd,
                             handler, power, hvn, seen>>

-----------------------------------------------------------------------------
(* The handlers below the BLE events.                                      *)

Handles(here, next) ==
  /\ Ready /\ handler.at = here /\ handler' = next
  /\ UNCHANGED <<parsing, g_connected, m_conn_handle, cccd, adv>>

\* The encoder has a report.
qdec_event_handler == /\ Handles("idle", Step("enabled?"))
                      /\ UNCHANGED <<link, power, hvn, seen>>

\* Fault: notifications are always on.
IsEnableNotify_always == TRUE

IsEnableNotify == g_enable_notify # 0

TestEnabled == /\ Handles("enabled?", IF IsEnableNotify THEN Step("connected?") ELSE Resting)
               /\ UNCHANGED <<link, power, hvn, seen>>

\* nrfsendbytes: the test, m_conn_handle, then the call.
TestConnected == /\ Handles("connected?", IF g_connected THEN Step("handle") ELSE Resting)
                 /\ UNCHANGED <<link, power, hvn, seen>>

ReadHandle == /\ Handles("handle", [handler EXCEPT !.at = "send", !.handle = m_conn_handle])
              /\ UNCHANGED <<link, power, hvn, seen>>

NRFNotifyPosInfo ==
  /\ Handles("send", Resting)
  /\ IF Accepted(handler.handle)
     THEN /\ hvn' = hvn + 1
          /\ seen' = [seen EXCEPT !.late = IF g_enable_notify = 0 THEN @ + 1 ELSE @]
     ELSE UNCHANGED <<hvn, seen>>
  /\ UNCHANGED <<link, power>>

\* External.  ble_conn_params gives up a negotiation, which takes a connection,
\* and bsp_btn_ble gives the buttons their events: to disconnect with a
\* connection, to sleep or to advertise without whitelist when there is none.
\* From here on the connection may come and go before each statement.
Raised(at) == /\ Handles("idle", Step(at))
              /\ UNCHANGED <<link, power, hvn, seen>>

Raise == \/ link # "none" /\ (Raised("failed") \/ Raised("button"))
         \/ link = "none" /\ (Raised("bsp_indication_set") \/ Raised("whitelist"))

\* Both read m_conn_handle for the call below, whatever it is by now.
on_conn_params_evt ==
  /\ Handles("failed", [handler EXCEPT !.at = "conn_params", !.handle = m_conn_handle])
  /\ UNCHANGED <<link, power, hvn, seen>>

bsp_event_disconnect ==
  /\ Handles("button", [handler EXCEPT !.at = "bsp", !.handle = m_conn_handle])
  /\ UNCHANGED <<link, power, hvn, seen>>

\* sd_ble_gap_disconnect fails if the connection is being closed
\* (NRF_ERROR_INVALID_STATE), which the button's handler allows for, or if
\* there is none under the handle.
sd_ble_gap_disconnect ==
  /\ \E who \in {"conn_params", "bsp"} :
       /\ Handles(who, Resting)
       /\ LET known == handler.handle = Handle /\ link # "none" IN
          IF known /\ link = "up"
          THEN link' = "closing" /\ UNCHANGED power
          ELSE /\ power' = IF known /\ who = "bsp" THEN power ELSE "stopped"
               /\ UNCHANGED link
  /\ UNCHANGED <<hvn, seen>>

\* BSP_EVENT_WHITELIST_OFF: the test, then the call, which starts the same
\* advertising again.  A connection refuses it, in a way that the handler
\* allows for or not.
bsp_event_whitelist_off ==
  /\ Handles("whitelist", IF m_conn_handle = NoHandle THEN [handler EXCEPT !.at = "restart"]
                                                      ELSE Resting)
  /\ UNCHANGED <<link, power, hvn, seen>>

ble_advertising_restart ==
  /\ Handles("restart", Resting)
  /\ power' \in IF link = "none" THEN {power} ELSE {power, "stopped"}
  /\ UNCHANGED <<link, hvn, seen>>

\* BSP_EVENT_SLEEP: three calls, and none of them asks for the connection.
sleep_mode_enter ==
  /\ \/ /\ Handles("bsp_indication_set", Step("bsp_btn_ble_sleep_mode_prepare"))
        /\ UNCHANGED power
     \/ /\ Handles("bsp_btn_ble_sleep_mode_prepare", Step("sd_power_system_off"))
        /\ UNCHANGED power
     \/ Handles("sd_power_system_off", Resting) /\ power' = "off"
  /\ UNCHANGED <<link, hvn, seen>>

-----------------------------------------------------------------------------
(* The client, and the SoftDevice's queue.                                 *)

\* Every byte of the last packet has arrived.
Sent == stream.taken = Len(stream.packet)

\* What the packet says: the command and its data.
Command(p) == [n \in 1 .. Len(p) - 3 |-> p[n + 3]]

Send(p) == /\ power = "on" /\ link # "none" /\ Sent
           /\ Len(seen.sent) < MaxPackets
           /\ stream' = [stream EXCEPT !.packet = p, !.written = 0, !.taken = 0]
           /\ seen' = [seen EXCEPT !.sent = Append(@, Command(p)),
                                   !.formed = @ /\ WellFormed(p)]
           /\ UNCHANGED <<parser, g_enable_notify, connection, handler, power, hvn>>

Subscribe == /\ Ready /\ link # "none" /\ cccd' = ~cccd
             /\ UNCHANGED <<parsing, g_connected, m_conn_handle, link, adv, handler,
                            power, hvn, seen>>

HvnDone == /\ Ready /\ hvn > 0 /\ hvn' = hvn - 1
           /\ UNCHANGED <<parsing, connection, handler, power, seen>>

-----------------------------------------------------------------------------
RestingParser == [ss |-> "WAIT_1TH", length |-> 0, index |-> 0,
                  remaining |-> [k \in 0..MaxRemaining-1 |-> 0]]

\* RAM as after power-up.
PowerUp == /\ parser = RestingParser /\ stream = NoStream /\ g_enable_notify = 0
           /\ g_connected = FALSE /\ m_conn_handle = NoHandle
           /\ handler = Resting /\ power = "boot"
           /\ link = "none" /\ cccd = FALSE /\ hvn = 0 /\ adv = "off"

Init == /\ PowerUp
        /\ seen = [sent |-> <<>>, executed |-> <<>>, clean |-> TRUE, late |-> 0,
                   connections |-> 0, formed |-> TRUE]

\* The end of the initialisation in main.
advertising_start == /\ power = "boot" /\ power' = "on" /\ adv' = "fast"
                     /\ UNCHANGED <<parsing, g_connected, m_conn_handle, link, cccd,
                                    handler, hvn, seen>>

\* A button wakes the device, or its power comes back.
Restart ==
  /\ power \in {"off", "stopped"}
  /\ parser' = RestingParser /\ stream' = NoStream /\ g_enable_notify' = 0
  /\ g_connected' = FALSE /\ m_conn_handle' = NoHandle
  /\ handler' = Resting /\ power' = "boot"
  /\ link' = "none" /\ cccd' = FALSE /\ hvn' = 0 /\ adv' = "off"
  /\ seen' = [seen EXCEPT !.sent = <<>>, !.executed = <<>>, !.late = 0, !.formed = TRUE]

Event == \/ Connect \/ Disconnected \/ GattTimeout \/ AdvTimeout
         \/ nus_data_handler \/ NRFPacketParser

Interrupt == \/ qdec_event_handler \/ TestEnabled \/ TestConnected \/ ReadHandle
             \/ NRFNotifyPosInfo
             \/ Raise
             \/ on_conn_params_evt \/ bsp_event_disconnect \/ sd_ble_gap_disconnect
             \/ bsp_event_whitelist_off \/ ble_advertising_restart
             \/ sleep_mode_enter

Next == \/ Event \/ Interrupt
        \/ (\E p \in Packets : Send(p)) \/ Subscribe \/ HvnDone
        \/ advertising_start \/ Restart

Spec == Init /\ [][Next]_vars

-----------------------------------------------------------------------------
Parsers == [ss : {"WAIT_1TH", "WAIT_2TH", "WAIT_LENGTH", "WAIT_REMAINING"},
            length : 0..MaxRemaining, index : 0..MaxRemaining,
            remaining : [0..MaxRemaining-1 -> Byte]]

Streams == [packet : Packets \cup {<<>>}, written : Nat, taken : Nat, total : Nat]

Handlers == [at : {"idle", "enabled?", "connected?", "handle", "send",
                   "bsp_indication_set", "bsp_btn_ble_sleep_mode_prepare",
                   "sd_power_system_off"} \cup OnLink \cup OffLink,
             handle : {Handle, NoHandle}, link : {"same", "changed"}]

Histories == [sent : Seq(Seq(Byte)), executed : Seq(Seq(Byte)), clean : BOOLEAN,
              late : Nat, connections : 0..MaxConnections, formed : BOOLEAN]

\* Types.  In particular NRFPacketParser never writes behind the end of
\* remaining, whatever bytes come (nrfparsr.c:101-108).
TypeOK ==
  /\ parser \in Parsers
  /\ parser.ss = "WAIT_REMAINING" => parser.index = 0 \/ parser.index < parser.length
  /\ stream \in Streams
  /\ stream.taken <= stream.written /\ stream.written <= Len(stream.packet)
  /\ g_enable_notify \in Byte /\ g_connected \in BOOLEAN
  /\ m_conn_handle \in {Handle, NoHandle} /\ handler \in Handlers
  /\ power \in {"boot", "on", "stopped", "off"}
  /\ link \in {"none", "up", "closing"} /\ cccd \in BOOLEAN /\ hvn \in 0..HvnSize
  /\ adv \in {"off", "fast", "slow"}
  /\ seen \in Histories

\* A connection, and nothing but well-formed packets since power-up.
Serving == power = "on" /\ link # "none" /\ seen.formed

\* From well-formed clients no reply overruns packet[] (nrfparsr.c:43-49), which
\* one to a length of 0 would do: not even if the length is a byte of the next
\* client, behind a packet that a lost connection has torn.
ReplyFits == seen.formed /\ parser.ss = "WAIT_REMAINING" => Fits(parser)

\* On a connection that found the parser at rest every command of well-formed
\* clients is executed once, in order and as it was sent, however its packet was
\* cut into writes.
CommandsAsSent ==
  Serving /\ seen.clean =>
    seen.sent = IF Sent THEN seen.executed
                        ELSE Append(seen.executed, Command(stream.packet))

\* A packet that a lost connection has torn leaves the parser in its middle
\* (main.c:399-404 does not reset it).  It comes back to rest: once the next
\* client has sent more bytes than a packet may hold, none are lost any more.
Resyncs == Serving /\ Sent /\ stream.total > MaxRemaining => parser.ss = "WAIT_1TH"

\* After notifications are disabled at most one more is queued, the one of a
\* QDEC interrupt that had seen the flag already (qdecmain.c:178-179).
NotifyStops == seen.late <= 1

\* Part of the inductive invariant: the report of that one is past.
LateKnown == seen.late > 0 => /\ g_enable_notify = 0
                              /\ handler.at \notin {"connected?", "handle", "send"}

\* The device can be found whenever nobody is connected: advertising goes on
\* after its timeouts (main.c:363-366) and after every connection.
AlwaysFindable == power = "on" => (adv = "off" <=> link # "none")

\* Part of the inductive invariant: what the firmware believes of the
\* connection, and that nothing of a lost one's packet is still to come.
LinkKnown ==
  /\ power = "boot" => link = "none" /\ adv = "off"
  /\ power \in {"boot", "on"} => /\ g_connected <=> link # "none"
                                 /\ m_conn_handle = Handle <=> link # "none"
  /\ power \in {"boot", "on"} /\ link = "none" => stream = NoStream

\* Part of the inductive invariant: while the connection has neither come nor
\* gone since its event, a handler is right about it.
HandlerKnows ==
  handler.link = "same" =>
    /\ handler.at \in OnLink => link # "none"
    /\ handler.at \in OffLink => link = "none"
    /\ handler.at \in {"conn_params", "bsp"} => handler.handle = Handle

\* Part of the inductive invariant: where the parser may be in a packet.  With
\* a torn one behind it, it may also be there at the start of the next.
ParserPlace ==
  seen.formed =>
    /\ ~Sent => WellFormed(stream.packet)
    /\ parser.ss = "WAIT_2TH" => stream.taken \in {0, 1} \/ Sent
    /\ parser.ss = "WAIT_LENGTH" => stream.taken \in {0, 2} \/ Sent

\* The parser is in the same place of the packet as the client.
InStep ==
  /\ stream.taken = 0 \/ Sent => parser.ss = "WAIT_1TH"
  /\ stream.taken = 1 /\ ~Sent => parser.ss = "WAIT_2TH"
  /\ stream.taken = 2 /\ ~Sent => parser.ss = "WAIT_LENGTH"
  /\ stream.taken > 2 /\ ~Sent =>
       /\ parser.ss = "WAIT_REMAINING" /\ parser.length = Len(stream.packet) - 3
       /\ parser.index = stream.taken - 3
       /\ \A k \in 0 .. parser.index - 1 : parser.remaining[k] = stream.packet[k + 4]

\* It is, on a connection that found the parser at rest.
CleanPlace == Serving /\ seen.clean => InStep

\* Part of the inductive invariant: what is left of a torn packet.  It shrinks
\* with every byte; a torn head may be taken for one of the longest packets.
TornEnds ==
  Serving =>
    /\ parser.ss = "WAIT_2TH" => stream.total = 0 \/ (stream.taken = 1 /\ ~Sent)
    /\ parser.ss = "WAIT_LENGTH" => stream.total = 0 \/ (stream.taken = 2 /\ ~Sent)
    /\ parser.ss = "WAIT_REMAINING" =>
         \/ /\ stream.taken \in 3 .. Len(stream.packet) - 1
            /\ parser.length = Len(stream.packet) - 3 /\ parser.index = stream.taken - 3
         \/ parser.length - parser.index <= MaxRemaining - stream.total + 1

\* The packets of this connection that were taken to their end, and their bytes.
Finished == Len(seen.sent) - (IF Sent THEN 0 ELSE 1)
FinishedBytes == stream.total - (IF Sent THEN 0 ELSE stream.taken)

\* Part of the inductive invariant: a packet has four bytes at least, and a
\* parser that has taken more than one may hold is in step.
FewLost == Serving => /\ 4 * Finished <= FinishedBytes
                      /\ InStep \/ FinishedBytes <= MaxRemaining

\* Part of the inductive invariant: nothing else happens until the parser has
\* taken all bytes of a write.
Taking == power = "on" /\ stream.taken < stream.written => link # "none"

\* The inductive invariant of the proofs in NusLink_proofs: what the radio side
\* believes and where the parser is, and then how long a torn packet lasts.
LinkCore ==
  /\ TypeOK
  /\ LinkKnown /\ AlwaysFindable /\ HandlerKnows
  /\ NotifyStops /\ LateKnown
  /\ ReplyFits /\ ParserPlace /\ CleanPlace /\ CommandsAsSent

LinkInv == LinkCore /\ Taking /\ TornEnds /\ FewLost

\* How many packets the rest of a torn one may cost, and may cost yet.
MaxLost == MaxRemaining \div 4 + 1

Swallow == IF InStep THEN 0 ELSE IF link = "none" THEN MaxLost ELSE MaxLost - Finished

Due == IF handler.at \in {"connected?", "handle"} THEN "yes" ELSE
       IF handler.at = "send" THEN (IF handler.handle = Handle THEN "yes" ELSE "stale")
                              ELSE "no"

Plan == IF handler.at \in OnLink \cup OffLink
        THEN (IF handler.link = "same" THEN "act" ELSE "late") ELSE
        IF handler.at \in {"bsp_indication_set", "bsp_btn_ble_sleep_mode_prepare",
                           "sd_power_system_off"} THEN "off" ELSE "none"

Service == INSTANCE LinkService WITH
             Commands <- {Command(p) : p \in {q \in Packets : WellFormed(q)}},
             Values <- Byte, Room <- HvnSize,
             device <- power, client <- link,
             asked <- (IF Sent THEN <<>> ELSE <<Command(stream.packet)>>),
             swallow <- Swallow, enabled <- g_enable_notify, breached <- ~seen.formed,
             due <- Due, plan <- Plan, listening <- cccd, queued <- hvn

\* The link keeps the promise of LinkService to every client as long as all are
\* well-formed: whatever was torn (nrfparsr.c:76-120) or left enabled
\* (nrfparsr.c:68) before it came, commands are obeyed once and as sent, or few
\* of them are lost and none after that.  A report that found notifications
\* enabled (qdecmain.c:178) is withheld only if there was nobody to take it, or
\* no room, at some point of its way (main.c:874-881).  A button turns the
\* device off only if nobody was connected when it was pressed (main.c:326-338).
ImplementsService == Service!ServiceSpec

\* While all clients are well-formed, none of these handlers stops the device
\* unless the connection was being closed, or has come or gone since the
\* handler's event: the handle that they use is never wrong otherwise.
StopsOnlyInARace ==
  [][power = "on" /\ power' = "stopped" /\ seen.formed =>
       link = "closing" \/ handler.link = "changed"]_vars

\* main.c:271 of on_conn_params_evt: "All this function does is to disconnect."
\* It does not stop the device.
OnlyDisconnects ==
  [][handler.at = "conn_params" /\ handler'.at = "idle" => power' # "stopped"]_vars
=============================================================================
