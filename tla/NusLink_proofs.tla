--------------------------- MODULE NusLink_proofs ---------------------------
(***************************************************************************)
(* The radio side for every set of packets, well-formed or not, every size *)
(* of a packet and of the SoftDevice's queue, and any number of            *)
(* connections.                                                            *)
(***************************************************************************)
EXTENDS NusLink, SequenceTheorems, TLAPS

\* What the invariant says of packets and commands.
Framed == ReplyFits /\ ParserPlace /\ CleanPlace /\ CommandsAsSent

LEMMA CoreInit == Init => LinkCore
<1> SUFFICES ASSUME Init PROVE LinkCore
  OBVIOUS
<1>1. TypeOK
  <2>0. MaxRemaining \in 2..250 /\ HvnSize \in Nat /\ MaxConnections \in Nat
    BY LinkAssumption
  <2>1. parser \in Parsers /\ parser.ss = "WAIT_1TH"
    BY <2>0 DEF Init, PowerUp, RestingParser, Byte, Parsers
  <2>2. /\ stream \in Streams
        /\ stream.taken <= stream.written /\ stream.written <= Len(stream.packet)
    BY DEF Init, PowerUp, NoStream, Streams
  <2>3. seen \in Histories
    BY <2>0 DEF Init, Histories
  <2>4. g_enable_notify \in Byte /\ hvn \in 0..HvnSize
    BY <2>0 DEF Init, PowerUp, Byte
  <2>5. g_connected \in BOOLEAN /\ cccd \in BOOLEAN
    BY Zenon DEF Init, PowerUp
  <2>6. /\ m_conn_handle \in {Handle, NoHandle} /\ handler \in Handlers
        /\ power \in {"boot", "on", "stopped", "off"}
        /\ link \in {"none", "up", "closing"} /\ adv \in {"off", "fast", "slow"}
    BY DEF Init, PowerUp, Resting, Step, Handlers
  <2> QED
    BY <2>1, <2>2, <2>3, <2>4, <2>5, <2>6 DEF TypeOK
<1>2. LinkKnown /\ AlwaysFindable /\ HandlerKnows /\ NotifyStops /\ LateKnown
  BY DEF Init, PowerUp, LinkKnown, AlwaysFindable, HandlerKnows, NotifyStops, LateKnown,
     Resting, Step, Handle, NoHandle, OnLink, OffLink
<1>3. ReplyFits /\ ParserPlace /\ CleanPlace /\ CommandsAsSent
  BY DEF Init, PowerUp, ReplyFits, ParserPlace, CleanPlace, Serving, CommandsAsSent,
     RestingParser, NoStream, Sent
<1> QED
  BY <1>1, <1>2, <1>3 DEF LinkCore

\* Steps that leave the parser, the packet and the history of commands alone
\* leave what is known of them alone.
LEMMA SameParsing ==
  ASSUME Framed,
         parser' = parser, stream'.taken = stream.taken, stream'.packet = stream.packet,
         power' = "on" => power = "on",
         link' # "none" => link # "none",
         seen'.sent = seen.sent, seen'.executed = seen.executed,
         seen'.clean = seen.clean, seen'.formed = seen.formed
  PROVE  Framed'
<1>1. Sent' = Sent /\ Fits(parser)' = Fits(parser)
      /\ WellFormed(stream.packet)' = WellFormed(stream.packet)
      /\ Command(stream.packet)' = Command(stream.packet)
  BY DEF Sent, Fits, DataLen, WellFormed, Command
<1>2. InStep' = InStep
  BY <1>1 DEF InStep
<1>3. Serving' => Serving
  BY DEF Serving
<1> QED
  BY <1>1, <1>2, <1>3 DEF Framed, ReplyFits, ParserPlace, CleanPlace, CommandsAsSent

\* What the handlers below the BLE events leave alone: all but the handler
\* itself, closing the connection, stopping, and a notification.
LEMMA InterruptFrame ==
  ASSUME TypeOK, Interrupt
  PROVE  /\ power = "on" /\ stream.taken = stream.written
         /\ UNCHANGED <<parser, stream, g_enable_notify, g_connected, m_conn_handle, cccd, adv>>
         /\ power' \in {"on", "stopped", "off"}
         /\ link' = link \/ (link = "up" /\ link' = "closing")
         /\ handler' \in Handlers
         /\ UNCHANGED <<hvn, seen>> \/ NRFNotifyPosInfo
<1> USE DEF Handles, Ready, parsing
<1>0. /\ handler \in Handlers /\ m_conn_handle \in {Handle, NoHandle}
      /\ \A at \in {"idle", "enabled?", "connected?", "handle", "send", "failed", "button",
                    "whitelist", "bsp_indication_set", "bsp_btn_ble_sleep_mode_prepare",
                    "sd_power_system_off"} : Step(at) \in Handlers
      /\ Resting = Step("idle") /\ Resting \in Handlers
  BY DEF TypeOK, Step, Resting, Handlers, OnLink, OffLink
<1>1. CASE \/ qdec_event_handler \/ TestEnabled \/ TestConnected \/ Raise
  BY <1>0, <1>1 DEF qdec_event_handler, TestEnabled, TestConnected, Raise, Raised
<1>2. CASE ReadHandle \/ on_conn_params_evt \/ bsp_event_disconnect \/ bsp_event_whitelist_off
  <2>1. \A at \in {"send", "conn_params", "bsp", "restart"} :
          /\ [handler EXCEPT !.at = at, !.handle = m_conn_handle] \in Handlers
          /\ [handler EXCEPT !.at = at] \in Handlers
    BY <1>0 DEF Handlers, OnLink, OffLink
  <2> QED
    BY <1>0, <1>2, <2>1 DEF ReadHandle, on_conn_params_evt, bsp_event_disconnect,
       bsp_event_whitelist_off
<1>3. CASE NRFNotifyPosInfo
  BY <1>0, <1>3 DEF NRFNotifyPosInfo
<1>4. CASE sd_ble_gap_disconnect \/ ble_advertising_restart
  BY <1>0, <1>4 DEF sd_ble_gap_disconnect, ble_advertising_restart
<1>5. CASE sleep_mode_enter
  BY <1>0, <1>5 DEF sleep_mode_enter
<1> QED
  BY <1>1, <1>2, <1>3, <1>4, <1>5 DEF Interrupt

\* A notification takes room in the queue, and is late if the flag was cleared
\* since the report found it set.
LEMMA NotifyFrame ==
  ASSUME TypeOK, Interrupt
  PROVE  /\ hvn' \in 0..HvnSize /\ seen' \in Histories
         /\ seen'.sent = seen.sent /\ seen'.executed = seen.executed
         /\ seen'.clean = seen.clean /\ seen'.formed = seen.formed
         /\ \/ seen'.late = seen.late
            \/ /\ seen'.late = seen.late + 1 /\ g_enable_notify = 0
               /\ handler.at = "send" /\ handler' = Resting
<1>1. seen \in Histories /\ hvn \in 0..HvnSize /\ HvnSize \in Nat
  BY LinkAssumption DEF TypeOK
<1>2. CASE UNCHANGED <<hvn, seen>>
  BY <1>1, <1>2
<1>3. CASE NRFNotifyPosInfo
  <2>1. \/ UNCHANGED <<hvn, seen>>
        \/ /\ hvn < HvnSize /\ hvn' = hvn + 1
           /\ seen' = [seen EXCEPT !.late = IF g_enable_notify = 0 THEN @ + 1 ELSE @]
    BY <1>3, Zenon DEF NRFNotifyPosInfo, Accepted
  <2>2. handler.at = "send" /\ handler' = Resting
    BY <1>3 DEF NRFNotifyPosInfo, Handles
  <2>3. CASE UNCHANGED <<hvn, seen>>
    BY <1>1, <2>3
  <2>4. CASE /\ hvn < HvnSize /\ hvn' = hvn + 1
             /\ seen' = [seen EXCEPT !.late = IF g_enable_notify = 0 THEN @ + 1 ELSE @]
    <3>1. hvn' \in 0..HvnSize
      BY <1>1, <2>4
    <3>2. CASE g_enable_notify = 0
      <4>1. seen' = [seen EXCEPT !.late = @ + 1]
        BY <2>4, <3>2
      <4> QED
        BY <1>1, <2>2, <3>1, <3>2, <4>1 DEF Histories
    <3>3. CASE g_enable_notify # 0
      <4>1. seen' = [seen EXCEPT !.late = @]
        BY <2>4, <3>3
      <4> QED
        BY <1>1, <3>1, <4>1 DEF Histories
    <3> QED
      BY <3>2, <3>3
  <2> QED
    BY <2>1, <2>3, <2>4
<1> QED
  BY <1>2, <1>3, InterruptFrame

\* What a handler knows of the connection.
LEMMA HandlerStep ==
  ASSUME TypeOK, LinkKnown, HandlerKnows, Interrupt
  PROVE  HandlerKnows'
<1> USE DEF Handles, OnLink, OffLink, HandlerKnows
<1>1. /\ power = "on" /\ (link' = "none" <=> link = "none") /\ handler \in Handlers
  BY InterruptFrame DEF TypeOK
<1>2. link # "none" => m_conn_handle = Handle
  BY <1>1 DEF LinkKnown
<1>3. CASE \/ qdec_event_handler \/ TestEnabled \/ TestConnected \/ NRFNotifyPosInfo
           \/ sd_ble_gap_disconnect \/ ble_advertising_restart \/ sleep_mode_enter
  <2>1. handler'.at \notin OnLink \cup OffLink
    BY <1>3 DEF qdec_event_handler, TestEnabled, TestConnected, NRFNotifyPosInfo,
       sd_ble_gap_disconnect, ble_advertising_restart, sleep_mode_enter, Step, Resting
  <2> QED
    BY <2>1
<1>4. CASE Raise
  BY <1>1, <1>4 DEF Raise, Raised, Step
<1>5. CASE ReadHandle
  <2>1. handler'.at = "send"
    BY <1>1, <1>5 DEF ReadHandle, Handlers
  <2> QED
    BY <2>1
<1>6. CASE on_conn_params_evt \/ bsp_event_disconnect
  <2>1. /\ handler.at \in {"failed", "button"} /\ handler'.at \in {"conn_params", "bsp"}
        /\ handler'.link = handler.link /\ handler'.handle = m_conn_handle
    BY <1>1, <1>6 DEF on_conn_params_evt, bsp_event_disconnect, Handlers
  <2> QED
    BY <1>1, <1>2, <2>1
<1>7. CASE bsp_event_whitelist_off
  <2>1. /\ handler.at = "whitelist"
        /\ handler' = Resting \/ (handler'.at = "restart" /\ handler'.link = handler.link)
    BY <1>1, <1>7 DEF bsp_event_whitelist_off, Handlers
  <2> QED
    BY <1>1, <2>1 DEF Resting, Step
<1> QED
  BY <1>3, <1>4, <1>5, <1>6, <1>7 DEF Interrupt

\* A report finds the flag set, and there is one at a time.
LEMMA ReportStep ==
  ASSUME TypeOK, NotifyStops, LateKnown, Interrupt
  PROVE  (NotifyStops /\ LateKnown)'
<1> USE DEF Handles, NotifyStops, LateKnown
<1>1. /\ g_enable_notify' = g_enable_notify /\ handler \in Handlers /\ seen.late \in Nat
      /\ \/ seen'.late = seen.late
         \/ /\ seen'.late = seen.late + 1 /\ g_enable_notify = 0
            /\ handler.at = "send" /\ handler' = Resting
  BY InterruptFrame, NotifyFrame DEF TypeOK, Histories
<1>2. \/ handler'.at \notin {"connected?", "handle", "send"}
      \/ handler'.at = "connected?" /\ g_enable_notify # 0
      \/ /\ handler'.at \in {"handle", "send"}
         /\ handler.at \in {"connected?", "handle", "send"}
  <2>1. CASE \/ qdec_event_handler \/ Raise \/ NRFNotifyPosInfo
             \/ sd_ble_gap_disconnect \/ ble_advertising_restart \/ sleep_mode_enter
    BY <2>1 DEF qdec_event_handler, Raise, Raised, NRFNotifyPosInfo,
       sd_ble_gap_disconnect, ble_advertising_restart, sleep_mode_enter, Step, Resting
  <2>2. CASE TestEnabled \/ TestConnected
    BY <2>2 DEF TestEnabled, TestConnected, IsEnableNotify, Step, Resting
  <2>3. CASE ReadHandle
    BY <1>1, <2>3 DEF ReadHandle, Handlers
  <2>4. CASE on_conn_params_evt \/ bsp_event_disconnect
    BY <1>1, <2>4 DEF on_conn_params_evt, bsp_event_disconnect, Handlers
  <2>5. CASE bsp_event_whitelist_off
    <3>1. handler' = [handler EXCEPT !.at = "restart"] \/ handler' = Resting
      BY <2>5 DEF bsp_event_whitelist_off
    <3>2. handler'.at \in {"restart", "idle"}
      BY <1>1, <3>1 DEF Handlers, Step, Resting
    <3> QED
      BY <3>2
  <2> QED
    BY <2>1, <2>2, <2>3, <2>4, <2>5 DEF Interrupt
<1>3. CASE seen'.late = seen.late
  BY <1>1, <1>2, <1>3
<1>4. CASE seen'.late = seen.late + 1 /\ handler.at = "send" /\ handler' = Resting
  BY <1>1, <1>4 DEF Resting, Step
<1> QED
  BY <1>1, <1>3, <1>4

\* The handlers below the BLE events.
LEMMA InterruptStep ==
  ASSUME LinkCore, Interrupt
  PROVE  LinkCore'
<1>1. /\ TypeOK /\ LinkKnown /\ AlwaysFindable /\ HandlerKnows /\ NotifyStops /\ LateKnown
      /\ Framed
  BY DEF LinkCore, Framed
<1>2. /\ power = "on" /\ stream.taken = stream.written
      /\ UNCHANGED <<parser, stream, g_enable_notify, g_connected, m_conn_handle, cccd, adv>>
      /\ power' \in {"on", "stopped", "off"}
      /\ link' = link \/ (link = "up" /\ link' = "closing")
      /\ handler' \in Handlers
      /\ hvn' \in 0..HvnSize /\ seen' \in Histories
      /\ seen'.sent = seen.sent /\ seen'.executed = seen.executed
      /\ seen'.clean = seen.clean /\ seen'.formed = seen.formed
  BY <1>1, InterruptFrame, NotifyFrame
<1>3. TypeOK'
  BY <1>1, <1>2 DEF TypeOK
<1>4. LinkKnown' /\ AlwaysFindable'
  BY <1>1, <1>2 DEF LinkKnown, AlwaysFindable
<1>5. Framed'
  BY <1>1, <1>2, SameParsing
<1> QED
  BY <1>1, <1>3, <1>4, <1>5, HandlerStep, ReportStep DEF LinkCore, Framed

\* Steps that leave the notifications and the handler's statement alone leave
\* what is known of them alone.
LEMMA SameNotify ==
  ASSUME NotifyStops, LateKnown,
         handler'.at = handler.at, g_enable_notify' = g_enable_notify,
         seen'.late = seen.late
  PROVE  (NotifyStops /\ LateKnown)'
BY DEF NotifyStops, LateKnown

\* Below a connection that comes or goes a handler stays where it is, and takes
\* notice if it acts upon the connection.
LEMMA Overtaken ==
  ASSUME handler \in Handlers, LinkChanges
  PROVE  /\ handler' \in Handlers /\ HandlerKnows'
         /\ handler'.at = handler.at /\ handler'.handle = handler.handle
         /\ handler.at \notin OnLink \cup OffLink => handler' = handler
         /\ handler.at \in OnLink \cup OffLink => handler'.link = "changed"
<1>1. CASE handler.at \in OnLink \cup OffLink
  <2>1. handler' = [handler EXCEPT !.link = "changed"]
    BY <1>1 DEF LinkChanges
  <2> QED
    BY <1>1, <2>1 DEF Handlers, HandlerKnows
<1>2. CASE handler.at \notin OnLink \cup OffLink
  <2>1. handler' = handler
    BY <1>2 DEF LinkChanges
  <2> QED
    BY <1>2, <2>1 DEF HandlerKnows, OnLink, OffLink
<1> QED
  BY <1>1, <1>2

\* A client connects.
LEMMA ConnectStep ==
  ASSUME LinkCore, Connect
  PROVE  LinkCore'
<1>1. /\ TypeOK /\ LinkKnown /\ AlwaysFindable /\ NotifyStops /\ LateKnown
      /\ ReplyFits /\ ParserPlace
  BY DEF LinkCore
<1>2. /\ power = "on" /\ seen.connections < MaxConnections
      /\ link = "none" /\ adv # "off" /\ link' = "up" /\ adv' = "off" /\ cccd' = FALSE
      /\ m_conn_handle' = Handle /\ g_connected' = TRUE
      /\ UNCHANGED <<parser, stream, g_enable_notify, power, hvn>> /\ LinkChanges
      /\ seen' = [seen EXCEPT !.sent = <<>>, !.executed = <<>>,
                              !.clean = (parser.ss = "WAIT_1TH"),
                              !.connections = @ + 1]
  BY DEF Connect, Connected, Ready, parsing
<1>3. /\ seen' \in Histories /\ seen'.sent = <<>> /\ seen'.executed = <<>>
      /\ seen'.clean <=> parser.ss = "WAIT_1TH"
      /\ seen'.late = seen.late /\ seen'.formed = seen.formed
  <2>1. seen \in Histories
    BY <1>1 DEF TypeOK
  <2>2. seen.connections + 1 \in 0..MaxConnections
    BY <1>2, <2>1, LinkAssumption DEF Histories
  <2>3. (parser.ss = "WAIT_1TH") \in BOOLEAN /\ <<>> \in Seq(Seq(Byte))
    OBVIOUS
  <2> QED
    BY <1>2, <2>1, <2>2, <2>3 DEF Histories
<1>4. handler' \in Handlers /\ HandlerKnows' /\ handler'.at = handler.at
  BY <1>1, <1>2, Overtaken DEF TypeOK
<1>5. TypeOK'
  BY <1>1, <1>2, <1>3, <1>4 DEF TypeOK
<1>6. stream = NoStream
  BY <1>1, <1>2 DEF LinkKnown
<1>7. (LinkKnown /\ AlwaysFindable)'
  BY <1>1, <1>2 DEF LinkKnown, AlwaysFindable
<1>8. /\ Sent' /\ stream'.taken = 0
      /\ ReplyFits' /\ ParserPlace' /\ CleanPlace' /\ CommandsAsSent'
  <2>1. Sent' /\ Sent /\ stream'.taken = 0
    BY <1>2, <1>6 DEF Sent, NoStream
  <2>2. ReplyFits' /\ ParserPlace'
    BY <1>1, <1>2, <1>3, <2>1 DEF ReplyFits, Fits, DataLen, ParserPlace
  <2>3. CleanPlace' /\ CommandsAsSent'
    BY <1>2, <1>3, <2>1 DEF CleanPlace, InStep, CommandsAsSent
  <2> QED
    BY <2>1, <2>2, <2>3
<1> QED
  BY <1>1, <1>2, <1>3, <1>4, <1>5, <1>7, <1>8, SameNotify DEF LinkCore

\* The connection is lost.
LEMMA DisconnectedStep ==
  ASSUME LinkCore, Disconnected
  PROVE  LinkCore'
<1>1. /\ TypeOK /\ LinkKnown /\ AlwaysFindable /\ NotifyStops /\ LateKnown /\ ReplyFits
  BY DEF LinkCore
<1>2. /\ power = "on" /\ link # "none" /\ link' = "none" /\ adv' = "fast"
      /\ cccd' = FALSE /\ hvn' = 0 /\ stream' = NoStream
      /\ m_conn_handle' = NoHandle /\ g_connected' = FALSE
      /\ UNCHANGED <<parser, g_enable_notify, power, seen>> /\ LinkChanges
  BY DEF Disconnected, Ready
<1>3. handler' \in Handlers /\ HandlerKnows' /\ handler'.at = handler.at
  BY <1>1, <1>2, Overtaken DEF TypeOK
<1>4. TypeOK'
  <2>1. /\ NoStream \in Streams /\ NoStream.taken <= NoStream.written
        /\ NoStream.written <= Len(NoStream.packet)
    BY DEF NoStream, Streams
  <2>2. hvn' \in 0..HvnSize
    BY <1>2, LinkAssumption
  <2> QED
    BY <1>1, <1>2, <1>3, <2>1, <2>2 DEF TypeOK
<1>5. (LinkKnown /\ AlwaysFindable)'
  BY <1>2 DEF LinkKnown, AlwaysFindable, Handle, NoHandle
<1>6. (ReplyFits /\ ParserPlace /\ CleanPlace /\ CommandsAsSent)'
  BY <1>1, <1>2 DEF ReplyFits, Fits, DataLen, ParserPlace, CleanPlace, CommandsAsSent,
     Serving, NoStream, Sent
<1> QED
  BY <1>1, <1>2, <1>3, <1>4, <1>5, <1>6, SameNotify DEF LinkCore

\* The timeouts of the radio.
LEMMA TimeoutStep ==
  ASSUME LinkCore, GattTimeout \/ AdvTimeout
  PROVE  LinkCore'
<1>1. /\ TypeOK /\ LinkKnown /\ AlwaysFindable /\ HandlerKnows /\ NotifyStops /\ LateKnown
      /\ Framed
  BY DEF LinkCore, Framed
<1>2. /\ power = "on"
      /\ UNCHANGED <<parser, stream, g_enable_notify, g_connected, m_conn_handle, cccd,
                     handler, hvn, seen>>
      /\ \/ link = "up" /\ link' = "closing" /\ UNCHANGED <<adv, power>>
         \/ power' = "stopped" /\ UNCHANGED <<adv, link>>
         \/ adv # "off" /\ adv' \in {"fast", "slow"} /\ UNCHANGED <<link, power>>
  BY DEF GattTimeout, AdvTimeout, on_adv_evt, Ready, parsing
<1>3. TypeOK'
  BY <1>1, <1>2 DEF TypeOK
<1>4. (LinkKnown /\ AlwaysFindable /\ HandlerKnows)'
  BY <1>1, <1>2 DEF LinkKnown, AlwaysFindable, HandlerKnows
<1>5. Framed'
  BY <1>1, <1>2, SameParsing
<1> QED
  BY <1>1, <1>2, <1>3, <1>4, <1>5, SameNotify DEF LinkCore, Framed

\* The byte that the parser takes next.
Given == stream.packet[stream.taken + 1]

\* It is one of the packet that the client sends.
LEMMA NextByte ==
  ASSUME TypeOK, NRFPacketParser
  PROVE  /\ power = "on" /\ ~Sent
         /\ stream.packet \in Packets /\ stream.packet \in Seq(Byte)
         /\ stream.taken \in Nat /\ stream.total \in Nat /\ Len(stream.packet) \in Nat
         /\ stream.taken < Len(stream.packet)
         /\ stream' \in Streams
         /\ stream'.taken = stream.taken + 1 /\ stream'.total = stream.total + 1
         /\ stream'.packet = stream.packet /\ stream'.written = stream.written
         /\ stream'.taken <= stream'.written /\ stream'.written <= Len(stream'.packet)
         /\ parser' = NextParser(parser, Given) /\ Given \in Byte
<1>1. /\ stream' = [stream EXCEPT !.taken = @ + 1, !.total = @ + 1]
      /\ stream.taken < stream.written /\ power = "on"
      /\ parser' = NextParser(parser, Given)
  BY DEF NRFPacketParser, Given
<1>2. /\ stream \in Streams /\ stream.written <= Len(stream.packet)
      /\ stream.packet \in Seq(Byte)
  <2>1. /\ stream \in Streams /\ stream.written <= Len(stream.packet)
    BY DEF TypeOK
  <2>2. <<>> \in Seq(Byte)
    OBVIOUS
  <2> QED
    BY <2>1, <2>2, LinkAssumption DEF Streams
<1>3. /\ Len(stream.packet) \in Nat /\ stream.taken \in Nat /\ stream.written \in Nat
      /\ stream.total \in Nat
      /\ stream.taken < Len(stream.packet) /\ stream.taken + 1 <= stream.written
  BY <1>1, <1>2 DEF Streams
<1>4. stream.packet \in Packets
  <2>1. stream.packet # <<>>
    BY <1>3
  <2> QED
    BY <1>2, <2>1 DEF Streams
<1>5. ~Sent
  BY <1>3 DEF Sent
<1>6. /\ stream' \in Streams
      /\ stream'.taken = stream.taken + 1 /\ stream'.total = stream.total + 1
      /\ stream'.packet = stream.packet /\ stream'.written = stream.written
  <2>1. stream.taken + 1 \in Nat /\ stream.total + 1 \in Nat
    BY <1>3
  <2>2. stream' = [stream EXCEPT !.taken = stream.taken + 1, !.total = stream.total + 1]
    BY <1>1
  <2> QED
    BY <1>2, <2>1, <2>2 DEF Streams
<1>7. Given \in Byte
  BY <1>2, <1>3 DEF Given
<1> QED
  BY <1>1, <1>2, <1>3, <1>4, <1>5, <1>6, <1>7

\* Of a well-formed packet it has its value in the place.
LEMMA FormedByte ==
  ASSUME TypeOK, ParserPlace, seen.formed, NRFPacketParser
  PROVE  /\ Len(stream.packet) \in 4 .. MaxRemaining + 3
         /\ stream.taken = 0 <=> Given = 165
         /\ stream.taken = 1 => Given % 4 = 0 /\ Given \div 16 = 12
         /\ stream.taken = 2 => Given = Len(stream.packet) - 3
<1>1. /\ ~Sent /\ stream.taken \in Nat /\ Len(stream.packet) \in Nat
      /\ stream.taken < Len(stream.packet)
  BY NextByte
<1>2. WellFormed(stream.packet)
  BY <1>1 DEF ParserPlace
<1>3. stream.taken # 0 => Given # 165
  <2>1. stream.taken # 0 => stream.taken + 1 \in 2..Len(stream.packet)
    BY <1>1
  <2> QED
    BY <1>2, <2>1 DEF WellFormed, Given
<1>4. stream.taken = 0 => Given = 165
  BY <1>2 DEF WellFormed, Given
<1>5. stream.taken = 1 => Given % 4 = 0 /\ Given \div 16 = 12
  BY <1>2 DEF WellFormed, Given
<1>6. stream.taken = 2 => Given = Len(stream.packet) - 3
  BY <1>2 DEF WellFormed, Given
<1> QED
  BY <1>2, <1>3, <1>4, <1>5, <1>6 DEF WellFormed

\* A reply to a length within the array fits.
LEMMA LengthFits ==
  ASSUME NEW p \in Parsers, p.length # 0
  PROVE  Fits(p)
<1>1. p.length \in 1..MaxRemaining /\ MaxRemaining \in 2..250
  BY LinkAssumption DEF Parsers
<1>2. (p.length + 255) % 256 = p.length - 1
  BY <1>1
<1> QED
  BY <1>1, <1>2 DEF Fits, DataLen

\* In the head of a packet: two bytes and the length.
LEMMA HeadByte ==
  ASSUME TypeOK, NRFPacketParser, parser.ss # "WAIT_REMAINING"
  PROVE  /\ parser' \in Parsers
         /\ parser'.ss = "WAIT_REMAINING" <=> parser.ss = "WAIT_LENGTH"
         /\ parser'.ss = "WAIT_REMAINING" =>
              /\ parser'.index = 0
              /\ parser'.length = IF Given > MaxRemaining THEN MaxRemaining ELSE Given
         /\ parser'.ss = "WAIT_2TH" <=> parser.ss = "WAIT_1TH" /\ Given = 165
         /\ parser'.ss = "WAIT_LENGTH" <=>
              parser.ss = "WAIT_2TH" /\ Given % 4 = 0 /\ Given \div 16 = 12
         /\ UNCHANGED <<g_enable_notify, hvn, power, seen>>
<1>1. Given \in Byte /\ parser' = NextParser(parser, Given) /\ parser \in Parsers
  BY NextByte DEF TypeOK
<1>2. UNCHANGED <<g_enable_notify, hvn, power, seen>>
  BY DEF NRFPacketParser
<1>3. CASE parser.ss = "WAIT_1TH"
  <2>1. parser' = [parser EXCEPT !.ss = IF Given = 165 THEN "WAIT_2TH" ELSE "WAIT_1TH"]
    BY <1>1, <1>3 DEF NextParser, Wait1th
  <2> QED
    BY <1>1, <1>2, <1>3, <2>1 DEF Parsers
<1>4. CASE parser.ss = "WAIT_2TH"
  <2> DEFINE head == Given % 4 = 0 /\ Given \div 16 = 12
  <2>1. parser' = [parser EXCEPT !.ss = IF head THEN "WAIT_LENGTH" ELSE "WAIT_1TH"]
    BY <1>1, <1>4 DEF NextParser, Wait2th
  <2> HIDE DEF head
  <2>2. /\ parser' \in Parsers /\ parser'.ss \in {"WAIT_LENGTH", "WAIT_1TH"}
        /\ parser'.ss = "WAIT_LENGTH" <=> head
    BY <1>1, <2>1 DEF Parsers
  <2> QED
    BY <1>2, <1>4, <2>2 DEF head
<1>5. CASE parser.ss = "WAIT_LENGTH"
  <2> DEFINE l == IF Given > MaxRemaining THEN MaxRemaining ELSE Given
  <2>1. l \in 0..MaxRemaining /\ 0 \in 0..MaxRemaining
    BY <1>1, LinkAssumption DEF Byte
  <2>2. parser' = [parser EXCEPT !.length = l, !.index = 0, !.ss = "WAIT_REMAINING"]
    BY <1>1, <1>5 DEF NextParser, WaitLength
  <2> HIDE DEF l
  <2>3. /\ parser' \in Parsers /\ parser'.ss = "WAIT_REMAINING"
        /\ parser'.index = 0 /\ parser'.length = l
    BY <1>1, <2>1, <2>2 DEF Parsers
  <2> QED
    BY <1>2, <1>5, <2>3 DEF l
<1> QED
  BY <1>1, <1>3, <1>4, <1>5 DEF Parsers

\* The same where all packets are well-formed: the bytes of the head are only
\* found where they are, or by what is left of a torn packet at the start of
\* the next, and no length is 0.
LEMMA FormedHead ==
  ASSUME TypeOK, ParserPlace, seen.formed, NRFPacketParser, parser.ss # "WAIT_REMAINING"
  PROVE  /\ parser'.ss = "WAIT_2TH" => stream.taken = 0
         /\ parser'.ss = "WAIT_LENGTH" => stream.taken = 1
         /\ parser'.ss = "WAIT_REMAINING" => parser'.length # 0
         /\ parser.ss = "WAIT_1TH" /\ stream.taken = 0 => parser'.ss = "WAIT_2TH"
         /\ parser.ss = "WAIT_2TH" /\ stream.taken = 1 => parser'.ss = "WAIT_LENGTH"
         /\ parser.ss = "WAIT_LENGTH" /\ stream.taken = 2 =>
              /\ parser'.ss = "WAIT_REMAINING" /\ parser'.index = 0
              /\ parser'.length = Len(stream.packet) - 3
<1>1. /\ Len(stream.packet) \in 4 .. MaxRemaining + 3 /\ MaxRemaining \in 2..250
      /\ stream.taken = 0 <=> Given = 165
      /\ stream.taken = 1 => Given % 4 = 0 /\ Given \div 16 = 12
      /\ stream.taken = 2 => Given = Len(stream.packet) - 3
      /\ ~Sent /\ Given \in Byte
  BY FormedByte, NextByte, LinkAssumption
<1>2. parser.ss = "WAIT_LENGTH" => stream.taken \in {0, 2}
  BY <1>1 DEF ParserPlace
<1>3. parser.ss = "WAIT_2TH" => stream.taken \in {0, 1}
  BY <1>1 DEF ParserPlace
<1>4. 165 % 4 # 0
  OBVIOUS
<1>5. Given \in Int /\ Given = 165 => ~(Given % 4 = 0 /\ Given \div 16 = 12)
  BY <1>4
<1> QED
  BY <1>1, <1>2, <1>3, <1>5, HeadByte DEF Byte

\* Behind the head: the byte goes to its place, and the last one completes the
\* command.
LEMMA RemainingByte ==
  ASSUME TypeOK, NRFPacketParser, parser.ss = "WAIT_REMAINING"
  PROVE  /\ parser' \in Parsers
         /\ parser.index \in 0..MaxRemaining-1
         /\ parser'.length = parser.length /\ parser'.index = parser.index + 1
         /\ parser'.remaining = [parser.remaining EXCEPT ![parser.index] = Given]
         /\ \/ /\ parser.index + 1 < parser.length /\ parser'.ss = "WAIT_REMAINING"
               /\ UNCHANGED <<g_enable_notify, hvn, power, seen>>
            \/ /\ parser.index + 1 >= parser.length /\ parser'.ss = "WAIT_1TH"
               /\ NRFCommandParser(parser')
<1>1. Given \in Byte /\ parser' = NextParser(parser, Given)
  BY NextByte
<1>2. /\ parser \in Parsers /\ MaxRemaining \in 2..250
      /\ parser.index = 0 \/ parser.index < parser.length
  BY LinkAssumption DEF TypeOK
<1>3. parser' = [parser EXCEPT !.remaining[parser.index] = Given, !.index = @ + 1,
                               !.ss = IF parser.index + 1 >= parser.length
                                      THEN "WAIT_1TH" ELSE @]
  BY <1>1 DEF NextParser, WaitRemaining, Complete
<1>4. /\ parser.index \in 0..MaxRemaining-1 /\ parser.index + 1 \in 0..MaxRemaining
      /\ parser.index \in Nat /\ parser.length \in Nat
  BY <1>2 DEF Parsers
<1>5. [parser.remaining EXCEPT ![parser.index] = Given] \in [0..MaxRemaining-1 -> Byte]
  BY <1>1, <1>2, <1>4 DEF Parsers
<1>6. /\ parser' \in Parsers
      /\ parser'.length = parser.length /\ parser'.index = parser.index + 1
      /\ parser'.remaining = [parser.remaining EXCEPT ![parser.index] = Given]
      /\ parser'.ss = IF parser.index + 1 >= parser.length
                      THEN "WAIT_1TH" ELSE "WAIT_REMAINING"
  BY <1>2, <1>3, <1>4, <1>5 DEF Parsers
<1>7. CASE parser.index + 1 < parser.length
  <2>1. parser'.ss = "WAIT_REMAINING"
    BY <1>4, <1>6, <1>7
  <2>2. UNCHANGED <<g_enable_notify, hvn, power, seen>>
    BY <2>1 DEF NRFPacketParser
  <2> QED
    BY <1>4, <1>6, <1>7, <2>1, <2>2
<1>8. CASE parser.index + 1 >= parser.length
  <2>1. NRFCommandParser(parser')
    BY <1>6, <1>8 DEF NRFPacketParser
  <2> QED
    BY <1>4, <1>6, <1>8, <2>1
<1> QED
  BY <1>4, <1>7, <1>8

\* A parser in step with its client stays so, and with the last byte of a packet
\* it has the command that was sent.
LEMMA InStepStays ==
  ASSUME TypeOK, ParserPlace, seen.formed, InStep, NRFPacketParser
  PROVE  /\ InStep'
         /\ \/ ~Sent' /\ UNCHANGED <<g_enable_notify, hvn, power, seen>>
            \/ /\ Sent' /\ NRFCommandParser(parser')
               /\ parser'.length = Len(stream.packet) - 3
               /\ \A k \in 0 .. parser'.length - 1 :
                    parser'.remaining[k] = stream.packet[k + 4]
<1> DEFINE t == stream.taken
           len == Len(stream.packet)
<1>1. /\ t \in Nat /\ stream'.taken = t + 1 /\ stream'.packet = stream.packet
      /\ len \in 4 .. MaxRemaining + 3 /\ MaxRemaining \in 2..250 /\ t < len /\ ~Sent
  BY NextByte, FormedByte, LinkAssumption
<1>2. Sent' <=> t + 1 = len
  BY <1>1 DEF Sent
<1>3. CASE t \in {0, 1, 2}
  <2>1. parser.ss = IF t = 0 THEN "WAIT_1TH" ELSE IF t = 1 THEN "WAIT_2TH" ELSE "WAIT_LENGTH"
    BY <1>1, <1>3 DEF InStep
  <2>2. /\ t = 0 => parser'.ss = "WAIT_2TH"
        /\ t = 1 => parser'.ss = "WAIT_LENGTH"
        /\ t = 2 => /\ parser'.ss = "WAIT_REMAINING" /\ parser'.length = len - 3
                    /\ parser'.index = 0
        /\ UNCHANGED <<g_enable_notify, hvn, power, seen>>
    BY <1>3, <2>1, FormedHead, HeadByte
  <2>3. ~Sent' /\ stream'.taken \in {1, 2, 3} /\ stream'.taken = t + 1
    BY <1>1, <1>2, <1>3
  <2>4. InStep'
    BY <1>1, <1>3, <2>2, <2>3 DEF InStep
  <2> QED
    BY <2>2, <2>3, <2>4
<1>4. CASE t \notin {0, 1, 2}
  <2>1. /\ parser.ss = "WAIT_REMAINING" /\ parser.length = len - 3 /\ parser.index = t - 3
        /\ \A k \in 0 .. parser.index - 1 : parser.remaining[k] = stream.packet[k + 4]
        /\ t > 2
    BY <1>1, <1>4 DEF InStep
  <2>2. /\ parser.remaining \in [0..MaxRemaining-1 -> Byte]
        /\ parser.index \in 0..MaxRemaining-1
        /\ parser'.length = len - 3 /\ parser'.index = t - 2
        /\ parser'.remaining = [parser.remaining EXCEPT ![parser.index] = Given]
        /\ \/ /\ t - 2 < len - 3 /\ parser'.ss = "WAIT_REMAINING"
              /\ UNCHANGED <<g_enable_notify, hvn, power, seen>>
           \/ /\ t - 2 >= len - 3 /\ parser'.ss = "WAIT_1TH"
              /\ NRFCommandParser(parser')
    BY <1>1, <2>1, RemainingByte DEF TypeOK, Parsers
  <2>3. \A k \in 0 .. parser'.index - 1 : parser'.remaining[k] = stream.packet[k + 4]
    <3>1. Given = stream.packet[t + 1]
      BY DEF Given
    <3> SUFFICES ASSUME NEW k \in 0 .. t - 3
                 PROVE  parser'.remaining[k] = stream.packet[k + 4]
      BY <1>1, <2>2
    <3>2. CASE k = t - 3
      <4>1. k = parser.index /\ k + 4 = t + 1
        BY <1>1, <2>1, <3>2
      <4>2. parser'.remaining[k] = Given
        BY <2>2, <4>1
      <4> QED
        BY <3>1, <4>1, <4>2
    <3>3. CASE k # t - 3
      <4>1. k # parser.index /\ k \in 0 .. parser.index - 1 /\ k \in 0..MaxRemaining-1
        BY <1>1, <2>1, <2>2, <3>3
      <4>2. parser'.remaining[k] = parser.remaining[k]
        BY <2>2, <4>1
      <4> QED
        BY <2>1, <4>1, <4>2
    <3> QED
      BY <3>2, <3>3
  <2>4. CASE t - 2 < len - 3
    <3>1. ~Sent' /\ stream'.taken > 2 /\ stream'.taken - 3 = t - 2
      BY <1>1, <1>2, <2>1, <2>4
    <3> QED
      BY <1>1, <2>1, <2>2, <2>3, <2>4, <3>1 DEF InStep
  <2>5. CASE t - 2 >= len - 3
    <3>1. Sent' /\ parser'.index = parser'.length
      BY <1>1, <1>2, <2>1, <2>2, <2>5
    <3>2. parser'.ss = "WAIT_1TH" /\ NRFCommandParser(parser')
      BY <1>1, <2>2, <2>5
    <3> QED
      BY <2>2, <2>3, <3>1, <3>2 DEF InStep
  <2> QED
    BY <1>1, <2>4, <2>5
<1> QED
  BY <1>3, <1>4

\* What executing a packet leaves: the flag, the history and room in the queue,
\* and the power on if the reply fits.
LEMMA Executed ==
  ASSUME TypeOK, NRFCommandParser(parser'), parser' \in Parsers
  PROVE  LET command == [n \in 1..parser'.length |-> parser'.remaining[n-1]] IN
         /\ \/ g_enable_notify' = g_enable_notify /\ seen'.late = seen.late
            \/ g_enable_notify' = 0 /\ seen'.late = seen.late
            \/ g_enable_notify' \in Byte /\ seen'.late = 0
         /\ seen'.sent = seen.sent /\ seen'.clean = seen.clean
         /\ seen'.formed = seen.formed
         /\ seen'.executed = Append(seen.executed, command)
         /\ seen' \in Histories
         /\ hvn' \in 0..HvnSize
         /\ power' \in {power, "stopped"}
         /\ Fits(parser') => power' = power
<1> DEFINE command == [n \in 1..parser'.length |-> parser'.remaining[n-1]]
           on == parser'.remaining[1]
           cmd == parser'.remaining[0]
<1>1. /\ seen \in Histories
      /\ hvn \in 0..HvnSize /\ HvnSize \in Nat /\ MaxRemaining \in 2..250
  BY LinkAssumption DEF TypeOK
<1>2. on \in Byte
  BY <1>1 DEF Parsers
<1>3. command \in Seq(Byte)
  <2>1. parser'.length \in Nat
    BY <1>1 DEF Parsers
  <2>2. \A n \in 1..parser'.length : parser'.remaining[n-1] \in Byte
    BY <1>1 DEF Parsers
  <2>3. command \in [1..parser'.length -> Byte]
    BY <2>2
  <2> HIDE DEF command
  <2> QED
    BY <2>1, <2>3, SeqDef
<1>4. seen.executed \in Seq(Seq(Byte)) /\ Append(seen.executed, command) \in Seq(Seq(Byte))
  BY <1>1, <1>3 DEF Histories
<1>5. hvn' \in 0..HvnSize
  <2>1. hvn' = hvn \/ (hvn < HvnSize /\ hvn' = hvn + 1)
    BY Zenon DEF NRFCommandParser, Reply, Accepted
  <2> QED
    BY <1>1, <2>1
<1>6. power' \in {power, "stopped"} /\ (Fits(parser') => power' = power)
  BY DEF NRFCommandParser
<1> HIDE DEF on, command
<1>7. /\ g_enable_notify' = IF cmd = 33 THEN on ELSE g_enable_notify
      /\ seen' = [seen EXCEPT !.executed = Append(@, command),
                              !.late = IF cmd = 33 /\ on # 0 THEN 0 ELSE @]
  BY DEF NRFCommandParser, on, command
<1> HIDE DEF cmd
<1>8. CASE cmd = 33 /\ on # 0
  <2>1. /\ g_enable_notify' \in Byte /\ seen'.late = 0
        /\ seen'.sent = seen.sent /\ seen'.clean = seen.clean /\ seen'.formed = seen.formed
        /\ seen'.executed = Append(seen.executed, command) /\ seen' \in Histories
    BY <1>1, <1>2, <1>4, <1>7, <1>8 DEF Histories
  <2> QED
    BY <1>5, <1>6, <2>1 DEF command
<1>9. CASE ~(cmd = 33 /\ on # 0)
  <2>1. /\ g_enable_notify' = g_enable_notify \/ g_enable_notify' = 0
        /\ seen'.late = seen.late
        /\ seen'.sent = seen.sent /\ seen'.clean = seen.clean /\ seen'.formed = seen.formed
        /\ seen'.executed = Append(seen.executed, command) /\ seen' \in Histories
    BY <1>1, <1>4, <1>7, <1>9 DEF Histories
  <2> QED
    BY <1>5, <1>6, <2>1 DEF command
<1> QED
  BY <1>8, <1>9

\* The bytes of the client.
LEMMA ParserStep ==
  ASSUME LinkCore, NRFPacketParser
  PROVE  LinkCore'
<1>1. /\ TypeOK /\ LinkKnown /\ AlwaysFindable /\ HandlerKnows /\ NotifyStops /\ LateKnown
      /\ ReplyFits /\ ParserPlace /\ CleanPlace /\ CommandsAsSent
  BY DEF LinkCore
<1>2. /\ ~Sent /\ power = "on" /\ stream.packet \in Packets
      /\ stream.taken \in Nat /\ Len(stream.packet) \in Nat
      /\ stream.taken < Len(stream.packet)
      /\ stream'.taken = stream.taken + 1 /\ stream'.packet = stream.packet
      /\ stream' \in Streams
      /\ stream'.taken <= stream'.written /\ stream'.written <= Len(stream'.packet)
  BY <1>1, NextByte
<1>3. UNCHANGED <<g_connected, m_conn_handle, link, cccd, adv, handler>>
  BY DEF NRFPacketParser, connection
<1>4. /\ parser' \in Parsers
      /\ parser'.ss = "WAIT_REMAINING" => parser'.index = 0 \/ parser'.index < parser'.length
      /\ \/ UNCHANGED <<g_enable_notify, hvn, power, seen>>
         \/ /\ parser.ss = "WAIT_REMAINING" /\ parser'.ss = "WAIT_1TH"
            /\ parser'.length = parser.length /\ NRFCommandParser(parser')
  BY <1>1, HeadByte, RemainingByte
<1>5. /\ g_enable_notify' \in Byte /\ hvn' \in 0..HvnSize /\ seen' \in Histories
      /\ power' \in {"on", "stopped"}
      /\ seen'.sent = seen.sent /\ seen'.clean = seen.clean /\ seen'.formed = seen.formed
      /\ \/ g_enable_notify' = g_enable_notify /\ seen'.late = seen.late
         \/ g_enable_notify' = 0 /\ seen'.late = seen.late
         \/ seen'.late = 0
  <2>1. CASE UNCHANGED <<g_enable_notify, hvn, power, seen>>
    BY <1>1, <1>2, <2>1 DEF TypeOK
  <2>2. CASE NRFCommandParser(parser')
    <3>1. 0 \in Byte /\ g_enable_notify \in Byte
      BY <1>1 DEF TypeOK, Byte
    <3> QED
      BY <1>1, <1>2, <1>4, <2>2, <3>1, Executed
  <2> QED
    BY <1>4, <2>1, <2>2
<1>6. TypeOK'
  BY <1>1, <1>2, <1>3, <1>4, <1>5 DEF TypeOK
<1>7. (LinkKnown /\ AlwaysFindable /\ HandlerKnows)'
  <2>1. link # "none"
    <3>1. NoStream.taken = Len(NoStream.packet)
      BY DEF NoStream
    <3> QED
      BY <1>1, <1>2, <3>1 DEF LinkKnown
  <2> QED
    BY <1>1, <1>2, <1>3, <1>5, <2>1 DEF LinkKnown, AlwaysFindable, HandlerKnows
<1>8. ReplyFits' /\ ParserPlace'
  <2> SUFFICES ASSUME seen'.formed PROVE ReplyFits' /\ ParserPlace'
    BY DEF ReplyFits, ParserPlace
  <2>1. seen.formed
    BY <1>5
  <2>2. ~Sent' => WellFormed(stream'.packet)
    BY <1>1, <1>2, <2>1 DEF ParserPlace
  <2>3. /\ parser'.ss = "WAIT_2TH" => stream.taken = 0
        /\ parser'.ss = "WAIT_LENGTH" => stream.taken = 1
    BY <1>1, <1>4, <2>1, FormedHead, RemainingByte
  <2>4. ParserPlace'
    <3>1. (~Sent => WellFormed(stream.packet))'
      BY <2>2 DEF WellFormed
    <3>2. /\ parser'.ss = "WAIT_2TH" => stream'.taken = 1
          /\ parser'.ss = "WAIT_LENGTH" => stream'.taken = 2
      BY <1>2, <2>3
    <3> HIDE DEF WellFormed
    <3> QED
      BY <3>1, <3>2 DEF ParserPlace
  <2>5. parser'.ss = "WAIT_REMAINING" => Fits(parser')
    <3>1. CASE parser.ss # "WAIT_REMAINING"
      BY <1>1, <1>4, <2>1, <3>1, FormedHead, LengthFits
    <3>2. CASE parser.ss = "WAIT_REMAINING"
      <4>1. parser'.length = parser.length /\ Fits(parser)
        BY <1>1, <2>1, <3>2, RemainingByte DEF ReplyFits
      <4> QED
        BY <4>1 DEF Fits, DataLen
    <3> QED
      BY <3>1, <3>2
  <2> QED
    BY <2>4, <2>5 DEF ReplyFits, Fits, DataLen
<1>9. NotifyStops' /\ LateKnown'
  BY <1>1, <1>3, <1>5 DEF NotifyStops, LateKnown
<1>10. CleanPlace' /\ CommandsAsSent'
  <2> SUFFICES ASSUME Serving', seen'.clean
               PROVE  CleanPlace' /\ CommandsAsSent'
    BY DEF CommandsAsSent, CleanPlace
  <2>1. Serving /\ seen.clean /\ seen.formed
    BY <1>2, <1>3, <1>5 DEF Serving
  <2>2. /\ InStep'
        /\ \/ ~Sent' /\ UNCHANGED <<g_enable_notify, hvn, power, seen>>
           \/ /\ Sent' /\ NRFCommandParser(parser')
              /\ parser'.length = Len(stream.packet) - 3
              /\ \A k \in 0 .. parser'.length - 1 :
                   parser'.remaining[k] = stream.packet[k + 4]
    BY <1>1, <2>1, InStepStays DEF CleanPlace
  <2>3. seen.sent = Append(seen.executed, Command(stream.packet))
    BY <1>1, <1>2, <2>1 DEF CommandsAsSent
  <2>4. CASE ~Sent' /\ UNCHANGED <<g_enable_notify, hvn, power, seen>>
    BY <1>2, <2>2, <2>3, <2>4 DEF CleanPlace, CommandsAsSent, Command
  <2>5. CASE /\ Sent' /\ NRFCommandParser(parser')
             /\ parser'.length = Len(stream.packet) - 3
             /\ \A k \in 0 .. parser'.length - 1 :
                  parser'.remaining[k] = stream.packet[k + 4]
    <3> DEFINE command == [n \in 1..parser'.length |-> parser'.remaining[n-1]]
    <3>1. seen'.executed = Append(seen.executed, command)
      BY <1>1, <1>4, <2>5, Executed
    <3>2. command = Command(stream.packet)
      <4> DEFINE len == parser'.length
      <4>1. len \in Nat
        BY <1>4, LinkAssumption DEF Parsers
      <4>2. \A n \in 1..len : parser'.remaining[n-1] = stream.packet[n + 3]
        <5> TAKE n \in 1..len
        <5>1. n - 1 \in 0 .. len - 1 /\ (n - 1) + 4 = n + 3
          BY <4>1
        <5> QED
          BY <2>5, <5>1
      <4>3. Len(stream.packet) - 3 = len
        BY <2>5
      <4> HIDE DEF len
      <4> QED
        BY <4>2, <4>3 DEF Command, len
    <3> HIDE DEF command
    <3> QED
      BY <1>5, <2>2, <2>3, <2>5, <3>1, <3>2 DEF CleanPlace, CommandsAsSent
  <2> QED
    BY <2>2, <2>4, <2>5
<1> QED
  BY <1>6, <1>7, <1>8, <1>9, <1>10 DEF LinkCore

\* The client's write.
LEMMA WriteStep ==
  ASSUME LinkCore, nus_data_handler
  PROVE  LinkCore'
<1>1. /\ TypeOK /\ LinkKnown /\ AlwaysFindable /\ HandlerKnows /\ NotifyStops /\ LateKnown
      /\ Framed
  BY DEF LinkCore, Framed
<1>2. PICK n \in stream.written + 1 .. Len(stream.packet) :
             stream' = [stream EXCEPT !.written = n]
  BY DEF nus_data_handler
<1>3. /\ UNCHANGED <<parser, g_enable_notify, g_connected, m_conn_handle, link, cccd, adv,
                     handler, power, hvn, seen>>
      /\ power = "on" /\ link # "none"
  BY DEF nus_data_handler, Ready, connection
<1>4. /\ stream' \in Streams /\ stream'.taken = stream.taken
      /\ stream'.packet = stream.packet
      /\ stream'.taken <= stream'.written /\ stream'.written <= Len(stream'.packet)
  <2>1. stream \in Streams /\ stream.taken <= stream.written
    BY <1>1 DEF TypeOK
  <2>2. n \in Nat /\ stream.taken <= n /\ n <= Len(stream.packet)
    <3>1. Len(stream.packet) \in Nat
      <4>1. stream.packet \in Seq(Byte)
        <5>1. <<>> \in Seq(Byte)
          OBVIOUS
        <5> QED
          BY <2>1, <5>1, LinkAssumption DEF Streams
      <4> QED
        BY <4>1
    <3> QED
      BY <1>2, <2>1, <3>1 DEF Streams
  <2> QED
    BY <1>2, <2>1, <2>2 DEF Streams
<1>5. TypeOK'
  BY <1>1, <1>3, <1>4 DEF TypeOK
<1>6. (LinkKnown /\ AlwaysFindable /\ HandlerKnows)'
  BY <1>1, <1>3 DEF LinkKnown, AlwaysFindable, HandlerKnows
<1>7. Framed'
  BY <1>1, <1>3, <1>4, SameParsing
<1> QED
  BY <1>1, <1>3, <1>5, <1>6, <1>7, SameNotify DEF LinkCore, Framed

\* What a packet says is a sequence of bytes.
LEMMA CommandType ==
  ASSUME NEW p \in Packets
  PROVE  Command(p) \in Seq(Byte)
<1>1. p \in Seq(Byte)
  BY LinkAssumption
<1> DEFINE n == IF Len(p) > 3 THEN Len(p) - 3 ELSE 0
<1>2. n \in Nat /\ (1 .. Len(p) - 3) = 1..n
  BY <1>1
<1>3. \A k \in 1..n : p[k + 3] \in Byte
  BY <1>1, <1>2
<1>4. Command(p) = [k \in 1..n |-> p[k + 3]]
  BY <1>2 DEF Command
<1> HIDE DEF n
<1>5. Command(p) \in [1..n -> Byte]
  BY <1>3, <1>4
<1> QED
  BY <1>2, <1>5, SeqDef

\* The client begins a packet.
LEMMA SendStep ==
  ASSUME LinkCore, NEW p \in Packets, Send(p)
  PROVE  LinkCore'
<1>1. /\ TypeOK /\ LinkKnown /\ AlwaysFindable /\ HandlerKnows /\ NotifyStops /\ LateKnown
      /\ ReplyFits /\ ParserPlace /\ CleanPlace /\ CommandsAsSent
  BY DEF LinkCore
<1>2. /\ stream' = [stream EXCEPT !.packet = p, !.written = 0, !.taken = 0]
      /\ seen' = [seen EXCEPT !.sent = Append(@, Command(p)), !.formed = @ /\ WellFormed(p)]
      /\ UNCHANGED <<parser, g_enable_notify, g_connected, m_conn_handle, link, cccd, adv,
                     handler, power, hvn>>
      /\ power = "on" /\ link # "none" /\ Sent
  BY DEF Send, connection
<1>3. /\ seen' \in Histories
      /\ seen'.sent = Append(seen.sent, Command(p)) /\ seen'.executed = seen.executed
      /\ seen'.clean = seen.clean /\ seen'.late = seen.late
      /\ seen'.formed <=> seen.formed /\ WellFormed(p)
  <2>1. seen \in Histories
    BY <1>1 DEF TypeOK
  <2>2. Append(seen.sent, Command(p)) \in Seq(Seq(Byte))
    BY <2>1, CommandType DEF Histories
  <2>3. (seen.formed /\ WellFormed(p)) \in BOOLEAN
    OBVIOUS
  <2> HIDE DEF WellFormed
  <2> QED
    BY <1>2, <2>1, <2>2, <2>3 DEF Histories
<1>4. /\ stream' \in Streams /\ stream'.packet = p /\ stream'.written = 0
      /\ stream'.taken = 0 /\ Len(p) \in Nat
  <2>1. stream \in Streams /\ 0 \in Nat /\ p \in Seq(Byte)
    BY <1>1, LinkAssumption DEF TypeOK
  <2>2. Len(p) \in Nat
    BY <2>1
  <2>3. p \in Packets \cup {<<>>}
    OBVIOUS
  <2> QED
    BY <1>2, <2>1, <2>2, <2>3 DEF Streams
<1>5. TypeOK'
  BY <1>1, <1>2, <1>3, <1>4 DEF TypeOK
<1>6. (LinkKnown /\ AlwaysFindable /\ HandlerKnows)'
  BY <1>1, <1>2 DEF LinkKnown, AlwaysFindable, HandlerKnows
<1>7. ReplyFits'
  BY <1>1, <1>2, <1>3 DEF ReplyFits, Fits, DataLen
<1>8. ParserPlace'
  BY <1>3, <1>4 DEF ParserPlace, WellFormed
<1>9. CleanPlace' /\ CommandsAsSent'
  <2> SUFFICES ASSUME Serving', seen'.clean
               PROVE  CleanPlace' /\ CommandsAsSent'
    BY DEF CommandsAsSent, CleanPlace
  <2>1. Serving /\ seen.clean /\ WellFormed(p)
    BY <1>2, <1>3 DEF Serving
  <2>2. ~Sent' /\ stream'.taken = 0
    BY <1>4, <2>1 DEF Sent, WellFormed
  <2>3. parser.ss = "WAIT_1TH" /\ seen.sent = seen.executed
    BY <1>1, <1>2, <2>1 DEF CleanPlace, CommandsAsSent, InStep
  <2>4. InStep'
    BY <1>2, <2>2, <2>3 DEF InStep
  <2>5. seen'.sent = Append(seen'.executed, Command(stream'.packet))
    BY <1>3, <1>4, <2>3
  <2> QED
    BY <2>2, <2>4, <2>5 DEF CleanPlace, CommandsAsSent, Command
<1> QED
  BY <1>1, <1>2, <1>3, <1>5, <1>6, <1>7, <1>8, <1>9, SameNotify DEF LinkCore

\* The SoftDevice's queue, the start of the program and its restart.
LEMMA OtherStep ==
  ASSUME LinkCore, Subscribe \/ HvnDone \/ advertising_start \/ Restart
  PROVE  LinkCore'
<1>1. /\ TypeOK /\ LinkKnown /\ AlwaysFindable /\ HandlerKnows /\ NotifyStops /\ LateKnown
      /\ Framed /\ ReplyFits /\ ParserPlace
  BY DEF LinkCore, Framed
<1>2. MaxRemaining \in 2..250 /\ HvnSize \in Nat /\ MaxConnections \in Nat
  BY LinkAssumption
<1>3. CASE Subscribe \/ HvnDone
  <2>1. UNCHANGED <<parser, stream, g_enable_notify, g_connected, m_conn_handle, link, adv,
                    handler, power, seen>>
    BY <1>3 DEF Subscribe, HvnDone, parsing, connection
  <2>2. cccd' \in BOOLEAN
    BY <1>1, <1>3, Zenon DEF Subscribe, HvnDone, TypeOK, connection
  <2>3. hvn' \in 0..HvnSize
    BY <1>1, <1>2, <1>3 DEF Subscribe, HvnDone, TypeOK
  <2>4. TypeOK'
    BY <1>1, <2>1, <2>2, <2>3 DEF TypeOK
  <2>5. (LinkKnown /\ AlwaysFindable /\ HandlerKnows)'
    BY <1>1, <2>1 DEF LinkKnown, AlwaysFindable, HandlerKnows
  <2>6. Framed'
    BY <1>1, <2>1, SameParsing
  <2> QED
    BY <1>1, <2>1, <2>4, <2>5, <2>6, SameNotify DEF LinkCore, Framed
<1>4. CASE advertising_start
  <2>1. /\ power = "boot" /\ power' = "on" /\ adv' = "fast"
        /\ UNCHANGED <<parser, stream, g_enable_notify, g_connected, m_conn_handle, link,
                       cccd, handler, hvn, seen>>
    BY <1>4 DEF advertising_start, parsing
  <2>2. link = "none"
    BY <1>1, <2>1 DEF LinkKnown
  <2>3. TypeOK'
    BY <1>1, <2>1 DEF TypeOK
  <2>4. (LinkKnown /\ AlwaysFindable /\ HandlerKnows)'
    BY <1>1, <2>1, <2>2 DEF LinkKnown, AlwaysFindable, HandlerKnows
  <2>5. (ReplyFits /\ ParserPlace)'
    BY <1>1, <2>1 DEF ReplyFits, Fits, DataLen, ParserPlace, WellFormed, Sent
  <2>6. (CleanPlace /\ CommandsAsSent)'
    BY <2>1, <2>2 DEF CleanPlace, CommandsAsSent, Serving
  <2> QED
    BY <1>1, <2>1, <2>3, <2>4, <2>5, <2>6, SameNotify DEF LinkCore
<1>5. CASE Restart
  <2>1. /\ parser' = RestingParser /\ stream' = NoStream /\ g_enable_notify' = 0
        /\ g_connected' = FALSE /\ m_conn_handle' = NoHandle
        /\ handler' = Resting /\ power' = "boot"
        /\ link' = "none" /\ cccd' = FALSE /\ hvn' = 0 /\ adv' = "off"
        /\ seen' = [seen EXCEPT !.sent = <<>>, !.executed = <<>>, !.late = 0,
                                !.formed = TRUE]
    BY <1>5 DEF Restart
  <2>2. parser' \in Parsers /\ parser'.ss = "WAIT_1TH"
    <3>1. RestingParser \in Parsers /\ RestingParser.ss = "WAIT_1TH"
      BY <1>2 DEF RestingParser, Byte, Parsers
    <3> QED
      BY <2>1, <3>1
  <2>3. seen' \in Histories /\ seen'.late = 0
    <3>1. <<>> \in Seq(Seq(Byte)) /\ 0 \in Nat /\ seen \in Histories
      BY <1>1 DEF TypeOK
    <3> QED
      BY <2>1, <3>1 DEF Histories
  <2>4. /\ g_enable_notify' \in Byte /\ hvn' \in 0..HvnSize /\ handler' \in Handlers
        /\ stream' \in Streams
        /\ stream'.taken <= stream'.written /\ stream'.written <= Len(stream'.packet)
    BY <1>2, <2>1 DEF Byte, Resting, Step, Handlers, NoStream, Streams
  <2>5. g_connected' \in BOOLEAN /\ cccd' \in BOOLEAN
    BY <2>1, Zenon
  <2>6. TypeOK'
    BY <2>1, <2>2, <2>3, <2>4, <2>5 DEF TypeOK
  <2>7. (LinkKnown /\ AlwaysFindable /\ HandlerKnows)'
    BY <2>1 DEF LinkKnown, AlwaysFindable, HandlerKnows, Handle, NoHandle, Resting, Step,
       OnLink, OffLink
  <2>8. (ReplyFits /\ ParserPlace /\ CleanPlace /\ CommandsAsSent)'
    BY <2>1, <2>2 DEF ReplyFits, ParserPlace, CleanPlace, CommandsAsSent, Serving, Sent,
       NoStream
  <2> QED
    BY <2>3, <2>6, <2>7, <2>8 DEF LinkCore, NotifyStops, LateKnown
<1> QED
  BY <1>3, <1>4, <1>5

\* What the radio side believes of its connection, where the parser is in a
\* packet and what it has executed (main.c, nrfparsr.c).
LEMMA CoreInvariant == Spec => []LinkCore
<1>1. ASSUME LinkCore, UNCHANGED vars
      PROVE  LinkCore'
  <2>1. TypeOK'
    BY <1>1 DEF LinkCore, TypeOK, vars, parsing, connection
  <2>2. (LinkKnown /\ AlwaysFindable /\ HandlerKnows /\ NotifyStops /\ LateKnown)'
    BY <1>1 DEF LinkCore, LinkKnown, AlwaysFindable, HandlerKnows, NotifyStops, LateKnown,
       vars, parsing, connection
  <2>3. Framed'
    <3>1. Framed
      BY <1>1 DEF LinkCore, Framed
    <3> QED
      BY <1>1, <3>1, SameParsing DEF vars, parsing, connection
  <2> QED
    BY <2>1, <2>2, <2>3 DEF LinkCore, Framed
<1>2. LinkCore /\ [Next]_vars => LinkCore'
  BY <1>1, InterruptStep, ConnectStep, DisconnectedStep, TimeoutStep, WriteStep, ParserStep,
     SendStep, OtherStep DEF Next, Event
<1> QED
  BY <1>2, CoreInit, PTL DEF Spec

\* Every variable stays within its type, whatever bytes clients send: in
\* particular none is written behind the end of remaining (nrfparsr.c:101-108).
THEOREM LinkTypes == Spec => []TypeOK
<1>1. LinkCore => TypeOK
  BY DEF LinkCore
<1> QED
  BY <1>1, CoreInvariant, PTL

\* As long as clients are well-formed, no reply overruns its packet, whatever
\* lost connections have torn (nrfparsr.c:43-49).
THEOREM RepliesFit == Spec => []ReplyFits
<1>1. LinkCore => ReplyFits
  BY DEF LinkCore
<1> QED
  BY <1>1, CoreInvariant, PTL

\* However the packets of well-formed clients are cut into writes, every command
\* is executed once, in order and as sent (nrfparsr.c:76-120), on a connection
\* that found the parser at rest.
THEOREM CommandsArrive == Spec => []CommandsAsSent
<1>1. LinkCore => CommandsAsSent
  BY DEF LinkCore
<1> QED
  BY <1>1, CoreInvariant, PTL

\* At most one notification is queued after they are disabled
\* (qdecmain.c:178-179).
THEOREM NotificationsStop == Spec => []NotifyStops
<1>1. LinkCore => NotifyStops
  BY DEF LinkCore
<1> QED
  BY <1>1, CoreInvariant, PTL

\* The device is findable exactly while nobody is connected (main.c:347-375).
THEOREM FindableAgain == Spec => []AlwaysFindable
<1>1. LinkCore => AlwaysFindable
  BY DEF LinkCore
<1> QED
  BY <1>1, CoreInvariant, PTL

\* As long as clients are well-formed, the device stops only if the connection
\* is being closed, or has come or gone since the event of the handler that
\* acts upon it (main.c:277-286, 430-442, 510-533).
THEOREM StopNeedsRace == Spec => StopsOnlyInARace
<1>1. LinkCore /\ [Next]_vars =>
        [power = "on" /\ power' = "stopped" /\ seen.formed =>
           link = "closing" \/ handler.link = "changed"]_vars
  <2> SUFFICES ASSUME LinkCore, Next, power = "on", power' = "stopped", seen.formed
               PROVE  link = "closing" \/ handler.link = "changed"
    OBVIOUS
  <2>0. /\ TypeOK /\ LinkKnown /\ HandlerKnows
        /\ link \in {"none", "up", "closing"} /\ handler.link \in {"same", "changed"}
    BY DEF LinkCore, TypeOK, Handlers
  <2>1. CASE GattTimeout
    BY <2>0, <2>1 DEF GattTimeout
  <2>2. CASE sd_ble_gap_disconnect
    <3>1. /\ handler.at \in {"conn_params", "bsp"}
          /\ ~(handler.handle = Handle /\ link = "up")
      BY <2>2 DEF sd_ble_gap_disconnect, Handles
    <3> QED
      BY <2>0, <3>1 DEF HandlerKnows, OnLink
  <2>3. CASE ble_advertising_restart
    <3>1. handler.at = "restart" /\ link # "none"
      BY <2>3 DEF ble_advertising_restart, Handles
    <3> QED
      BY <2>0, <3>1 DEF HandlerKnows, OffLink
  <2>4. CASE NRFPacketParser
    <3>1. NRFCommandParser(parser') /\ parser.ss = "WAIT_REMAINING"
      BY <2>4 DEF NRFPacketParser
    <3>2. Fits(parser) /\ parser'.length = parser.length /\ parser' \in Parsers
      BY <2>0, <2>4, <3>1, RemainingByte DEF LinkCore, ReplyFits
    <3>3. Fits(parser')
      BY <3>2 DEF Fits, DataLen
    <3> QED
      BY <2>0, <3>1, <3>2, <3>3, Executed
  <2>5. CASE sleep_mode_enter
    BY <2>5 DEF sleep_mode_enter
  <2>6. CASE Restart
    BY <2>6 DEF Restart
  <2>7. CASE advertising_start
    BY <2>7 DEF advertising_start
  <2>8. CASE UNCHANGED power
    BY <2>8
  <2> QED
    BY <2>1, <2>2, <2>3, <2>4, <2>5, <2>6, <2>7, <2>8 DEF Next, Event, Interrupt, Connect,
       Disconnected, AdvTimeout, nus_data_handler, Handles, qdec_event_handler,
       TestEnabled, TestConnected, ReadHandle, NRFNotifyPosInfo, Raise, Raised,
       on_conn_params_evt, bsp_event_disconnect, bsp_event_whitelist_off, Send, Subscribe,
       HvnDone
<1> QED
  BY <1>1, CoreInvariant, PTL DEF Spec, StopsOnlyInARace

\* The steps that leave the parser and the client's packets alone, but for how
\* much of one is written.
LEMMA QuietStep ==
  ASSUME LinkCore,
         \/ Interrupt \/ GattTimeout \/ AdvTimeout \/ Subscribe \/ HvnDone
         \/ nus_data_handler \/ UNCHANGED vars
  PROVE  /\ parser' = parser /\ g_enable_notify' = g_enable_notify
         /\ stream'.taken = stream.taken /\ stream'.packet = stream.packet
         /\ stream'.total = stream.total
         /\ seen'.sent = seen.sent /\ seen'.formed = seen.formed
         /\ power' = "on" => power = "on"
         /\ link' = "none" <=> link = "none"
<1>1. TypeOK /\ stream \in Streams
  BY DEF LinkCore, TypeOK
<1>2. CASE Interrupt
  BY <1>1, <1>2, InterruptFrame, NotifyFrame
<1>3. CASE nus_data_handler
  BY <1>1, <1>3 DEF nus_data_handler, connection, Streams
<1>4. CASE GattTimeout \/ AdvTimeout \/ Subscribe \/ HvnDone \/ UNCHANGED vars
  BY <1>1, <1>4 DEF GattTimeout, AdvTimeout, Subscribe, HvnDone, Ready, parsing, connection,
     vars
<1> QED
  BY <1>2, <1>3, <1>4

\* What is known of a torn packet stays known in them.
LEMMA SameTorn ==
  ASSUME TornEnds, parser' = parser, stream'.taken = stream.taken,
         stream'.packet = stream.packet, stream'.total = stream.total,
         Serving' => Serving
  PROVE  TornEnds'
BY DEF TornEnds, Sent

\* Every byte of the client brings the end of a torn packet closer.
LEMMA TornShrinks ==
  ASSUME LinkCore, TornEnds, NRFPacketParser
  PROVE  TornEnds'
<1> DEFINE k == stream.taken
           len == Len(stream.packet)
           rest == parser.length - parser.index
<1>1. TypeOK /\ ParserPlace /\ parser \in Parsers /\ MaxRemaining \in 2..250
  BY LinkAssumption DEF LinkCore, TypeOK
<1>2. /\ k \in Nat /\ stream.total \in Nat /\ k < len
      /\ stream'.taken = k + 1 /\ stream'.total = stream.total + 1
      /\ stream'.packet = stream.packet
  BY <1>1, NextByte
<1> SUFFICES ASSUME Serving' PROVE TornEnds'
  BY DEF TornEnds
<1>3. Serving /\ seen.formed
  <2>1. UNCHANGED link /\ power = "on" /\ seen'.formed
    BY DEF NRFPacketParser, connection, Serving
  <2>2. seen'.formed = seen.formed
    <3>1. UNCHANGED seen \/ (NRFCommandParser(parser') /\ parser' \in Parsers)
      BY <1>1, HeadByte, RemainingByte
    <3> QED
      BY <1>1, <3>1, Executed
  <2> QED
    BY <2>1, <2>2 DEF Serving
<1>4. len \in 4 .. MaxRemaining + 3
  BY <1>1, <1>3, FormedByte
<1>5. Sent' <=> k + 1 = len
  BY <1>2 DEF Sent
<1> HIDE DEF k, len
<1>6. CASE parser.ss # "WAIT_REMAINING"
  <2>1. /\ parser'.ss = "WAIT_2TH" => k = 0
        /\ parser'.ss = "WAIT_LENGTH" => k = 1
        /\ parser'.ss = "WAIT_REMAINING" =>
             /\ parser.ss = "WAIT_LENGTH" /\ parser'.index = 0
             /\ k = 2 => parser'.length = len - 3
        /\ parser'.length \in 0..MaxRemaining
    BY <1>1, <1>3, <1>6, HeadByte, FormedHead DEF k, len, Parsers
  <2>2. parser.ss = "WAIT_LENGTH" => stream.total = 0 \/ k = 2
    BY <1>3 DEF TornEnds, k
  <2>3. parser'.ss = "WAIT_REMAINING" =>
          \/ /\ stream'.taken \in 3 .. Len(stream'.packet) - 1
             /\ parser'.length = Len(stream'.packet) - 3 /\ parser'.index = stream'.taken - 3
          \/ parser'.length - parser'.index <= MaxRemaining - stream'.total + 1
    BY <1>1, <1>2, <1>4, <2>1, <2>2 DEF len
  <2>4. /\ parser'.ss = "WAIT_2TH" => stream'.taken = 1 /\ ~Sent'
        /\ parser'.ss = "WAIT_LENGTH" => stream'.taken = 2 /\ ~Sent'
    BY <1>2, <1>4, <1>5, <2>1
  <2> QED
    BY <2>3, <2>4 DEF TornEnds
<1>7. CASE parser.ss = "WAIT_REMAINING"
  <2>1. /\ parser'.length = parser.length /\ parser'.index = parser.index + 1
        /\ parser'.ss = "WAIT_REMAINING" \/ parser'.ss = "WAIT_1TH"
        /\ parser'.ss = "WAIT_REMAINING" => parser.index + 1 < parser.length
        /\ parser.length \in Nat /\ parser.index \in Nat
    BY <1>1, <1>7, RemainingByte DEF Parsers
  <2>2. \/ k \in 3 .. len - 1 /\ parser.length = len - 3 /\ parser.index = k - 3
        \/ rest <= MaxRemaining - stream.total + 1
    BY <1>3, <1>7 DEF TornEnds, k, len
  <2>3. parser'.ss = "WAIT_REMAINING" =>
          \/ /\ stream'.taken \in 3 .. Len(stream'.packet) - 1
             /\ parser'.length = Len(stream'.packet) - 3 /\ parser'.index = stream'.taken - 3
          \/ parser'.length - parser'.index <= MaxRemaining - stream'.total + 1
    <3>1. CASE k \in 3 .. len - 1 /\ parser.length = len - 3 /\ parser.index = k - 3
      BY <1>2, <1>4, <2>1, <3>1 DEF len
    <3>2. CASE rest <= MaxRemaining - stream.total + 1
      BY <1>1, <1>2, <2>1, <3>2
    <3> QED
      BY <2>2, <3>1, <3>2
  <2> QED
    BY <2>1, <2>3 DEF TornEnds
<1> QED
  BY <1>6, <1>7

\* The other steps: a connection begins with nothing taken, and so does a
\* packet.
LEMMA TornStep ==
  ASSUME LinkCore, TornEnds, [Next]_vars
  PROVE  TornEnds'
<1>1. /\ LinkKnown /\ parser \in Parsers /\ stream \in Streams /\ seen \in Histories
      /\ MaxRemaining \in 2..250
  BY LinkAssumption DEF LinkCore, TypeOK
<1>2. CASE NRFPacketParser
  BY <1>2, TornShrinks
<1>3. CASE Connect
  <2>1. stream' = NoStream /\ parser' = parser
    BY <1>1, <1>3 DEF Connect, LinkKnown, Ready, parsing
  <2>2. stream'.total = 0
    BY <2>1 DEF NoStream
  <2>3. parser'.length - parser'.index <= MaxRemaining - stream'.total + 1
    <3>1. parser.length \in 0..MaxRemaining /\ parser.index \in 0..MaxRemaining
      BY <1>1 DEF Parsers
    <3> QED
      BY <1>1, <2>1, <2>2, <3>1
  <2> QED
    BY <2>2, <2>3 DEF TornEnds
<1>4. CASE \E p \in Packets : Send(p)
  <2>1. PICK p \in Packets : Send(p)
    BY <1>4
  <2>2. /\ Sent /\ stream'.total = stream.total /\ parser' = parser
        /\ UNCHANGED <<power, link>>
        /\ seen' = [seen EXCEPT !.sent = Append(@, Command(p)), !.formed = @ /\ WellFormed(p)]
    BY <1>1, <2>1 DEF Send, connection, Streams
  <2>3. Serving' => Serving
    <3>1. seen'.formed => seen.formed
      BY <1>1, <2>2 DEF Histories
    <3> QED
      BY <2>2, <3>1 DEF Serving
  <2>4. stream.taken \notin 3 .. Len(stream.packet) - 1
    BY <2>2 DEF Sent
  <2> QED
    BY <2>2, <2>3, <2>4 DEF TornEnds
<1>5. CASE Disconnected \/ Restart \/ advertising_start
  <2>1. ~Serving'
    BY <1>1, <1>5 DEF Disconnected, Restart, advertising_start, LinkKnown, Serving
  <2> QED
    BY <2>1 DEF TornEnds
<1>6. CASE \/ Interrupt \/ GattTimeout \/ AdvTimeout \/ Subscribe \/ HvnDone
           \/ nus_data_handler \/ UNCHANGED vars
  BY <1>6, QuietStep, SameTorn DEF Serving
<1> QED
  BY <1>2, <1>3, <1>4, <1>5, <1>6 DEF Next, Event

\* A torn packet that has ended has left the parser at rest.
LEMMA TornIsOver ==
  ASSUME LinkCore, TornEnds
  PROVE  Resyncs
<1> SUFFICES ASSUME Serving, Sent, stream.total > MaxRemaining, parser.ss # "WAIT_1TH"
             PROVE  FALSE
  BY DEF Resyncs
<1>1. /\ parser \in Parsers /\ stream \in Streams /\ MaxRemaining \in 2..250 /\ seen.formed
      /\ parser.ss = "WAIT_REMAINING" => /\ parser.index = 0 \/ parser.index < parser.length
                                         /\ Fits(parser)
  BY LinkAssumption DEF LinkCore, TypeOK, ReplyFits, Serving
<1>2. /\ parser.ss \in {"WAIT_1TH", "WAIT_2TH", "WAIT_LENGTH", "WAIT_REMAINING"}
      /\ parser.length \in Nat /\ parser.index \in Nat /\ stream.total \in Nat
  BY <1>1 DEF Parsers, Streams
<1>3. parser.ss = "WAIT_REMAINING"
  BY <1>1, <1>2 DEF TornEnds
<1>4. stream.taken \notin 3 .. Len(stream.packet) - 1
  BY DEF Sent
<1>5. parser.length - parser.index <= MaxRemaining - stream.total + 1
  BY <1>3, <1>4 DEF TornEnds
<1>6. parser.length # 0
  <2>1. parser.length = 0 => (parser.length + 255) % 256 = 255
    OBVIOUS
  <2> QED
    BY <1>1, <1>3, <2>1 DEF Fits, DataLen
<1> QED
  BY <1>1, <1>2, <1>3, <1>5, <1>6

\* A parser that a lost connection has left within a packet is at rest again
\* once the next client has sent more than a packet may hold
\* (nrfparsr.c:76-120, main.c:399-404), however long packets may be.
THEOREM ParserResyncs == Spec => []Resyncs
<1>1. Init => TornEnds
  BY DEF Init, PowerUp, TornEnds, Serving
<1> QED
  BY <1>1, TornIsOver, TornStep, CoreInvariant, PTL DEF Spec

-----------------------------------------------------------------------------
(* The refinement of LinkService.                                          *)

Asked == IF Sent THEN <<>> ELSE <<Command(stream.packet)>>

\* Steps that leave the parser and the client's packets alone leave what is
\* asked and what may be lost alone.
LEMMA SameTalk ==
  ASSUME parser' = parser, stream'.taken = stream.taken, stream'.packet = stream.packet,
         stream'.total = stream.total, seen'.sent = seen.sent,
         link' = "none" <=> link = "none"
  PROVE  /\ Asked' = Asked /\ InStep' = InStep /\ Swallow' = Swallow
         /\ Finished' = Finished /\ FinishedBytes' = FinishedBytes
<1>1. Sent' = Sent /\ Command(stream.packet)' = Command(stream.packet)
  BY DEF Sent, Command
<1>2. InStep' = InStep
  BY <1>1 DEF InStep
<1>3. Finished' = Finished /\ FinishedBytes' = FinishedBytes
  BY <1>1 DEF Finished, FinishedBytes
<1> QED
  BY <1>1, <1>2, <1>3 DEF Asked, Swallow

\* A client begins a packet when the one before has arrived.
LEMMA SendTalk ==
  ASSUME LinkCore, LinkCore', NEW p \in Packets, Send(p), seen'.formed
  PROVE  /\ seen.formed /\ power = "on" /\ link # "none" /\ Sent /\ ~Sent'
         /\ UNCHANGED <<parser, g_enable_notify, link, cccd, handler, power, hvn>>
         /\ WellFormed(p) /\ Command(stream.packet)' = Command(p)
         /\ InStep' = InStep /\ Finished' = Finished /\ FinishedBytes' = FinishedBytes
         /\ Swallow' = Swallow
<1>1. stream \in Streams /\ seen \in Histories /\ p \in Seq(Byte)
  BY LinkAssumption DEF LinkCore, TypeOK
<1>2. /\ stream' = [stream EXCEPT !.packet = p, !.written = 0, !.taken = 0]
      /\ seen' = [seen EXCEPT !.sent = Append(@, Command(p)), !.formed = @ /\ WellFormed(p)]
      /\ UNCHANGED <<parser, g_enable_notify, link, cccd, handler, power, hvn>>
      /\ power = "on" /\ link # "none" /\ Sent
  BY DEF Send, connection
<1>3. stream'.packet = p /\ stream'.taken = 0 /\ stream'.total = stream.total
  BY <1>1, <1>2 DEF Streams
<1>4. /\ seen'.sent = Append(seen.sent, Command(p))
      /\ seen'.formed <=> seen.formed /\ WellFormed(p)
  <2> HIDE DEF WellFormed
  <2> QED
    BY <1>1, <1>2 DEF Histories
<1>5. WellFormed(p) /\ ~Sent'
  BY <1>3, <1>4 DEF WellFormed, Sent
<1>6. Len(seen'.sent) = Len(seen.sent) + 1 /\ Len(seen.sent) \in Nat
  BY <1>1, <1>4, CommandType DEF Histories
<1>7. Finished' = Finished
  BY <1>2, <1>5, <1>6 DEF Finished
<1>8. FinishedBytes' = FinishedBytes
  <2>1. stream.total \in Nat
    BY <1>1 DEF Streams
  <2> QED
    BY <1>2, <1>3, <1>5, <2>1 DEF FinishedBytes
<1>9. InStep' = InStep
  <2>1. InStep <=> parser.ss = "WAIT_1TH"
    BY <1>2 DEF InStep, Sent
  <2>2. InStep' <=> parser'.ss = "WAIT_1TH"
    BY <1>3, <1>5 DEF InStep
  <2>3. InStep \in BOOLEAN /\ InStep' \in BOOLEAN
    BY DEF InStep
  <2> QED
    BY <1>2, <2>1, <2>2, <2>3
<1>10. Swallow' = Swallow
  BY <1>2, <1>7, <1>9 DEF Swallow
<1>11. Command(stream.packet)' = Command(p)
  BY <1>3 DEF Command
<1> QED
  BY <1>2, <1>4, <1>5, <1>7, <1>8, <1>9, <1>10, <1>11

\* A byte leaves the packets of the connection as they are, or ends one of four
\* bytes at least.
LEMMA ByteTalk ==
  ASSUME LinkCore, NRFPacketParser, Serving
  PROVE  /\ seen'.sent = seen.sent /\ UNCHANGED <<seen.formed, power, link>>
         /\ Finished \in Int /\ FinishedBytes \in Int /\ stream'.total \in Nat
         /\ Finished' = (IF Sent' THEN Finished + 1 ELSE Finished)
         /\ FinishedBytes' = (IF Sent' THEN stream'.total ELSE FinishedBytes)
         /\ Sent' => FinishedBytes' >= FinishedBytes + 4
<1>1. TypeOK /\ ParserPlace /\ seen \in Histories
  BY DEF LinkCore, TypeOK
<1>2. /\ stream.taken \in Nat /\ stream.total \in Nat /\ ~Sent
      /\ stream'.taken = stream.taken + 1 /\ stream'.total = stream.total + 1
      /\ stream'.packet = stream.packet
  BY <1>1, NextByte
<1>3. Len(stream.packet) >= 4 /\ Len(stream.packet) \in Nat
  BY <1>1, FormedByte, LinkAssumption DEF Serving
<1>4. seen'.sent = seen.sent /\ UNCHANGED <<seen.formed, link>>
  <2>1. UNCHANGED seen \/ (NRFCommandParser(parser') /\ parser' \in Parsers)
    BY <1>1, HeadByte, RemainingByte
  <2> QED
    BY <1>1, <2>1, Executed DEF NRFPacketParser, connection
<1>5. power' = power
  <2>1. CASE parser.ss # "WAIT_REMAINING"
    BY <1>1, <2>1, HeadByte
  <2>2. CASE parser.ss = "WAIT_REMAINING"
    <3>1. Fits(parser) /\ parser'.length = parser.length /\ parser' \in Parsers
      BY <1>1, <2>2, RemainingByte DEF LinkCore, ReplyFits, Serving
    <3>2. Fits(parser')
      BY <3>1 DEF Fits, DataLen
    <3> QED
      BY <1>1, <2>2, <3>1, <3>2, RemainingByte, Executed
  <2> QED
    BY <2>1, <2>2
<1>6. Len(seen.sent) \in Nat
  BY <1>1 DEF Histories
<1>7. Finished \in Int /\ Finished' = (IF Sent' THEN Finished + 1 ELSE Finished)
  BY <1>2, <1>4, <1>6 DEF Finished
<1>8. /\ FinishedBytes = stream.total - stream.taken
      /\ FinishedBytes' = IF Sent' THEN stream.total + 1 ELSE stream.total - stream.taken
  BY <1>2 DEF FinishedBytes
<1>9. Sent' => stream.taken + 1 >= 4
  BY <1>2, <1>3 DEF Sent
<1> QED
  BY <1>2, <1>4, <1>5, <1>7, <1>8, <1>9

\* A connection begins with no packet finished, a packet finishes with its last
\* byte, and then the parser is in step or what was torn is still under way.
LEMMA FewLostStep ==
  ASSUME LinkCore, TornEnds, LinkCore', TornEnds', FewLost, [Next]_vars
  PROVE  FewLost'
<1> DEFINE Few == 4 * Finished <= FinishedBytes /\ (InStep \/ FinishedBytes <= MaxRemaining)
<1> SUFFICES ASSUME Serving' PROVE Few'
  BY DEF FewLost
<1>1. /\ TypeOK /\ LinkKnown /\ ParserPlace /\ seen \in Histories /\ stream \in Streams
      /\ MaxRemaining \in 2..250
  BY LinkAssumption DEF LinkCore, TypeOK
<1>2. CASE NRFPacketParser
  <2>1. Serving
    <3>1. power = "on" /\ UNCHANGED link
      BY <1>1, <1>2, NextByte DEF NRFPacketParser, connection
    <3>2. UNCHANGED seen \/ (NRFCommandParser(parser') /\ parser' \in Parsers)
      BY <1>1, <1>2, HeadByte, RemainingByte
    <3>3. seen'.formed = seen.formed
      BY <1>1, <3>2, Executed
    <3> QED
      BY <3>1, <3>3 DEF Serving
  <2>2. /\ Finished \in Int /\ FinishedBytes \in Int /\ stream'.total \in Nat
        /\ Finished' = (IF Sent' THEN Finished + 1 ELSE Finished)
        /\ FinishedBytes' = (IF Sent' THEN stream'.total ELSE FinishedBytes)
        /\ Sent' => FinishedBytes' >= FinishedBytes + 4
    BY <1>2, <2>1, ByteTalk
  <2>3. Few
    BY <2>1 DEF FewLost
  <2>4. InStep => InStep'
    BY <1>1, <1>2, <2>1, InStepStays DEF Serving
  <2>5. CASE ~Sent'
    BY <2>2, <2>3, <2>4, <2>5
  <2>6. CASE Sent'
    <3>1. (LinkCore /\ TornEnds => Resyncs)'
      BY TornIsOver, PTL
    <3>2. stream'.total > MaxRemaining => parser'.ss = "WAIT_1TH"
      BY <2>6, <3>1 DEF Resyncs
    <3>3. parser'.ss = "WAIT_1TH" => InStep'
      BY <2>6 DEF InStep
    <3> QED
      BY <1>1, <2>2, <2>3, <2>6, <3>2, <3>3
  <2> QED
    BY <2>5, <2>6
<1>3. CASE Connect
  <2>1. stream' = NoStream /\ seen'.sent = <<>>
    BY <1>1, <1>3 DEF Connect, LinkKnown, Ready, parsing, Histories
  <2>2. Sent' /\ Finished' = 0 /\ FinishedBytes' = 0
    BY <2>1 DEF NoStream, Sent, Finished, FinishedBytes
  <2> QED
    BY <1>1, <2>2
<1>4. CASE \E p \in Packets : Send(p)
  BY <1>4, SendTalk DEF Serving, FewLost
<1>5. CASE Disconnected \/ Restart \/ advertising_start
  BY <1>1, <1>5 DEF Disconnected, Restart, advertising_start, LinkKnown, Serving
<1>6. CASE \/ Interrupt \/ GattTimeout \/ AdvTimeout \/ Subscribe \/ HvnDone
           \/ nus_data_handler \/ UNCHANGED vars
  BY <1>6, QuietStep, SameTalk DEF FewLost, Serving
<1> QED
  BY <1>2, <1>3, <1>4, <1>5, <1>6 DEF Next, Event

\* Bytes come with a write only, and until they are taken nothing else runs.
LEMMA TakingStep ==
  ASSUME LinkCore, Taking, [Next]_vars
  PROVE  Taking'
<1>1. stream \in Streams /\ stream.taken <= stream.written /\ TypeOK /\ LinkKnown
  BY DEF LinkCore, TypeOK
<1>2. CASE NRFPacketParser
  <2>1. power = "on" /\ stream.taken < stream.written /\ UNCHANGED link
    BY <1>2 DEF NRFPacketParser, connection
  <2> QED
    BY <2>1 DEF Taking
<1>3. CASE nus_data_handler
  BY <1>3 DEF Taking, nus_data_handler, Ready, connection
<1>4. CASE \E p \in Packets : Send(p)
  BY <1>4 DEF Taking, Send, connection
<1>5. CASE Disconnected \/ Restart
  <2>1. ~(stream'.taken < stream'.written)
    BY <1>5 DEF Disconnected, Restart, NoStream
  <2> QED
    BY <2>1 DEF Taking
<1>6. CASE Interrupt \/ Connect \/ GattTimeout \/ AdvTimeout \/ Subscribe \/ HvnDone
  <2>1. stream.taken = stream.written /\ stream' = stream
    BY <1>1, <1>6, InterruptFrame DEF Connect, GattTimeout, AdvTimeout, Subscribe, HvnDone,
       Ready, parsing
  <2>2. ~(stream'.taken < stream'.written)
    BY <1>1, <2>1 DEF Streams
  <2> QED
    BY <2>2 DEF Taking
<1>7. CASE advertising_start
  <2>1. stream' = NoStream
    BY <1>1, <1>7 DEF advertising_start, parsing, LinkKnown
  <2>2. ~(stream'.taken < stream'.written)
    BY <2>1 DEF NoStream
  <2> QED
    BY <2>2 DEF Taking
<1>8. CASE UNCHANGED vars
  BY <1>8 DEF Taking, vars, parsing, connection
<1> QED
  BY <1>2, <1>3, <1>4, <1>5, <1>6, <1>7, <1>8 DEF Next, Event

\* The whole invariant: with how long a torn packet lasts (nrfparsr.c:76-120).
THEOREM LinkInvariant == Spec => []LinkInv
<1>1. Init => Taking /\ TornEnds /\ FewLost
  BY DEF Init, PowerUp, Taking, TornEnds, FewLost, Serving
<1>2. /\ LinkCore /\ TornEnds /\ [Next]_vars => TornEnds'
      /\ LinkCore /\ Taking /\ [Next]_vars => Taking'
      /\ LinkCore /\ LinkCore' /\ TornEnds /\ TornEnds' /\ FewLost /\ [Next]_vars => FewLost'
  BY TornStep, TakingStep, FewLostStep
<1> QED
  BY <1>1, <1>2, CoreInvariant, PTL DEF Spec, LinkInv

\* Out of step there is always a packet left that may be lost.
LEMMA SwallowPositive ==
  ASSUME LinkCore, FewLost, power = "on", seen.formed
  PROVE  /\ Swallow \in Int /\ MaxLost \in Nat
         /\ InStep => Swallow = 0
         /\ ~InStep => Swallow > 0
<1>1. MaxRemaining \in 2..250 /\ Len(seen.sent) \in Nat /\ stream \in Streams
  BY LinkAssumption DEF LinkCore, TypeOK, Histories
<1>2. MaxLost \in Nat /\ MaxLost > 0 /\ Finished \in Int /\ FinishedBytes \in Int
  BY <1>1 DEF MaxLost, Finished, FinishedBytes, Streams
<1>3. CASE link # "none" /\ ~InStep
  <2>1. 4 * Finished <= FinishedBytes /\ FinishedBytes <= MaxRemaining
    BY <1>3 DEF FewLost, Serving
  <2>2. Finished < MaxLost
    BY <1>1, <1>2, <2>1 DEF MaxLost
  <2> QED
    BY <1>2, <1>3, <2>2 DEF Swallow
<1>4. CASE link = "none" \/ InStep
  BY <1>2, <1>4 DEF Swallow
<1> QED
  BY <1>3, <1>4

\* A handler that reports the encoder to the client decides on a notification
\* and sends or withholds it.
LEMMA ReportServes ==
  ASSUME LinkInv,
         qdec_event_handler \/ TestEnabled \/ TestConnected \/ ReadHandle \/ NRFNotifyPosInfo
  PROVE  Service!ServiceNext \/ UNCHANGED Service!serviceVars
<1>1. /\ LinkCore /\ TypeOK /\ Interrupt /\ handler \in Handlers /\ hvn \in 0..HvnSize
      /\ HvnSize \in Nat
  BY LinkAssumption DEF LinkInv, LinkCore, TypeOK, Interrupt
<1>2. /\ power' = power /\ power = "on" /\ link' = link /\ cccd' = cccd
      /\ g_connected <=> link # "none"
      /\ m_conn_handle = Handle <=> link # "none"
  BY <1>1, InterruptFrame DEF qdec_event_handler, TestEnabled, TestConnected, ReadHandle,
     NRFNotifyPosInfo, LinkCore, LinkKnown
<1>3. /\ Asked' = Asked /\ Swallow' = Swallow /\ g_enable_notify' = g_enable_notify
      /\ seen'.formed = seen.formed
  BY <1>1, QuietStep, SameTalk
<1>4. Plan' = Plan
  <2>1. handler.at \in {"idle", "enabled?", "connected?", "handle", "send"}
    BY DEF qdec_event_handler, TestEnabled, TestConnected, ReadHandle, NRFNotifyPosInfo,
       Handles
  <2>2. handler'.at \in {"idle", "enabled?", "connected?", "handle", "send"}
    <3>1. CASE ReadHandle
      BY <1>1, <3>1 DEF ReadHandle, Handles, Handlers
    <3>2. CASE qdec_event_handler \/ TestEnabled \/ TestConnected \/ NRFNotifyPosInfo
      BY <3>2 DEF qdec_event_handler, TestEnabled, TestConnected, NRFNotifyPosInfo, Handles,
         Step, Resting
    <3> QED
      BY <3>1, <3>2
  <2> QED
    BY <2>1, <2>2 DEF Plan, OnLink, OffLink
<1>5. CASE qdec_event_handler
  <2>1. Due' = Due /\ hvn' = hvn
    BY <1>5 DEF Due, qdec_event_handler, Handles, Step
  <2> QED
    BY <1>2, <1>3, <1>4, <2>1 DEF Asked, Service!serviceVars, Service!talk, Service!outgoing
<1>6. CASE TestEnabled
  <2>1. hvn' = hvn /\ Due = "no"
    BY <1>6 DEF Due, TestEnabled, Handles
  <2>2. \/ Due' = "no"
        \/ Due' = "yes" /\ g_enable_notify # 0
    BY <1>6 DEF Due, TestEnabled, Handles, Step, Resting, IsEnableNotify
  <2>3. CASE Due' = "no"
    BY <1>2, <1>3, <1>4, <2>1, <2>3 DEF Asked, Service!serviceVars, Service!talk,
       Service!outgoing
  <2>4. CASE Due' = "yes" /\ g_enable_notify # 0
    BY <1>2, <1>3, <1>4, <2>1, <2>4 DEF Asked, Service!ServiceNext, Service!Report,
       Service!talk
  <2> QED
    BY <2>2, <2>3, <2>4
<1>7. CASE TestConnected
  <2>1. hvn' = hvn /\ Due = "yes"
    BY <1>7 DEF Due, TestConnected, Handles
  <2>2. \/ Due' = "yes"
        \/ Due' = "no" /\ link = "none"
    BY <1>2, <1>7 DEF Due, TestConnected, Handles, Step, Resting
  <2>3. CASE Due' = "yes"
    BY <1>2, <1>3, <1>4, <2>1, <2>3 DEF Asked, Service!serviceVars, Service!talk,
       Service!outgoing
  <2>4. CASE Due' = "no" /\ link = "none"
    BY <1>2, <1>3, <1>4, <2>1, <2>4 DEF Asked, Service!ServiceNext, Service!Withhold,
       Service!talk
  <2> QED
    BY <2>2, <2>3, <2>4
<1>8. CASE ReadHandle
  <2>1. hvn' = hvn /\ Due = "yes"
    BY <1>8 DEF Due, ReadHandle, Handles
  <2>2. \/ Due' = "yes"
        \/ Due' = "stale" /\ link = "none"
    BY <1>1, <1>2, <1>8 DEF Due, ReadHandle, Handles, Handlers
  <2>3. CASE Due' = "yes"
    BY <1>2, <1>3, <1>4, <2>1, <2>3 DEF Asked, Service!serviceVars, Service!talk,
       Service!outgoing
  <2>4. CASE Due' = "stale" /\ link = "none"
    BY <1>2, <1>3, <1>4, <2>1, <2>4 DEF Asked, Service!ServiceNext, Service!Withhold,
       Service!talk
  <2> QED
    BY <2>2, <2>3, <2>4
<1>9. CASE NRFNotifyPosInfo
  <2>1. Due' = "no" /\ handler.at = "send"
    BY <1>9 DEF Due, NRFNotifyPosInfo, Handles, Resting, Step
  <2>2. Due = IF handler.handle = Handle THEN "yes" ELSE "stale"
    BY <2>1 DEF Due
  <2>3. CASE Accepted(handler.handle)
    <3>1. Due = "yes" /\ link # "none" /\ cccd /\ hvn < HvnSize /\ hvn' = hvn + 1
      BY <1>9, <2>2, <2>3 DEF Accepted, NRFNotifyPosInfo
    <3> QED
      BY <1>2, <1>3, <1>4, <2>1, <3>1 DEF Asked, Service!ServiceNext, Service!Notify,
         Service!talk
  <2>4. CASE ~Accepted(handler.handle)
    <3>1. hvn' = hvn
      BY <1>9, <2>4 DEF NRFNotifyPosInfo
    <3>2. Due = "stale" \/ link = "none" \/ ~cccd \/ hvn = HvnSize
      BY <1>1, <2>2, <2>4 DEF Accepted
    <3>3. Due # "no"
      BY <2>2
    <3> QED
      BY <1>2, <1>3, <1>4, <2>1, <3>1, <3>2, <3>3 DEF Asked, Service!ServiceNext,
         Service!Withhold, Service!talk
  <2> QED
    BY <2>3, <2>4
<1> QED
  BY <1>5, <1>6, <1>7, <1>8, <1>9

\* The other handlers intend something, and then do it, find that there is
\* nothing to do, or stop the device after they were overtaken.
LEMMA PlanServes ==
  ASSUME LinkInv,
         \/ Raise \/ on_conn_params_evt \/ bsp_event_disconnect \/ sd_ble_gap_disconnect
         \/ bsp_event_whitelist_off \/ ble_advertising_restart \/ sleep_mode_enter
  PROVE  Service!ServiceNext \/ UNCHANGED Service!serviceVars
<1>1. /\ LinkCore /\ TypeOK /\ Interrupt /\ handler \in Handlers /\ HandlerKnows
      /\ link \in {"none", "up", "closing"}
  BY DEF LinkInv, LinkCore, TypeOK, Interrupt
<1>2. power = "on" /\ cccd' = cccd
  BY <1>1, InterruptFrame
<1>3. /\ Asked' = Asked /\ Swallow' = Swallow /\ g_enable_notify' = g_enable_notify
      /\ seen'.formed = seen.formed
  BY <1>1, QuietStep, SameTalk
<1>4. hvn' = hvn
  BY DEF Raise, Raised, on_conn_params_evt, bsp_event_disconnect, sd_ble_gap_disconnect,
     bsp_event_whitelist_off, ble_advertising_restart, sleep_mode_enter
<1>5. Due' = Due
  <2> DEFINE Elsewhere == {"idle", "bsp_indication_set", "bsp_btn_ble_sleep_mode_prepare",
                           "sd_power_system_off"} \cup OnLink \cup OffLink
  <2>1. handler.at \in Elsewhere
    BY DEF Raise, Raised, on_conn_params_evt, bsp_event_disconnect, sd_ble_gap_disconnect,
       bsp_event_whitelist_off, ble_advertising_restart, sleep_mode_enter, Handles,
       OnLink, OffLink
  <2>2. handler'.at \in Elsewhere
    <3>1. CASE on_conn_params_evt \/ bsp_event_disconnect
      <4>1. handler'.at \in {"conn_params", "bsp"}
        BY <1>1, <3>1 DEF on_conn_params_evt, bsp_event_disconnect, Handles, Handlers
      <4> QED
        BY <4>1 DEF OnLink
    <3>2. CASE bsp_event_whitelist_off
      <4>1. handler' = Resting \/ handler' = [handler EXCEPT !.at = "restart"]
        BY <3>2 DEF bsp_event_whitelist_off, Handles
      <4>2. handler'.at \in {"idle", "restart"}
        BY <1>1, <4>1 DEF Handlers, Resting, Step
      <4> QED
        BY <4>2 DEF OffLink
    <3>3. CASE Raise \/ sd_ble_gap_disconnect \/ ble_advertising_restart \/ sleep_mode_enter
      BY <3>3 DEF Raise, Raised, sd_ble_gap_disconnect, ble_advertising_restart,
         sleep_mode_enter, Handles, OnLink, OffLink, Resting, Step
    <3> QED
      BY <3>1, <3>2, <3>3
  <2>3. \A at \in Elsewhere : at \notin {"connected?", "handle", "send"}
    BY DEF OnLink, OffLink
  <2> HIDE DEF Elsewhere
  <2> QED
    BY <2>1, <2>2, <2>3 DEF Due
<1> DEFINE Kept == /\ Asked' = Asked /\ Swallow' = Swallow /\ hvn' = hvn /\ Due' = Due
                   /\ g_enable_notify' = g_enable_notify /\ seen'.formed = seen.formed
                   /\ cccd' = cccd /\ power = "on"
<1>6. Kept
  BY <1>2, <1>3, <1>4, <1>5
<1> HIDE DEF Kept
<1>7. ASSUME power' = power, link' = link, Plan' = Plan
      PROVE  UNCHANGED Service!serviceVars
  BY <1>6, <1>7 DEF Kept, Asked, Service!serviceVars, Service!talk, Service!outgoing
<1>8. ASSUME power' = power, link' = link, Plan' = "none"
      PROVE  Service!ServiceNext
  BY <1>6, <1>8 DEF Kept, Asked, Service!ServiceNext, Service!Abandon, Service!talk,
     Service!outgoing
<1>9. ASSUME link' = link, Plan' = "none",
             \/ power' = "stopped" /\ (link = "closing" \/ Plan = "late")
             \/ power' = "off" /\ Plan = "off"
      PROVE  Service!ServiceNext
  BY <1>6, <1>9 DEF Kept, Asked, Service!ServiceNext, Service!Stop, Service!talk,
     Service!outgoing
<1>10. handler' = Resting => Plan' = "none"
  BY DEF Plan, Resting, Step, OnLink, OffLink
<1>11. CASE Raise
  <2>1. Plan = "none" /\ power' = power /\ link' = link
    BY <1>11 DEF Plan, Raise, Raised, Handles, OnLink, OffLink
  <2>2. Plan' = "act" \/ (Plan' = "off" /\ link = "none")
    BY <1>11 DEF Plan, Raise, Raised, Handles, Step, OnLink, OffLink
  <2> QED
    BY <1>6, <2>1, <2>2 DEF Kept, Asked, Service!ServiceNext, Service!Intend, Service!talk,
       Service!outgoing
<1>12. CASE on_conn_params_evt \/ bsp_event_disconnect
  <2>1. /\ handler.at \in {"failed", "button"} /\ handler'.at \in {"conn_params", "bsp"}
        /\ handler'.link = handler.link /\ power' = power /\ link' = link
    BY <1>1, <1>12 DEF on_conn_params_evt, bsp_event_disconnect, Handles, Handlers
  <2>2. Plan' = Plan
    BY <2>1 DEF Plan, OnLink, OffLink
  <2> QED
    BY <1>7, <2>1, <2>2
<1>13. CASE bsp_event_whitelist_off
  <2>1. power' = power /\ link' = link /\ handler.at = "whitelist"
    BY <1>13 DEF bsp_event_whitelist_off, Handles
  <2>2. handler' = Resting \/ handler' = [handler EXCEPT !.at = "restart"]
    BY <1>13 DEF bsp_event_whitelist_off, Handles
  <2>3. CASE handler' = Resting
    BY <1>8, <1>10, <2>1, <2>3
  <2>4. CASE handler' = [handler EXCEPT !.at = "restart"]
    <3>1. handler'.at = "restart" /\ handler'.link = handler.link
      BY <1>1, <2>4 DEF Handlers
    <3>2. Plan' = Plan
      BY <2>1, <3>1 DEF Plan, OnLink, OffLink
    <3> QED
      BY <1>7, <2>1, <3>2
  <2> QED
    BY <2>2, <2>3, <2>4
<1>14. CASE sd_ble_gap_disconnect
  <2>1. /\ handler.at \in {"conn_params", "bsp"} /\ handler' = Resting
        /\ \/ link = "up" /\ link' = "closing" /\ power' = power
           \/ link' = link /\ power' = power
           \/ /\ link' = link /\ power' = "stopped"
              /\ ~(handler.handle = Handle /\ link = "up")
    BY <1>14 DEF sd_ble_gap_disconnect, Handles
  <2>2. Plan' = "none"
    BY <1>10, <2>1
  <2>3. Plan = IF handler.link = "same" THEN "act" ELSE "late"
    BY <2>1 DEF Plan, OnLink
  <2>4. handler.link = "same" => handler.handle = Handle /\ link # "none"
    BY <1>1, <2>1 DEF HandlerKnows, OnLink
  <2>5. CASE link = "up" /\ link' = "closing" /\ power' = power
    BY <1>6, <2>2, <2>5 DEF Kept, Asked, Service!ServiceNext, Service!Close, Service!talk,
       Service!outgoing
  <2>6. CASE link' = link /\ power' = power
    BY <1>8, <2>2, <2>6
  <2>7. CASE /\ link' = link /\ power' = "stopped"
             /\ ~(handler.handle = Handle /\ link = "up")
    BY <1>1, <1>9, <2>2, <2>3, <2>4, <2>7
  <2> QED
    BY <2>1, <2>5, <2>6, <2>7
<1>15. CASE ble_advertising_restart
  <2>1. /\ handler.at = "restart" /\ handler' = Resting /\ link' = link
        /\ power' = power \/ (power' = "stopped" /\ link # "none")
    BY <1>15, Zenon DEF ble_advertising_restart, Handles
  <2>2. Plan' = "none"
    BY <1>10, <2>1
  <2>3. link # "none" => Plan = "late"
    BY <1>1, <2>1 DEF Plan, HandlerKnows, OffLink
  <2> QED
    BY <1>8, <1>9, <2>1, <2>2, <2>3
<1>16. CASE sleep_mode_enter
  <2>1. /\ link' = link /\ Plan = "off"
        /\ \/ power' = power /\ Plan' = "off"
           \/ power' = "off" /\ Plan' = "none"
    BY <1>16 DEF sleep_mode_enter, Handles, Plan, Step, Resting, OnLink, OffLink
  <2> QED
    BY <1>7, <1>9, <2>1
<1> QED
  BY <1>11, <1>12, <1>13, <1>14, <1>15, <1>16

\* Within a connection a reply is the service's answer.
LEMMA ReplyAnswers ==
  ASSUME LinkKnown, power = "on", link # "none", Reply
  PROVE  hvn' = IF cccd /\ hvn < HvnSize THEN hvn + 1 ELSE hvn
<1>1. g_connected /\ m_conn_handle = Handle
  BY DEF LinkKnown
<1> QED
  BY <1>1 DEF Reply, Accepted

\* A byte is nothing to the client until it is the last of a command, unless the
\* parser is out of step.
LEMMA ByteServes ==
  ASSUME LinkInv, LinkInv', NRFPacketParser, seen.formed
  PROVE  Service!ServiceNext \/ UNCHANGED Service!serviceVars
<1>1. /\ LinkCore /\ TypeOK /\ LinkKnown /\ ParserPlace /\ Taking /\ FewLost
      /\ LinkCore' /\ FewLost' /\ g_enable_notify' \in Byte
      /\ parser.ss = "WAIT_REMAINING" => parser.index < parser.length \/ parser.index = 0
  BY DEF LinkInv, LinkCore, TypeOK
<1>2. ~Sent /\ stream'.packet = stream.packet
  BY <1>1, NextByte
<1>3. /\ UNCHANGED <<link, cccd, handler>> /\ power = "on" /\ link # "none"
  BY <1>1 DEF NRFPacketParser, connection, Taking
<1>4. /\ power' = power /\ seen'.formed = seen.formed
      /\ Finished \in Int
      /\ Finished' = (IF Sent' THEN Finished + 1 ELSE Finished)
  BY <1>1, <1>3, ByteTalk DEF Serving
<1>5. Due' = Due /\ Plan' = Plan
  BY <1>3 DEF Due, Plan
<1>6. /\ Asked = <<Command(stream.packet)>>
      /\ Asked' = IF Sent' THEN <<>> ELSE Asked
  BY <1>2 DEF Asked, Command
<1>7. CASE InStep
  <2>1. /\ InStep'
        /\ \/ ~Sent' /\ UNCHANGED <<g_enable_notify, hvn, power, seen>>
           \/ /\ Sent' /\ NRFCommandParser(parser')
              /\ parser'.length = Len(stream.packet) - 3
              /\ \A k \in 0 .. parser'.length - 1 :
                   parser'.remaining[k] = stream.packet[k + 4]
    BY <1>1, <1>7, InStepStays
  <2>2. Swallow = 0 /\ Swallow' = 0
    BY <1>7, <2>1 DEF Swallow
  <2>3. CASE ~Sent' /\ UNCHANGED <<g_enable_notify, hvn, power, seen>>
    BY <1>3, <1>4, <1>5, <1>6, <2>2, <2>3 DEF Asked, Service!serviceVars, Service!talk,
       Service!outgoing
  <2>4. CASE /\ Sent' /\ NRFCommandParser(parser')
             /\ parser'.length = Len(stream.packet) - 3
             /\ \A k \in 0 .. parser'.length - 1 :
                  parser'.remaining[k] = stream.packet[k + 4]
    <3> DEFINE p == stream.packet
    <3>1. WellFormed(p)
      BY <1>1, <1>2 DEF ParserPlace
    <3>2. Len(p) \in 4 .. MaxRemaining + 3 /\ (p[4] = 33 => Len(p) > 4) /\ MaxRemaining \in 2..250
      BY <3>1, LinkAssumption DEF WellFormed
    <3>3. parser'.remaining[0] = p[4] /\ (p[4] = 33 => parser'.remaining[1] = p[5])
      <4>1. 0 \in 0 .. parser'.length - 1
        BY <2>4, <3>2
      <4>2. p[4] = 33 => 1 \in 0 .. parser'.length - 1
        BY <2>4, <3>2
      <4>3. parser'.remaining[0] = p[0 + 4] /\ (p[4] = 33 => parser'.remaining[1] = p[1 + 4])
        BY <2>4, <4>1, <4>2
      <4> QED
        BY <4>3
    <3>4. /\ Head(Asked) = Command(p) /\ Asked # <<>>
          /\ Command(p)[1] = p[4] /\ (p[4] = 33 => Command(p)[2] = p[5])
      <4>1. 1 \in 1 .. Len(p) - 3 /\ (p[4] = 33 => 2 \in 1 .. Len(p) - 3)
        BY <3>2
      <4>2. Command(p)[1] = p[1 + 3] /\ (p[4] = 33 => Command(p)[2] = p[2 + 3])
        BY <4>1 DEF Command
      <4> QED
        BY <1>6, <4>2
    <3> HIDE DEF p
    <3>5. /\ g_enable_notify' = IF p[4] = 33 THEN p[5] ELSE g_enable_notify
          /\ IF p[4] \in {32, 33} THEN Reply ELSE UNCHANGED hvn
      BY <2>4, <3>3 DEF NRFCommandParser
    <3>6. IF p[4] \in {32, 33} THEN hvn' = IF cccd /\ hvn < HvnSize THEN hvn + 1 ELSE hvn
                               ELSE hvn' = hvn
      BY <1>1, <1>3, <3>5, ReplyAnswers
    <3>7. Asked' = <<>>
      BY <1>6, <2>4
    <3>8. /\ g_enable_notify' = IF Head(Asked)[1] = 33 THEN Head(Asked)[2] ELSE g_enable_notify
          /\ IF Head(Asked)[1] \in {32, 33}
             THEN hvn' = IF cccd /\ hvn < HvnSize THEN hvn + 1 ELSE hvn
             ELSE hvn' = hvn
      BY <3>4, <3>5, <3>6
    <3>9. Service!Obey
      BY <1>3, <1>4, <1>5, <2>2, <3>4, <3>7, <3>8 DEF Asked, Service!Obey, Service!Answer
    <3> QED
      BY <3>9 DEF Service!ServiceNext
  <2> QED
    BY <2>1, <2>3, <2>4
<1>8. CASE ~InStep
  <2>1. /\ Swallow \in Int /\ Swallow > 0
        /\ Swallow = MaxLost - Finished
        /\ Swallow' = IF InStep' THEN 0 ELSE MaxLost - Finished'
        /\ MaxLost \in Nat
    BY <1>1, <1>3, <1>8, SwallowPositive DEF Swallow, MaxLost
  <2>2. \/ Asked' = Asked /\ Swallow' \in {0, Swallow}
        \/ Asked' = <<>> /\ Swallow' \in {0, Swallow - 1}
    BY <1>4, <1>6, <2>1
  <2>3. \/ UNCHANGED <<g_enable_notify, hvn>>
        \/ /\ g_enable_notify' \in Byte
           /\ hvn' = IF cccd /\ hvn < HvnSize THEN hvn + 1 ELSE hvn
    <3>1. UNCHANGED <<g_enable_notify, hvn>> \/ NRFCommandParser(parser')
      BY <1>1, HeadByte, RemainingByte
    <3>2. CASE NRFCommandParser(parser')
      <4>1. \/ UNCHANGED <<g_enable_notify, hvn>>
            \/ Reply
        BY <3>2 DEF NRFCommandParser
      <4> QED
        BY <1>1, <1>3, <4>1, ReplyAnswers
    <3> QED
      BY <3>1, <3>2
  <2>4. Asked # <<>>
    BY <1>6
  <2>5. Service!Misread
    BY <1>3, <1>4, <1>5, <2>1, <2>2, <2>3, <2>4 DEF Asked, Service!Misread, Service!Answer
  <2> QED
    BY <2>5 DEF Service!ServiceNext
<1> QED
  BY <1>7, <1>8

\* A client comes, goes and sends a command.
LEMMA ClientServes ==
  ASSUME LinkInv, LinkInv', seen.formed, seen'.formed,
         Connect \/ Disconnected \/ \E p \in Packets : Send(p)
  PROVE  Service!ServiceNext
<1>1. /\ LinkCore /\ LinkCore' /\ LinkKnown /\ LinkKnown' /\ FewLost /\ FewLost'
      /\ handler \in Handlers /\ seen \in Histories
      /\ handler.link \in {"same", "changed"}
  BY DEF LinkInv, LinkCore, TypeOK, Handlers
<1>2. LinkChanges => Due' = Due /\ Plan' = IF Plan = "act" THEN "late" ELSE Plan
  <2>1. LinkChanges =>
          /\ handler'.at = handler.at /\ handler'.handle = handler.handle
          /\ handler.at \in OnLink \cup OffLink => handler'.link = "changed"
    BY <1>1, Overtaken
  <2> QED
    BY <1>1, <2>1 DEF Due, Plan, OnLink, OffLink
<1>3. CASE Connect
  <2>1. /\ UNCHANGED <<parser, stream, g_enable_notify, power, hvn>> /\ LinkChanges
        /\ power = "on" /\ link = "none" /\ link' = "up" /\ cccd' = FALSE
        /\ seen'.sent = <<>>
    BY <1>1, <1>3 DEF Connect, Ready, parsing, Histories
  <2>2. Sent /\ Sent' /\ InStep' = InStep /\ Finished' = 0
    BY <1>1, <2>1 DEF LinkKnown, Sent, NoStream, InStep, Finished
  <2>3. Swallow' = Swallow
    <3>1. MaxLost \in Int
      BY <1>1, <2>1, SwallowPositive
    <3> QED
      BY <2>1, <2>2, <3>1 DEF Swallow, MaxLost
  <2> QED
    BY <1>2, <2>1, <2>2, <2>3 DEF Service!ServiceNext, Service!Arrive, Service!Overtake,
       Service!talk, Service!outgoing
<1>4. CASE Disconnected
  <2>1. /\ UNCHANGED <<parser, g_enable_notify, power, seen>> /\ LinkChanges
        /\ power = "on" /\ link # "none" /\ link' = "none" /\ cccd' = FALSE /\ hvn' = 0
        /\ stream' = NoStream
    BY <1>4 DEF Disconnected, Ready
  <2>2. Sent'
    BY <2>1 DEF Sent, NoStream
  <2>3. Swallow' \in {0, MaxLost}
    BY <2>1 DEF Swallow, MaxLost
  <2>4. Sent /\ Swallow = 0 => Swallow' = 0
    <3>1. Swallow = 0 => InStep
      BY <1>1, <2>1, SwallowPositive
    <3>2. Sent /\ InStep => parser.ss = "WAIT_1TH"
      BY DEF Sent, InStep
    <3>3. parser.ss = "WAIT_1TH" => InStep'
      BY <2>1, <2>2 DEF InStep, NoStream
    <3> QED
      BY <3>1, <3>2, <3>3 DEF Swallow
  <2>5. ~Sent => Asked # <<>>
    BY DEF Asked
  <2>6. Service!Leave
    BY <1>2, <2>1, <2>2, <2>3, <2>4, <2>5 DEF Asked, Service!Leave, Service!Overtake
  <2> QED
    BY <2>6 DEF Service!ServiceNext
<1>5. CASE \E p \in Packets : Send(p)
  <2>1. PICK p \in Packets : Send(p)
    BY <1>5
  <2>2. /\ power = "on" /\ link # "none" /\ Sent /\ ~Sent'
        /\ UNCHANGED <<parser, g_enable_notify, link, cccd, handler, power, hvn>>
        /\ WellFormed(p) /\ Command(stream.packet)' = Command(p) /\ Swallow' = Swallow
    BY <1>1, <2>1, SendTalk
  <2>3. Due' = Due /\ Plan' = Plan
    BY <2>2 DEF Due, Plan
  <2>4. Command(p) \in {Command(q) : q \in {r \in Packets : WellFormed(r)}}
    BY <2>2
  <2>5. Service!Ask(Command(p))
    <3>1. Command(stream'.packet) = Command(p)
      BY <2>2 DEF Command
    <3> QED
      BY <2>2, <2>3, <3>1 DEF Service!Ask, Service!outgoing
  <2> QED
    BY <2>4, <2>5 DEF Service!ServiceNext
<1> QED
  BY <1>3, <1>4, <1>5

\* The connection closes, the queue moves, and the device starts.
LEMMA OtherServes ==
  ASSUME LinkInv,
         \/ GattTimeout \/ AdvTimeout \/ Subscribe \/ HvnDone \/ nus_data_handler
         \/ advertising_start \/ UNCHANGED vars
  PROVE  Service!ServiceNext \/ UNCHANGED Service!serviceVars
<1>1. /\ LinkCore /\ hvn \in 0..HvnSize /\ HvnSize \in Nat /\ stream \in Streams
      /\ link \in {"none", "up", "closing"}
  BY LinkAssumption DEF LinkInv, LinkCore, TypeOK
<1>2. handler' = handler
  BY DEF GattTimeout, AdvTimeout, Subscribe, HvnDone, nus_data_handler, advertising_start, vars
<1>3. Due' = Due /\ Plan' = Plan
  BY <1>2 DEF Due, Plan
<1>4. CASE advertising_start
  <2>1. /\ power = "boot" /\ power' = "on" /\ UNCHANGED <<link, cccd, hvn>>
        /\ UNCHANGED <<parser, stream, g_enable_notify, seen>>
    BY <1>4 DEF advertising_start, parsing
  <2>2. Asked' = Asked /\ Swallow' = Swallow
    BY <2>1, SameTalk
  <2> QED
    BY <1>3, <2>1, <2>2 DEF Asked, Service!ServiceNext, Service!Start, Service!talk,
       Service!outgoing
<1>5. CASE \/ GattTimeout \/ AdvTimeout \/ Subscribe \/ HvnDone \/ nus_data_handler
           \/ UNCHANGED vars
  <2>1. /\ Asked' = Asked /\ Swallow' = Swallow /\ g_enable_notify' = g_enable_notify
        /\ seen'.formed = seen.formed
    BY <1>1, <1>5, QuietStep, SameTalk
  <2>2. CASE GattTimeout
    <3>1. /\ power = "on" /\ UNCHANGED <<cccd, hvn>>
          /\ \/ link = "up" /\ link' = "closing" /\ power' = power
             \/ link = "closing" /\ link' = link /\ power' = "stopped"
      BY <1>1, <2>2 DEF GattTimeout, Ready
    <3> QED
      BY <1>3, <2>1, <3>1 DEF Asked, Service!ServiceNext, Service!Close, Service!Stop,
         Service!talk, Service!outgoing
  <2>3. CASE AdvTimeout \/ nus_data_handler \/ UNCHANGED vars
    <3>1. UNCHANGED <<power, link, cccd, hvn>>
      BY <2>3 DEF AdvTimeout, nus_data_handler, vars, connection
    <3> QED
      BY <1>3, <2>1, <3>1 DEF Asked, Service!serviceVars, Service!talk, Service!outgoing
  <2>4. CASE Subscribe
    <3>1. power = "on" /\ link # "none" /\ cccd' = ~cccd /\ UNCHANGED <<power, link, hvn>>
      BY <2>4, Zenon DEF Subscribe, Ready
    <3> QED
      BY <1>3, <2>1, <3>1 DEF Asked, Service!ServiceNext, Service!Listen, Service!talk,
         Service!outgoing
  <2>5. CASE HvnDone
    <3>1. power = "on" /\ hvn > 0 /\ hvn' = hvn - 1 /\ UNCHANGED <<power, link, cccd>>
      BY <2>5 DEF HvnDone, Ready, connection
    <3> QED
      BY <1>3, <2>1, <3>1 DEF Asked, Service!ServiceNext, Service!Deliver, Service!talk
  <2> QED
    BY <1>5, <2>2, <2>3, <2>4, <2>5
<1> QED
  BY <1>4, <1>5

\* After a restart nothing of what was is left.
LEMMA RestartServes ==
  ASSUME LinkInv, Restart
  PROVE  Service!ServiceNext
<1>1. seen \in Histories
  BY DEF LinkInv, LinkCore, TypeOK
<1>2. /\ power \in {"off", "stopped"} /\ power' = "boot" /\ link' = "none"
      /\ g_enable_notify' = 0 /\ cccd' = FALSE /\ hvn' = 0
      /\ parser' = RestingParser /\ stream' = NoStream /\ handler' = Resting
      /\ seen' = [seen EXCEPT !.sent = <<>>, !.executed = <<>>, !.late = 0, !.formed = TRUE]
  BY DEF Restart
<1>3. seen'.formed
  BY <1>1, <1>2 DEF Histories
<1>4. Sent' /\ Swallow' = 0
  BY <1>2 DEF Sent, NoStream, Swallow, InStep, RestingParser
<1>5. Due' = "no" /\ Plan' = "none"
  BY <1>2 DEF Due, Plan, Resting, Step, OnLink, OffLink
<1> QED
  BY <1>2, <1>3, <1>4, <1>5 DEF Service!ServiceNext, Service!PowerUp, Service!Quiet

\* The radio side implements LinkService: what the parser does byte by byte, with
\* BLE events between the statements of the handlers, is to every client the
\* service it was promised, as long as all are well-formed (main.c:207-238,
\* 326-338, 399-404, nrfparsr.c:76-120).
THEOREM LinkImplementsService == Spec => ImplementsService
<1>1. Init => Service!ServiceInit
  <2> SUFFICES ASSUME Init PROVE Service!ServiceInit
    OBVIOUS
  <2>1. Sent /\ Swallow = 0 /\ Due = "no" /\ Plan = "none"
    BY DEF Init, PowerUp, Sent, NoStream, Swallow, InStep, RestingParser, Due, Plan, Resting,
       Step, OnLink, OffLink
  <2> QED
    BY <2>1 DEF Init, PowerUp, Service!ServiceInit, Service!Quiet
<1>2. ASSUME LinkInv, LinkInv', [Next]_vars
      PROVE  [Service!ServiceNext]_(Service!serviceVars)
  <2>1. LinkCore /\ seen \in Histories /\ TypeOK
    BY <1>2 DEF LinkInv, LinkCore, TypeOK
  <2>2. CASE ~seen'.formed
    BY <2>2 DEF Service!ServiceNext, Service!Breach
  <2>3. CASE seen'.formed /\ ~Restart
    <3>1. seen.formed
      <4>1. CASE \E p \in Packets : Send(p)
        <5>1. PICK p \in Packets : Send(p)
          BY <4>1
        <5>2. seen' = [seen EXCEPT !.sent = Append(@, Command(p)),
                                   !.formed = @ /\ WellFormed(p)]
          BY <5>1 DEF Send
        <5> HIDE DEF WellFormed
        <5> QED
          BY <2>1, <2>3, <5>2 DEF Histories
      <4>2. CASE NRFPacketParser
        <5>1. UNCHANGED seen \/ (NRFCommandParser(parser') /\ parser' \in Parsers)
          BY <2>1, <4>2, HeadByte, RemainingByte
        <5> QED
          BY <2>1, <2>3, <5>1, Executed
      <4>3. CASE Connect
        BY <2>1, <2>3, <4>3 DEF Connect, Histories
      <4>4. CASE Disconnected \/ advertising_start
        BY <2>3, <4>4 DEF Disconnected, advertising_start
      <4>5. CASE \/ Interrupt \/ GattTimeout \/ AdvTimeout \/ Subscribe \/ HvnDone
                 \/ nus_data_handler \/ UNCHANGED vars
        BY <2>1, <2>3, <4>5, QuietStep
      <4> QED
        BY <1>2, <2>3, <4>1, <4>2, <4>3, <4>4, <4>5 DEF Next, Event
    <3>2. CASE Interrupt
      BY <1>2, <3>2, ReportServes, PlanServes DEF Interrupt
    <3>3. CASE NRFPacketParser
      BY <1>2, <3>1, <3>3, ByteServes
    <3>4. CASE Connect \/ Disconnected \/ \E p \in Packets : Send(p)
      BY <1>2, <2>3, <3>1, <3>4, ClientServes
    <3>5. CASE \/ GattTimeout \/ AdvTimeout \/ Subscribe \/ HvnDone \/ nus_data_handler
               \/ advertising_start \/ UNCHANGED vars
      BY <1>2, <3>5, OtherServes
    <3> QED
      BY <1>2, <2>3, <3>2, <3>3, <3>4, <3>5 DEF Next, Event
  <2>4. CASE Restart
    BY <1>2, <2>4, RestartServes
  <2> QED
    BY <2>2, <2>3, <2>4
<1> QED
  BY <1>1, <1>2, LinkInvariant, PTL DEF Spec, ImplementsService, Service!ServiceSpec
=============================================================================
