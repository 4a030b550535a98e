----------------------------- MODULE LinkService -----------------------------
(***************************************************************************)
(* What the radio side promises to its clients.  A client sends commands,  *)
(* one at a time, and each is obeyed once, as it was sent, unless a lost   *)
(* connection has left the device within a packet: then at most MaxLost of *)
(* them are swallowed or misread, and none after that.  Notifications are  *)
(* queued while they are enabled, and at most one more afterwards; that    *)
(* they are enabled is a setting of the device and passes from one client  *)
(* to the next.  While a connection is sound, nothing stops the device but *)
(* a button or a failed negotiation that it overtakes.  All this as long   *)
(* as clients send nothing but commands.                                   *)
(***************************************************************************)
EXTENDS Integers, Sequences

CONSTANTS Commands,  \* a command and its data
          Values,    \* of a data byte
          MaxLost,   \* commands that the rest of a torn packet may cost
          Room       \* of the queue to the client

VARIABLES
  device,     \* "boot", "on", "stopped" by a fault, "off"
  client,     \* "none", "up", "closing" once the device has asked for it
  asked,      \* the command that was sent and is not yet obeyed, if any
  swallow,    \* commands that a torn packet may still cost
  enabled,    \* the setting, 0 is off
  breached,   \* a client has sent something else since power-up
  due,        \* a report to notify: "no", "yes", "stale" if nobody was there
  plan,       \* "none", "act": on what the device has seen of its client,
              \* "late": it has come or gone since, "off": as a button asks
  listening,  \* the client takes notifications
  queued      \* replies and notifications under way to it

talk == <<asked, swallow, enabled, breached>>
outgoing == <<due, queued>>
serviceVars == <<device, client, plan, talk, listening, outgoing>>

Quiet == /\ client = "none" /\ asked = <<>> /\ swallow = 0 /\ enabled = 0 /\ ~breached
         /\ due = "no" /\ plan = "none" /\ ~listening /\ queued = 0

ServiceInit == device = "boot" /\ Quiet

-----------------------------------------------------------------------------
(* The device and the connection.                                          *)

Start == /\ device = "boot" /\ device' = "on"
         /\ UNCHANGED <<client, plan, talk, listening, outgoing>>

\* A failed negotiation or a button.  The device is turned off only by one that
\* was pressed while nobody was connected.
Intend == /\ device = "on" /\ plan = "none"
          /\ \/ plan' = "act"
             \/ plan' = "off" /\ client = "none"
          /\ UNCHANGED <<device, client, talk, listening, outgoing>>

Abandon == /\ device = "on" /\ plan' = "none"
           /\ UNCHANGED <<device, client, talk, listening, outgoing>>

\* A fault stops it only with a connection that is being closed, or if one has
\* come or gone before the device acted.
Stop == /\ device = "on"
        /\ \/ device' = "stopped" /\ (client = "closing" \/ plan = "late")
           \/ device' = "off" /\ plan = "off"
        /\ plan' \in {plan, "none"}
        /\ UNCHANGED <<client, talk, listening, outgoing>>

PowerUp == /\ device \in {"stopped", "off"} /\ device' = "boot"
           /\ Quiet'

Overtake == plan' = IF plan = "act" THEN "late" ELSE plan

Arrive == /\ device = "on" /\ client = "none" /\ client' = "up" /\ listening' = FALSE
          /\ Overtake
          /\ UNCHANGED <<device, talk, outgoing>>

Close == /\ device = "on" /\ client = "up" /\ client' = "closing"
         /\ plan' \in {plan, "none"}
         /\ UNCHANGED <<device, talk, listening, outgoing>>

\* The connection ends.  A command under way is lost, and its packet is torn.
Leave == /\ device = "on" /\ client # "none" /\ client' = "none"
         /\ asked' = <<>> /\ listening' = FALSE /\ queued' = 0
         /\ swallow' \in IF asked = <<>> /\ swallow = 0 THEN {0} ELSE {0, MaxLost}
         /\ Overtake
         /\ UNCHANGED <<device, enabled, breached, due>>

-----------------------------------------------------------------------------
(* Commands.                                                               *)

Ask(c) == /\ device = "on" /\ client # "none" /\ asked = <<>> /\ asked' = <<c>>
          /\ UNCHANGED <<device, client, plan, swallow, enabled, breached, listening,
                        outgoing>>

Answer == queued' = IF listening /\ queued < Room THEN queued + 1 ELSE queued

\* A loop test and the setting are answered; other commands do nothing.
Obey == /\ device = "on" /\ asked # <<>> /\ swallow = 0
        /\ asked' = <<>>
        /\ enabled' = IF Head(asked)[1] = 33 THEN Head(asked)[2] ELSE enabled
        /\ IF Head(asked)[1] \in {32, 33} THEN Answer ELSE UNCHANGED queued
        /\ UNCHANGED <<device, client, plan, swallow, breached, due, listening>>

\* Behind a torn packet bytes of a command may be taken for another one, and
\* the command itself may be lost, which brings the end of it closer.
Misread == /\ device = "on" /\ asked # <<>> /\ swallow > 0
           /\ \/ asked' = asked /\ swallow' \in {0, swallow}
              \/ asked' = <<>> /\ swallow' \in {0, swallow - 1}
           /\ \/ UNCHANGED <<enabled, queued>>
              \/ enabled' \in Values /\ Answer
           /\ UNCHANGED <<device, client, plan, breached, due, listening>>

-----------------------------------------------------------------------------
(* Notifications.                                                          *)

Listen == /\ device = "on" /\ client # "none" /\ listening' = ~listening
          /\ UNCHANGED <<device, client, plan, talk, outgoing>>

Report == /\ device = "on" /\ enabled # 0 /\ due = "no" /\ due' = "yes"
          /\ UNCHANGED <<device, client, plan, talk, listening, queued>>

Notify == /\ device = "on" /\ due = "yes" /\ due' = "no"
          /\ client # "none" /\ listening /\ queued < Room /\ queued' = queued + 1
          /\ UNCHANGED <<device, client, plan, talk, listening>>

\* It is not sent if there is, or was, nobody to take it.
Withhold == /\ device = "on"
            /\ \/ due = "yes" /\ client = "none" /\ due' = "stale"
               \/ /\ due # "no" /\ due' = "no"
                  /\ due = "stale" \/ client = "none" \/ ~listening \/ queued = Room
            /\ UNCHANGED <<device, client, plan, talk, listening, queued>>

Deliver == /\ device = "on" /\ queued > 0 /\ queued' = queued - 1
           /\ UNCHANGED <<device, client, plan, talk, listening, due>>

-----------------------------------------------------------------------------
\* Once a client has sent anything else, nothing is promised until the device is
\* powered up again.
Breach == breached'

ServiceNext == \/ Breach
               \/ Start \/ Intend \/ Abandon \/ Stop \/ PowerUp \/ Arrive \/ Close \/ Leave
               \/ (\E c \in Commands : Ask(c)) \/ Obey \/ Misread
               \/ Listen \/ Report \/ Notify \/ Withhold \/ Deliver

ServiceSpec == ServiceInit /\ [][ServiceNext]_serviceVars
=============================================================================
