---------------------------- MODULE DosCommand ----------------------------
(***************************************************************************)
(* doscmd.c: the console on the UART, with nvram.c and qenc.c, which it    *)
(* commands.  uart_event_handle of main.c hands DOSCommandParser one       *)
(* character after the other; a line is run when 0x0d comes, inside the    *)
(* interrupt, and any other control character clears it.                   *)
(*                                                                         *)
(* A character is a space, a control character or a whole piece of text:   *)
(* a word is a sequence of pieces, so that pieces without a space between  *)
(* them make another word.  Words fit their buffers of 47 and 15           *)
(* characters; the two spellings of a word are one.                        *)
(***************************************************************************)
EXTENDS NvRam, EncoderSim

CONSTANTS Lines,    \* what is typed: sequences of pieces, spaces and CR
          MaxItems  \* room of aReceBuf, 79 characters

\* Everything that a line is made of.
Pieces == UNION {Range(line) : line \in Lines}

\* No word that is typed reads like erased flash.
ASSUME LineAssumption == /\ Lines \subseteq Seq(Pieces)
                         /\ Erased \notin Seq(Pieces)
                         /\ MaxItems \in Nat

VARIABLES aReceBuf, \* the NumOfByteReceived characters of the line
          typing    \* what the user has begun to type and not yet typed

consoleVars == <<aReceBuf, typing, nvVars, simVars>>

Space == " "
CR == "0x0d"
Control == "control"

Text(ch) == ch \notin {CR, Control}

-----------------------------------------------------------------------------
\* A word ends before the next space; one at the very start belongs to it.
LengthOfWord(s) == Cardinality({i \in 1..Len(s) : \A j \in 2..i : s[j] # Space})

FindWord(s) == SubSeq(s, 1, LengthOfWord(s))
Consumed(s) == SubSeq(s, LengthOfWord(s) + 2, Len(s))

FindCmdID(word) == CASE word = <<"nvram">> -> "CMD_NVRAM"
                     [] word = <<"sim">>   -> "CMD_SIM"
                     [] OTHER              -> "CMD_UNDEFINE"

\* "pedal nvram ...": s is the line after these words.
CMD_NVRAM(s) ==
  LET name == FindWord(Consumed(s))
      data == FindWord(Consumed(Consumed(s)))
  IN CASE FindWord(s) = <<"write">>   -> nvram_write(name, data)
       [] FindWord(s) = <<"program">> -> flash_page_erase
       [] FindWord(s) = <<"factory">> -> nvram_init(TRUE) /\ UNCHANGED <<page, next, cut>>
       [] OTHER                       -> UNCHANGED nvVars

\* "pedal sim ...": whatever is not "start" stops it.
CMD_SIM(s) == qdec_period_read_ctrl(FindWord(s) = <<"start">>)

Run(line) ==
  LET s == Consumed(line)
      id == IF FindWord(line) = <<"pedal">> THEN FindCmdID(FindWord(s)) ELSE "CMD_NONE"
  IN /\ IF id = "CMD_NVRAM" THEN CMD_NVRAM(Consumed(s)) ELSE UNCHANGED nvVars
     /\ IF id = "CMD_SIM" THEN CMD_SIM(Consumed(s)) ELSE UNCHANGED simVars

DOSCommandParser(ch) ==
  \/ /\ Text(ch)
     /\ aReceBuf' = IF Len(aReceBuf) < MaxItems THEN Append(aReceBuf, ch) ELSE aReceBuf
     /\ UNCHANGED <<nvVars, simVars>>
  \/ /\ ch = CR /\ aReceBuf' = << >>
     /\ Run(aReceBuf)
  \/ /\ ch = Control /\ aReceBuf' = << >>
     /\ UNCHANGED <<nvVars, simVars>>

-----------------------------------------------------------------------------
\* The interrupts of UART and timer wait while nvram_prog is at work in one.
Free == next = 0

Begin == /\ typing = << >> /\ typing' \in Lines
         /\ UNCHANGED <<aReceBuf, nvVars, simVars>>

\* The next character of the line, or a stray one before it.
Arriving == {Control} \cup (IF typing = << >> THEN {} ELSE {Head(typing)})

uart_event_handle ==
  /\ Free
  /\ \E ch \in Arriving : /\ DOSCommandParser(ch)
                          /\ typing' = IF ch = Control THEN typing ELSE Tail(typing)

Tick == Free /\ qdec_period_read_timer_handler /\ UNCHANGED <<aReceBuf, typing, nvVars>>

nvram_prog == flash_word_write /\ UNCHANGED <<aReceBuf, typing, simVars>>

\* The power fails and comes back; the user types on.
Reset == NvReset /\ SimReset /\ aReceBuf' = << >> /\ UNCHANGED typing

Init == NvInit /\ SimInit /\ aReceBuf = << >> /\ typing = << >>

Next == Begin \/ uart_event_handle \/ Tick \/ nvram_prog \/ Reset

\* A loop that writes flash comes to its end, and a timer interrupt that waited
\* for it is served then.
Spec == Init /\ [][Next]_consoleVars /\ WF_consoleVars(nvram_prog) /\ SF_consoleVars(Tick)

-----------------------------------------------------------------------------
\* What an element may hold.
Data == Range(Default) \cup Seq(Pieces)

TypeOK == /\ aReceBuf \in Seq(Pieces) /\ Len(aReceBuf) <= MaxItems
          /\ typing \in Seq(Pieces)
          /\ nvram \in [Elements -> Data] /\ page \in [Elements -> Data \cup {Erased}]
          /\ next \in {0} \cup Elements /\ cut \in BOOLEAN
          /\ ss \in SimStates /\ start_sim \in BOOLEAN /\ running \in BOOLEAN
          /\ raw_pos \in {"zero", "mid", "one"} /\ factor_index \in Int
          /\ stopping \in 0..MaxFade + 1

\* Types; the page and the decay table stay whole and in bounds, and a stopped
\* simulation ends in time, whatever lines, stray characters and power failures
\* come between (nvram.c:207, qenc.c:138, 160).
ConsoleInv == TypeOK /\ PageIsWhole /\ FactorInTable /\ StopsInTime

\* After "stop", the simulation fades out and its timer ends, unless "start" or a
\* power failure comes in between (qenc.c:146, 160).
SimStops == running /\ ~start_sim ~> ~running \/ start_sim
=============================================================================
