--------------------------- MODULE MCDosCommand ---------------------------
(***************************************************************************)
(* A table of three elements, the last without a name as the two unused    *)
(* ones of nvinfo_t; one line for each command, one with a space too many  *)
(* at its start, one that lacks the name and the data of its element, and  *)
(* one that does not fit into aReceBuf with its last word.                 *)
(***************************************************************************)
EXTENDS DosCommand

MCNames == << <<"ver">>, <<"sn1">>, << >> >>

MCDefault == << <<"NVRAM0000">>, <<"0418030145">>, << >> >>

MCErased == <<"0xff">>

\* The pieces of a line with spaces between them.
Spaced(words) ==
  [i \in 1..2 * Len(words) |-> IF i = 2 * Len(words) THEN CR
                               ELSE IF i % 2 = 1 THEN words[(i + 1) \div 2] ELSE Space]

MCLines == { Spaced(<<"pedal", "nvram", "write", "sn1", "1", "2">>),
             Spaced(<<"pedal", "nvram", "write">>),
             Spaced(<<"pedal", "nvram", "program">>),
             Spaced(<<"pedal", "nvram", "factory">>),
             Spaced(<<"pedal", "nvram", "dump">>),
             Spaced(<<"pedal", "sim", "start">>),
             Spaced(<<"pedal", "sim", "stop">>),
             <<Space>> \o Spaced(<<"pedal", "sim", "start">>) }
=============================================================================
