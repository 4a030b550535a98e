------------------------------- MODULE NvRam -------------------------------
(***************************************************************************)
(* nvram.c: a table of named elements in RAM, and the flash page that      *)
(* nvram_prog copies it to.  The page is erased first and then written     *)
(* word by word, and the power may fail in between.  Nothing reads the     *)
(* page back: the branch of nvram_init that did is compiled out.           *)
(*                                                                         *)
(* The eight words of an element are written in one step.                  *)
(***************************************************************************)
EXTENDS Integers, Sequences, FiniteSetsExt

CONSTANTS Names,       \* the name of each element of nvinfo_t, in order
          Default,     \* nvram_default: the data of each element
          Erased       \* what an erased element of the page reads as

ASSUME ElementAssumption == /\ Names \in Seq(Range(Names)) /\ Names # << >>
                            /\ Default \in [DOMAIN Names -> Range(Default)]
                            /\ Erased \notin Range(Default)

VARIABLES nvram, \* the data of each element in RAM
          page,  \* of each element in the page at NVRAM_ADDRESS
          next,  \* number of the element nvram_prog writes next, 0 outside it
          cut    \* history: the power failed during the last nvram_prog

nvVars == <<nvram, page, next, cut>>

Elements == DOMAIN Names

-----------------------------------------------------------------------------
nvram_init(factory) == nvram' = Default

\* The elements of that name.
element_find(name) == {i \in Elements : Names[i] = name}

\* The first of them takes the data; with none, nothing changes.
nvram_write(name, data) ==
  /\ nvram' = IF element_find(name) = {} THEN nvram
              ELSE [nvram EXCEPT ![Min(element_find(name))] = data]
  /\ UNCHANGED <<page, next, cut>>

\* nvram_prog: the erase of the page.
flash_page_erase == /\ page' = [i \in Elements |-> Erased] /\ next' = 1
                    /\ UNCHANGED <<nvram, cut>>

\* nvram_prog: one round of the loop, the last of which ends it.
flash_word_write ==
  /\ next > 0
  /\ page' = [page EXCEPT ![next] = nvram[next]]
  /\ IF next < Len(Names) THEN next' = next + 1 /\ UNCHANGED cut ELSE next' = 0 /\ cut' = FALSE
  /\ UNCHANGED nvram

-----------------------------------------------------------------------------
NvInit == /\ nvram = Default /\ page = [i \in Elements |-> Erased]
          /\ next = 0 /\ cut = FALSE

\* The power fails and comes back: main calls nvram_init(0).
NvReset == /\ nvram_init(FALSE) /\ next' = 0 /\ cut' = (cut \/ next > 0)
           /\ UNCHANGED page

-----------------------------------------------------------------------------
\* The page is blank or complete, unless the power failed while it was written;
\* during nvram_prog it is complete up to the element written next.
PageIsWhole ==
  /\ next = 0 /\ ~cut => \/ \A i \in Elements : page[i] = Erased
                         \/ \A i \in Elements : page[i] # Erased
  /\ next > 0 => \A i \in 1..next - 1 : page[i] # Erased
=============================================================================
