------------------------- MODULE DosCommand_proofs -------------------------
(***************************************************************************)
(* The console with the parameter storage and the simulator: for every set *)
(* of lines, table of elements, size of the buffer and of the decay table. *)
(***************************************************************************)
EXTENDS DosCommand, TLAPS, FiniteSetTheorems, SequenceTheorems

\* A word is no longer than what it is taken from.
LEMMA WordLength ==
  ASSUME NEW s \in Seq(Pieces)
  PROVE  LengthOfWord(s) \in 0..Len(s)
<1> DEFINE W == {i \in 1..Len(s) : \A j \in 2..i : s[j] # Space}
<1>0. Len(s) \in Nat
  OBVIOUS
<1>1. IsFiniteSet(1..Len(s)) /\ Cardinality(1..Len(s)) = Len(s)
  BY <1>0, FS_Interval
<1>2. W \subseteq 1..Len(s)
  OBVIOUS
<1>3. IsFiniteSet(W) /\ Cardinality(W) <= Cardinality(1..Len(s))
  BY <1>1, <1>2, FS_Subset
<1>4. Cardinality(W) \in Nat
  BY <1>3, FS_CardinalityType
<1> HIDE DEF W
<1>5. LengthOfWord(s) = Cardinality(W)
  BY DEF LengthOfWord, W
<1> QED BY <1>0, <1>1, <1>3, <1>4, <1>5

\* What FindWord takes and what it leaves are made of the same pieces.
LEMMA WordsAreTyped ==
  ASSUME NEW s \in Seq(Pieces)
  PROVE  FindWord(s) \in Seq(Pieces) /\ Consumed(s) \in Seq(Pieces)
<1> DEFINE n == LengthOfWord(s)
<1>1. n \in 0..Len(s) /\ Len(s) \in Nat
  BY WordLength
<1>2. \A i \in 1..Len(s) : s[i] \in Pieces
  OBVIOUS
<1> HIDE DEF n
<1>3. \A i \in 1..n : s[i] \in Pieces
  BY <1>1, <1>2
<1>4. SubSeq(s, 1, n) \in Seq(Pieces)
  BY <1>1, <1>3, SubSeqProperties
<1>5. \A i \in n + 2..Len(s) : s[i] \in Pieces
  BY <1>1, <1>2
<1>6. SubSeq(s, n + 2, Len(s)) \in Seq(Pieces)
  BY <1>1, <1>5, SubSeqProperties
<1> QED BY <1>4, <1>6 DEF FindWord, Consumed, n

-----------------------------------------------------------------------------
\* The table has elements 1..Len(Names), and at least one.
LEMMA ElementsOfTable == Len(Names) \in Nat \ {0} /\ Elements = 1..Len(Names)
<1>1. Names \in Seq(Range(Names)) /\ Names # << >>
  BY ElementAssumption
<1> QED BY <1>1 DEF Elements

\* What the table is made of is not erased flash.
LEMMA DataIsWhole ==
  /\ Erased \notin Data
  /\ Default \in [Elements -> Data]
  BY ElementAssumption, LineAssumption DEF Data, Elements

\* The part of TypeOK about the table and its page.
NvTypes == /\ nvram \in [Elements -> Data] /\ page \in [Elements -> Data \cup {Erased}]
           /\ next \in {0} \cup Elements /\ cut \in BOOLEAN

\* The part about the simulator.
SimTypes == /\ ss \in SimStates /\ start_sim \in BOOLEAN /\ running \in BOOLEAN
            /\ raw_pos \in {"zero", "mid", "one"} /\ factor_index \in Int

\* The part about the line.
LineTypes == /\ aReceBuf \in Seq(Pieces) /\ Len(aReceBuf) <= MaxItems
             /\ typing \in Seq(Pieces)

NvSafe == NvTypes /\ PageIsWhole

\* Where the simulator is in its table, and how much of its end is left.
SimPlace == SimTypes /\ FactorInTable
SimSafe == SimPlace /\ stopping \in 0..MaxFade + 1 /\ StopsInTime

LEMMA Parts == ConsoleInv <=> LineTypes /\ NvSafe /\ SimSafe
  BY Zenon DEF ConsoleInv, TypeOK, LineTypes, NvSafe, NvTypes, SimSafe, SimPlace, SimTypes

LEMMA PartsNext == ConsoleInv' <=> LineTypes' /\ NvSafe' /\ SimSafe'
  BY Parts, PTL

\* nvram_write, with whatever was typed, changes the data of one element at most.
LEMMA WriteStep ==
  ASSUME NvSafe, NEW name, NEW data \in Seq(Pieces), nvram_write(name, data)
  PROVE  NvSafe'
<1>1. nvram' \in [Elements -> Data]
  BY DEF nvram_write, NvSafe, NvTypes, Data
<1>2. UNCHANGED <<page, next, cut>>
  BY DEF nvram_write
<1> QED BY <1>1, <1>2 DEF NvSafe, NvTypes, PageIsWhole

\* The erase of nvram_prog.
LEMMA EraseStep ==
  ASSUME NvSafe, flash_page_erase
  PROVE  NvSafe'
<1>1. next' = 1 /\ nvram' = nvram /\ cut' = cut /\ page' = [i \in Elements |-> Erased]
  BY DEF flash_page_erase
<1>2. NvTypes'
  BY <1>1, ElementsOfTable DEF NvSafe, NvTypes
<1>3. PageIsWhole'
  BY <1>1 DEF PageIsWhole
<1> QED BY <1>2, <1>3 DEF NvSafe

\* One round of its loop; after the last one the page is complete.
LEMMA WordStep ==
  ASSUME NvSafe, flash_word_write
  PROVE  NvSafe'
<1> DEFINE N == Len(Names)
<1>1. /\ next \in 1..N /\ N \in Nat \ {0} /\ Elements = 1..N
      /\ nvram[next] \in Data /\ page \in [Elements -> Data \cup {Erased}]
  BY ElementsOfTable DEF flash_word_write, NvSafe, NvTypes
<1>2. \A i \in 1..next - 1 : page[i] # Erased
  BY DEF flash_word_write, NvSafe, PageIsWhole
<1>3. page' = [page EXCEPT ![next] = nvram[next]] /\ nvram' = nvram
  BY DEF flash_word_write
<1>4. \/ next < N /\ next' = next + 1 /\ cut' = cut
      \/ next = N /\ next' = 0 /\ cut' = FALSE
  BY <1>1 DEF flash_word_write
<1> HIDE DEF N
<1>5. page' \in [Elements -> Data \cup {Erased}]
  BY <1>1, <1>3
<1>6. \A i \in 1..next : page'[i] # Erased
  BY <1>1, <1>2, <1>3, DataIsWhole
<1>7. next' \in {0} \cup Elements
  BY <1>1, <1>4
<1>8. cut' \in BOOLEAN
  BY <1>4 DEF NvSafe, NvTypes
<1>9. NvTypes'
  BY <1>3, <1>5, <1>7, <1>8 DEF NvSafe, NvTypes
<1>10. PageIsWhole'
  <2>1. CASE next < N /\ next' = next + 1
    BY <1>1, <1>6, <2>1 DEF PageIsWhole
  <2>2. CASE next = N /\ next' = 0
    BY <1>1, <1>6, <2>2 DEF PageIsWhole
  <2> QED BY <1>4, <2>1, <2>2
<1> QED BY <1>9, <1>10 DEF NvSafe

\* A power failure: the table starts from its defaults, the page stays as it is.
LEMMA NvResetStep ==
  ASSUME NvSafe, NvReset
  PROVE  NvSafe'
<1>1. nvram' = Default /\ next' = 0 /\ page' = page
  BY DEF NvReset, nvram_init
<1>2. cut' = (cut \/ next > 0)
  BY DEF NvReset
<1>3. NvTypes'
  BY <1>1, <1>2, DataIsWhole DEF NvSafe, NvTypes
<1>4. ~cut' => ~cut /\ next = 0
  <2>1. ~cut' => ~cut /\ ~(next > 0)
    BY <1>2, Zenon
  <2>2. ~(next > 0) => next = 0
    BY ElementsOfTable DEF NvSafe, NvTypes
  <2> QED BY <2>1, <2>2
<1>5. PageIsWhole'
  BY <1>1, <1>4 DEF NvSafe, PageIsWhole
<1> QED BY <1>3, <1>5 DEF NvSafe

-----------------------------------------------------------------------------
\* A tick of the simulator: the table's forced ends stop the index in time.
LEMMA TickPlace ==
  ASSUME SimPlace, qdec_period_read_timer_handler
  PROVE  SimPlace'
<1>1. start_sim' = start_sim /\ running \in BOOLEAN /\ start_sim \in BOOLEAN
  BY DEF qdec_period_read_timer_handler, SimPlace, SimTypes
<1>2. factor_index \in Int
  BY DEF SimPlace, SimTypes
<1>3. CASE Idle
  <2>1. /\ ss' = "SIM_TRANS_UP" /\ factor_index' = 0 /\ raw_pos' = "one"
        /\ running' = running
    BY <1>3 DEF Idle
  <2>2. SimTypes'
    BY <1>1, <2>1 DEF SimTypes, SimStates
  <2>3. FactorInTable'
    BY <2>1, TableAssumption DEF FactorInTable
  <2> QED BY <2>2, <2>3 DEF SimPlace
<1>4. CASE TransUp
  <2>1. /\ ss = "SIM_TRANS_UP" /\ factor_index' = factor_index + 1
        /\ raw_pos' = decaytable(factor_index) /\ running' = running
        /\ ss' = IF raw_pos' = "one" THEN "SIM_SETTLE" ELSE ss
    BY <1>4 DEF TransUp
  <2>2. factor_index \in 0..DECAY_TABLE_SIZE - Margin + 1
    BY <2>1 DEF SimPlace, FactorInTable
  <2>3. \/ raw_pos' = "one" /\ ss' = "SIM_SETTLE"
        \/ /\ raw_pos' \in {"zero", "mid"} /\ ss' = "SIM_TRANS_UP"
           /\ factor_index <= DECAY_TABLE_SIZE - Margin
    BY <2>1, <2>2, TableAssumption DEF decaytable
  <2>4. SimTypes'
    BY <1>1, <1>2, <2>1, <2>3 DEF SimTypes, SimStates
  <2>5. FactorInTable'
    BY <2>1, <2>2, <2>3, TableAssumption DEF FactorInTable
  <2> QED BY <2>4, <2>5 DEF SimPlace
<1>5. CASE Settle
  <2>1. /\ raw_pos' = "one" /\ running' = running
        /\ \/ ss' = "SIM_SETTLE" /\ factor_index' = factor_index
           \/ ss' = "SIM_TRANS_DOWN" /\ factor_index' = DECAY_TABLE_SIZE - 1
    BY <1>5 DEF Settle
  <2>2. SimTypes'
    BY <1>1, <1>2, <2>1, TableAssumption DEF SimTypes, SimStates
  <2>3. FactorInTable'
    BY <2>1, TableAssumption DEF FactorInTable
  <2> QED BY <2>2, <2>3 DEF SimPlace
<1>6. CASE TransDown
  <2>1. /\ ss = "SIM_TRANS_DOWN" /\ factor_index' = factor_index - 1
        /\ raw_pos' = decaytable(factor_index) /\ running' = running
        /\ ss' = IF raw_pos' = "zero" THEN "SIM_STOP" ELSE ss
    BY <1>6 DEF TransDown
  <2>2. factor_index \in Margin - 1..DECAY_TABLE_SIZE - 1
    BY <2>1 DEF SimPlace, FactorInTable
  <2>3. \/ raw_pos' = "zero" /\ ss' = "SIM_STOP"
        \/ /\ raw_pos' \in {"mid", "one"} /\ ss' = "SIM_TRANS_DOWN"
           /\ factor_index >= Margin
    BY <2>1, <2>2, TableAssumption DEF decaytable
  <2>4. SimTypes'
    BY <1>1, <1>2, <2>1, <2>3 DEF SimTypes, SimStates
  <2>5. FactorInTable'
    BY <2>1, <2>2, <2>3, TableAssumption DEF FactorInTable
  <2> QED BY <2>4, <2>5 DEF SimPlace
<1>7. CASE Stop
  <2>1. /\ ss' = "SIM_IDLE" /\ raw_pos' = "one" /\ factor_index' = factor_index
    BY <1>7 DEF Stop
  <2>2. running' \in BOOLEAN
    BY <1>7, Zenon DEF Stop
  <2>3. SimTypes'
    BY <1>1, <1>2, <2>1, <2>2 DEF SimTypes, SimStates
  <2>4. FactorInTable'
    BY <2>1 DEF FactorInTable
  <2> QED BY <2>3, <2>4 DEF SimPlace
<1> QED BY <1>3, <1>4, <1>5, <1>6, <1>7 DEF qdec_period_read_timer_handler

\* The whole way is as long as its parts: a place of the table is not passed twice.
LEMMA FadeLength ==
  /\ MaxFade \in Nat /\ MaxFade >= DECAY_TABLE_SIZE - Margin + 4
  /\ SimPlace => TicksLeft \in 1..MaxFade
<1>1. MaxFade \in Nat /\ MaxFade >= DECAY_TABLE_SIZE - Margin + 4
  BY TableAssumption DEF MaxFade
<1>2. ASSUME SimPlace PROVE TicksLeft \in 1..MaxFade
  <2>1. factor_index \in Int /\ ss \in SimStates
    BY <1>2 DEF SimPlace, SimTypes
  <2>2. CASE ss \in {"SIM_IDLE", "SIM_SETTLE", "SIM_STOP"}
    BY <1>1, <2>2, TableAssumption DEF TicksLeft
  <2>3. CASE ss = "SIM_TRANS_UP"
    <3>1. factor_index \in 0..DECAY_TABLE_SIZE - Margin + 1 /\ TicksLeft = MaxFade - 1 - factor_index
      BY <1>2, <2>3 DEF SimPlace, FactorInTable, TicksLeft
    <3> QED BY <3>1, TableAssumption DEF MaxFade
  <2>4. CASE ss = "SIM_TRANS_DOWN"
    <3>1. /\ factor_index \in Margin - 1..DECAY_TABLE_SIZE - 1
          /\ TicksLeft = factor_index - Margin + 3
      BY <1>2, <2>4 DEF SimPlace, FactorInTable, TicksLeft
    <3> QED BY <3>1, TableAssumption DEF MaxFade
  <2> QED BY <2>1, <2>2, <2>3, <2>4 DEF SimStates
<1> QED BY <1>1, <1>2

\* Every tick that "start" does not hold up brings the end one tick closer; the
\* last one stops the timer.
LEMMA TickCounts ==
  ASSUME SimPlace, ~start_sim, running, qdec_period_read_timer_handler
  PROVE  IF running' THEN TicksLeft' = TicksLeft - 1 ELSE TicksLeft = 1
<1>1. factor_index \in Int
  BY DEF SimPlace, SimTypes
<1>2. CASE Idle
  <2>1. ss = "SIM_IDLE" /\ ss' = "SIM_TRANS_UP" /\ factor_index' = 0 /\ running'
    BY <1>2 DEF Idle
  <2> QED BY <2>1, FadeLength DEF TicksLeft
<1>3. CASE TransUp
  <2>1. /\ ss = "SIM_TRANS_UP" /\ factor_index' = factor_index + 1
        /\ raw_pos' = decaytable(factor_index) /\ running'
        /\ ss' = IF raw_pos' = "one" THEN "SIM_SETTLE" ELSE ss
    BY <1>3 DEF TransUp
  <2>2. factor_index \in 0..DECAY_TABLE_SIZE - Margin + 1
    BY <2>1 DEF SimPlace, FactorInTable
  <2>3. CASE factor_index > DECAY_TABLE_SIZE - Margin
    <3>1. ss' = "SIM_SETTLE" /\ factor_index = DECAY_TABLE_SIZE - Margin + 1
      BY <2>1, <2>2, <2>3, TableAssumption DEF decaytable
    <3>2. /\ TicksLeft = MaxFade - 1 - factor_index
          /\ TicksLeft' = DECAY_TABLE_SIZE - Margin + 3
      BY <2>1, <3>1 DEF TicksLeft
    <3> QED BY <2>1, <3>1, <3>2, TableAssumption DEF MaxFade
  <2>4. CASE factor_index <= DECAY_TABLE_SIZE - Margin
    <3>1. ss' = "SIM_TRANS_UP"
      BY <2>1, <2>2, <2>4, TableAssumption DEF decaytable
    <3> QED BY <2>1, <2>2, <3>1, FadeLength DEF TicksLeft
  <2> QED BY <2>2, <2>3, <2>4, TableAssumption
<1>4. CASE Settle
  <2>1. /\ ss = "SIM_SETTLE" /\ ss' = "SIM_TRANS_DOWN" /\ running'
        /\ factor_index' = DECAY_TABLE_SIZE - 1
    BY <1>4 DEF Settle
  <2> QED BY <2>1, TableAssumption DEF TicksLeft
<1>5. CASE TransDown
  <2>1. /\ ss = "SIM_TRANS_DOWN" /\ factor_index' = factor_index - 1
        /\ raw_pos' = decaytable(factor_index) /\ running'
        /\ ss' = IF raw_pos' = "zero" THEN "SIM_STOP" ELSE ss
    BY <1>5 DEF TransDown
  <2>2. factor_index \in Margin - 1..DECAY_TABLE_SIZE - 1
    BY <2>1 DEF SimPlace, FactorInTable
  <2>3. CASE factor_index < Margin
    <3>1. ss' = "SIM_STOP" /\ factor_index = Margin - 1
      BY <2>1, <2>2, <2>3, TableAssumption DEF decaytable
    <3> QED BY <2>1, <3>1, TableAssumption DEF TicksLeft
  <2>4. CASE factor_index >= Margin
    <3>1. ss' = "SIM_TRANS_DOWN"
      BY <2>1, <2>2, <2>4, TableAssumption DEF decaytable
    <3> QED BY <2>1, <2>2, <3>1, TableAssumption DEF TicksLeft
  <2> QED BY <2>2, <2>3, <2>4, TableAssumption
<1>6. CASE Stop
  <2>1. ss = "SIM_STOP" /\ ~running'
    BY <1>6 DEF Stop
  <2> QED BY <2>1 DEF TicksLeft
<1> QED BY <1>2, <1>3, <1>4, <1>5, <1>6 DEF qdec_period_read_timer_handler

LEMMA TickStep ==
  ASSUME SimSafe, qdec_period_read_timer_handler
  PROVE  SimSafe'
<1>1. SimPlace /\ SimPlace' /\ TicksLeft \in 1..MaxFade /\ MaxFade \in Nat
  BY TickPlace, FadeLength DEF SimSafe
<1>2. /\ running /\ start_sim' = start_sim
      /\ stopping' = IF start_sim THEN 0
                     ELSE IF stopping > MaxFade THEN stopping ELSE stopping + 1
  BY DEF qdec_period_read_timer_handler
<1>3. stopping \in 0..MaxFade + 1
  BY DEF SimSafe
<1>4. stopping' \in 0..MaxFade + 1
  BY <1>1, <1>2, <1>3
<1>5. ASSUME ~start_sim PROVE stopping' + (IF running' THEN TicksLeft' ELSE 0) <= MaxFade
  <2>1. stopping + TicksLeft <= MaxFade
    BY <1>2, <1>5 DEF SimSafe, StopsInTime
  <2>2. stopping' = stopping + 1
    BY <1>1, <1>2, <1>3, <1>5, <2>1
  <2>3. IF running' THEN TicksLeft' = TicksLeft - 1 ELSE TicksLeft = 1
    BY <1>1, <1>2, <1>5, TickCounts
  <2> QED BY <1>1, <1>3, <2>1, <2>2, <2>3
<1>6. StopsInTime'
  BY <1>2, <1>5 DEF StopsInTime
<1> QED BY <1>1, <1>4, <1>6 DEF SimSafe

\* "start" and "stop" move nothing but the flag and the timer.
LEMMA CtrlStep ==
  ASSUME SimSafe, NEW start \in BOOLEAN, qdec_period_read_ctrl(start)
  PROVE  SimSafe'
<1>1. UNCHANGED <<ss, factor_index, raw_pos>> /\ start_sim' = start
      /\ stopping' = IF start THEN 0 ELSE stopping
  BY DEF qdec_period_read_ctrl
<1>2. /\ start_sim' \in BOOLEAN /\ running' \in BOOLEAN
      /\ ~start => running' = running
  BY Zenon DEF qdec_period_read_ctrl, SimSafe, SimPlace, SimTypes
<1>3. SimPlace'
  BY <1>1, <1>2 DEF SimSafe, SimPlace, SimTypes, FactorInTable
<1>4. stopping \in 0..MaxFade + 1 /\ MaxFade \in Nat
  BY FadeLength DEF SimSafe
<1>5. stopping' \in 0..MaxFade + 1
  BY <1>1, <1>4
<1>6. CASE start_sim \/ start
  \* Whatever is left, it is no more than the whole way.
  <2>1. stopping' = 0
    BY <1>1, <1>6 DEF SimSafe, StopsInTime
  <2>2. TicksLeft' \in 1..MaxFade
    <3>1. TicksLeft' = TicksLeft
      BY <1>1 DEF TicksLeft
    <3> QED BY <3>1, FadeLength DEF SimSafe
  <2>3. StopsInTime'
    <3> DEFINE left == IF running' THEN TicksLeft' ELSE 0
    <3>1. left \in 0..MaxFade
      BY <1>4, <2>2
    <3>2. stopping' + left <= MaxFade
      <4> HIDE DEF left
      <4> QED BY <1>4, <2>1, <3>1
    <3> QED BY <2>1, <3>2, Zenon DEF StopsInTime
  <2> QED BY <1>3, <1>5, <2>3 DEF SimSafe
<1>7. CASE ~start_sim /\ ~start
  <2>1. running' = running /\ stopping' = stopping /\ TicksLeft' = TicksLeft
    BY <1>1, <1>2, <1>7 DEF TicksLeft
  <2>2. StopsInTime'
    BY <1>1, <1>7, <2>1 DEF SimSafe, StopsInTime
  <2> QED BY <1>3, <1>5, <2>2 DEF SimSafe
<1> QED BY <1>6, <1>7

LEMMA SimResetStep == SimReset => SimSafe'
<1> SUFFICES ASSUME SimReset PROVE SimSafe'
  OBVIOUS
<1>1. /\ ss' = "SIM_IDLE" /\ factor_index' = 0 /\ raw_pos' = "zero" /\ stopping' = 0
      /\ ~running'
  BY DEF SimReset
<1>2. start_sim' \in BOOLEAN /\ running' \in BOOLEAN
  BY Zenon DEF SimReset
<1>3. SimPlace'
  BY <1>1, <1>2 DEF SimPlace, SimTypes, SimStates, FactorInTable
<1>4. ~start_sim'
  BY DEF SimReset
<1> QED BY <1>1, <1>3, <1>4, FadeLength DEF SimSafe, StopsInTime

LEMMA NvUnchanged == NvSafe /\ UNCHANGED nvVars => NvSafe'
  BY DEF nvVars, NvSafe, NvTypes, PageIsWhole

LEMMA SimUnchanged == SimSafe /\ UNCHANGED simVars => SimSafe'
<1> SUFFICES ASSUME SimSafe, UNCHANGED simVars PROVE SimSafe'
  OBVIOUS
<1>1. UNCHANGED <<ss, factor_index, start_sim, running, raw_pos, stopping>>
  BY DEF simVars
<1>2. SimPlace'
  BY <1>1 DEF SimSafe, SimPlace, SimTypes, FactorInTable
<1>3. StopsInTime'
  <2>1. TicksLeft' = TicksLeft
    BY <1>1 DEF TicksLeft
  <2> QED BY <1>1, <2>1 DEF SimSafe, StopsInTime
<1> QED BY <1>1, <1>2, <1>3 DEF SimSafe

-----------------------------------------------------------------------------
\* A line that is run, whatever is in it.
LEMMA RunStep ==
  ASSUME NvSafe, SimSafe, NEW line \in Seq(Pieces), Run(line)
  PROVE  NvSafe' /\ SimSafe'
<1> DEFINE s == Consumed(line)
           t == Consumed(s)
           id == IF FindWord(line) = <<"pedal">> THEN FindCmdID(FindWord(s)) ELSE "CMD_NONE"
<1>1. s \in Seq(Pieces) /\ t \in Seq(Pieces)
  BY WordsAreTyped
<1>2. /\ IF id = "CMD_NVRAM" THEN CMD_NVRAM(t) ELSE UNCHANGED nvVars
      /\ IF id = "CMD_SIM" THEN CMD_SIM(t) ELSE UNCHANGED simVars
  BY Zenon DEF Run
<1> HIDE DEF s, t, id
<1>3. NvSafe'
  <2>1. CASE UNCHANGED nvVars
    BY <2>1, NvUnchanged
  <2>2. CASE CMD_NVRAM(t)
    <3> DEFINE name == FindWord(Consumed(t))
               data == FindWord(Consumed(Consumed(t)))
    <3>1. data \in Seq(Pieces)
      BY <1>1, WordsAreTyped
    <3>2. \/ nvram_write(name, data)
          \/ flash_page_erase
          \/ nvram_init(TRUE) /\ UNCHANGED <<page, next, cut>>
          \/ UNCHANGED nvVars
      BY <2>2, Zenon DEF CMD_NVRAM
    <3> HIDE DEF name, data
    <3>3. CASE nvram_write(name, data)
      BY <3>1, <3>3, WriteStep
    <3>4. CASE flash_page_erase
      BY <3>4, EraseStep
    <3>5. CASE nvram_init(TRUE) /\ UNCHANGED <<page, next, cut>>
      BY <3>5, DataIsWhole DEF nvram_init, NvSafe, NvTypes, PageIsWhole
    <3> QED BY <3>2, <3>3, <3>4, <3>5, NvUnchanged
  <2> QED BY <1>2, <2>1, <2>2
<1>4. SimSafe'
  <2>1. CASE UNCHANGED simVars
    BY <2>1, SimUnchanged
  <2>2. CASE CMD_SIM(t)
    <3>1. qdec_period_read_ctrl(FindWord(t) = <<"start">>)
      BY <2>2 DEF CMD_SIM
    <3>2. (FindWord(t) = <<"start">>) \in BOOLEAN
      BY Zenon
    <3> QED BY <3>1, <3>2, CtrlStep
  <2> QED BY <1>2, <2>1, <2>2
<1> QED BY <1>3, <1>4

\* A character, be it text, the end of a line or a stray one.
LEMMA ParserStep ==
  ASSUME NvSafe, SimSafe, LineTypes, NEW ch \in Pieces \cup {Control}, DOSCommandParser(ch)
  PROVE  /\ NvSafe' /\ SimSafe'
         /\ aReceBuf' \in Seq(Pieces) /\ Len(aReceBuf') <= MaxItems
<1>1. aReceBuf \in Seq(Pieces) /\ Len(aReceBuf) <= MaxItems /\ MaxItems \in Nat
  BY LineAssumption DEF LineTypes
<1>2. CASE Text(ch) /\ UNCHANGED <<nvVars, simVars>>
           /\ aReceBuf' = IF Len(aReceBuf) < MaxItems THEN Append(aReceBuf, ch) ELSE aReceBuf
  <2>1. ch \in Pieces
    BY <1>2 DEF Text
  <2>2. NvSafe' /\ SimSafe'
    BY <1>2, NvUnchanged, SimUnchanged
  <2>3. aReceBuf' \in Seq(Pieces) /\ Len(aReceBuf') <= MaxItems
    BY <1>1, <1>2, <2>1
  <2> QED BY <2>2, <2>3
<1>3. CASE aReceBuf' = << >> /\ Run(aReceBuf)
  BY <1>1, <1>3, RunStep
<1>4. CASE aReceBuf' = << >> /\ UNCHANGED <<nvVars, simVars>>
  BY <1>1, <1>4, NvUnchanged, SimUnchanged
<1> QED BY <1>2, <1>3, <1>4 DEF DOSCommandParser

LEMMA ConsoleInit == Init => ConsoleInv
<1> SUFFICES ASSUME Init PROVE LineTypes /\ NvSafe /\ SimSafe
  BY Parts
<1>1. LineTypes
  BY LineAssumption DEF Init, LineTypes
<1>2. NvSafe
  <2>1. NvTypes
    <3>1. cut \in BOOLEAN
      BY Zenon DEF Init, NvInit
    <3> QED BY <3>1, DataIsWhole DEF Init, NvInit, NvTypes
  <2>2. next = 0 /\ \A i \in Elements : page[i] = Erased
    BY DEF Init, NvInit
  <2> QED BY <2>1, <2>2 DEF NvSafe, PageIsWhole
<1>3. SimSafe
  <2>1. /\ ss = "SIM_IDLE" /\ factor_index = 0 /\ raw_pos = "zero" /\ stopping = 0
        /\ ~running
    BY DEF Init, SimInit
  <2>2. start_sim \in BOOLEAN /\ running \in BOOLEAN
    BY Zenon DEF Init, SimInit
  <2>3. SimPlace
    BY <2>1, <2>2 DEF SimPlace, SimTypes, SimStates, FactorInTable
  <2>4. ~start_sim
    BY DEF Init, SimInit
  <2> QED BY <2>1, <2>3, <2>4, FadeLength DEF SimSafe, StopsInTime
<1> QED BY <1>1, <1>2, <1>3

LEMMA ConsoleNext == ConsoleInv /\ [Next]_consoleVars => ConsoleInv'
<1> SUFFICES ASSUME ConsoleInv, [Next]_consoleVars
             PROVE  LineTypes' /\ NvSafe' /\ SimSafe'
  BY PartsNext
<1>1. LineTypes /\ NvSafe /\ SimSafe
  BY Parts
<1>2. CASE Begin
  <2>1. typing' \in Seq(Pieces) /\ UNCHANGED <<aReceBuf, nvVars, simVars>>
    BY <1>2, LineAssumption DEF Begin
  <2>2. LineTypes'
    BY <1>1, <2>1 DEF LineTypes
  <2> QED BY <1>1, <2>1, <2>2, NvUnchanged, SimUnchanged
<1>3. CASE uart_event_handle
  <2>1. PICK ch \in Arriving : /\ DOSCommandParser(ch)
                               /\ typing' = IF ch = Control THEN typing ELSE Tail(typing)
    BY <1>3 DEF uart_event_handle
  <2>2. \/ ch = Control
        \/ typing # << >> /\ ch = Head(typing)
    BY <2>1 DEF Arriving
  <2>3. ch \in Pieces \cup {Control} /\ typing' \in Seq(Pieces)
    BY <1>1, <2>1, <2>2 DEF LineTypes
  <2>4. NvSafe' /\ SimSafe' /\ aReceBuf' \in Seq(Pieces) /\ Len(aReceBuf') <= MaxItems
    BY <1>1, <2>1, <2>3, ParserStep
  <2> QED BY <2>3, <2>4 DEF LineTypes
<1>4. CASE Tick
  <2>1. /\ qdec_period_read_timer_handler
        /\ UNCHANGED <<aReceBuf, typing>> /\ UNCHANGED nvVars
    BY <1>4 DEF Tick
  <2>2. LineTypes'
    BY <1>1, <2>1 DEF LineTypes
  <2> QED BY <1>1, <2>1, <2>2, TickStep, NvUnchanged
<1>5. CASE nvram_prog
  <2>1. flash_word_write /\ UNCHANGED <<aReceBuf, typing>> /\ UNCHANGED simVars
    BY <1>5 DEF nvram_prog
  <2>2. LineTypes'
    BY <1>1, <2>1 DEF LineTypes
  <2> QED BY <1>1, <2>1, <2>2, WordStep, SimUnchanged
<1>6. CASE Reset
  <2>1. NvReset /\ SimReset /\ aReceBuf' = << >> /\ typing' = typing
    BY <1>6 DEF Reset
  <2>2. LineTypes'
    BY <1>1, <2>1, LineAssumption DEF LineTypes
  <2> QED BY <1>1, <2>1, <2>2, NvResetStep, SimResetStep
<1>7. CASE UNCHANGED consoleVars
  <2>1. UNCHANGED <<aReceBuf, typing>> /\ UNCHANGED nvVars /\ UNCHANGED simVars
    BY <1>7 DEF consoleVars
  <2>2. LineTypes'
    BY <1>1, <2>1 DEF LineTypes
  <2> QED BY <1>1, <2>1, <2>2, NvUnchanged, SimUnchanged
<1> QED BY <1>2, <1>3, <1>4, <1>5, <1>6, <1>7 DEF Next

\* The page is torn only by a power failure, and the simulator's index never
\* leaves its table, whatever is typed and whenever the power fails.
THEOREM ConsoleInvariant == Spec => []ConsoleInv
  BY ConsoleInit, ConsoleNext, PTL DEF Spec

\* After "stop" the timer fires at most MaxFade times more, wherever the simulation
\* was, for every size of the table.
THEOREM StopIsHeard == Spec => []StopsInTime
<1>1. ConsoleInv => StopsInTime
  BY DEF ConsoleInv
<1> QED BY <1>1, ConsoleInvariant, PTL
=============================================================================
