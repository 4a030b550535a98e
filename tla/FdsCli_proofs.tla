---------------------------- MODULE FdsCli_proofs ----------------------------
(***************************************************************************)
(* The command line on FDS for any records, queue, flash and number of     *)
(* commands and resets: FdsInv is inductive.                               *)
(***************************************************************************)
EXTENDS FdsCli, FiniteSetTheorems, SequenceTheorems, TLAPS

\* The types of the two variables that FDS works with, as sets.
Records == [id : 1..lastId, key : Keys, text : Contents, asked : Contents]
Ops == [op : Kinds, id : 0..lastId, key : Keys,
        buf : Buffers \cup {"none"}, asked : Contents]

-----------------------------------------------------------------------------
(* The room that the queue has reserved.                                   *)

LEMMA UnwrittenFinite ==
  ASSUME NEW q, q \in Seq(Ops), NEW S, S \subseteq DOMAIN q
  PROVE  IsFiniteSet(S) /\ Cardinality(S) \in Nat
  <1>1. DOMAIN q = 1..Len(q) /\ Len(q) \in Nat
    OBVIOUS
  <1>2. IsFiniteSet(DOMAIN q)
    BY <1>1, FS_Interval
  <1> QED
    BY <1>2, FS_Subset, FS_CardinalityType

\* A call takes at most one place in the queue and one record's room.
LEMMA EnqueueFits ==
  ASSUME CliAssumption, FlashOK, QueueOK, RoomOK,
         NEW op, op \in Ops, Writing(op) => op.buf \in Buffers,
         Enqueue(op), UNCHANGED <<flash, dirty, lastId>>
  PROVE  QueueOK' /\ RoomOK'
  <1>1. CASE ~Accepted(op)
    <2>1. queue' = queue
      BY <1>1 DEF Enqueue
    <2> QED
      BY <2>1 DEF QueueOK, RoomOK, Taken, Unwritten, Writing
  <1>2. CASE Accepted(op)
    <2>1. queue' = Append(queue, op) /\ queue \in Seq(Ops) /\ queue' \in Seq(Ops)
      BY <1>2 DEF Enqueue, QueueOK, Ops
    <2>2. /\ Len(queue') = Len(queue) + 1 /\ DOMAIN queue = 1..Len(queue)
          /\ Len(queue) \in Nat
          /\ \A i \in DOMAIN queue : queue'[i] = queue[i]
          /\ queue'[Len(queue) + 1] = op /\ DOMAIN queue' = 1..(Len(queue) + 1)
      BY <2>1
    <2>3. Len(queue') <= QueueSize
      BY <1>2, <2>2 DEF Accepted, CliAssumption
    <2>4. Unwritten' = IF Writing(op) THEN Unwritten \cup {Len(queue) + 1} ELSE Unwritten
      BY <2>2 DEF Unwritten, Writing
    <2>5. \A i \in Unwritten' : queue'[i].buf \in Buffers
      BY <2>2, <2>4 DEF QueueOK, Unwritten, Writing
    <2>6. IsFiniteSet(Unwritten) /\ Cardinality(Unwritten) \in Nat
      BY <2>1, UnwrittenFinite DEF Unwritten
    <2>7. Cardinality(Unwritten') <= IF Writing(op) THEN Cardinality(Unwritten) + 1
                                                   ELSE Cardinality(Unwritten)
      <3>1. Cardinality(Unwritten \cup {Len(queue) + 1}) <= Cardinality(Unwritten) + 1
        <4> DEFINE new == Len(queue) + 1
        <4>1. Cardinality(Unwritten \cup {new})
                = IF new \in Unwritten THEN Cardinality(Unwritten) ELSE Cardinality(Unwritten) + 1
          <5> HIDE DEF new
          <5> QED BY <2>6, FS_AddElement
        <4> QED
          BY <2>6, <4>1
      <3> QED
        BY <2>4, <2>6, <3>1
    <2>8. Cardinality(Unwritten') \in Nat
      BY <2>1, UnwrittenFinite DEF Unwritten
    <2>9. Cardinality(flash) \in Nat
      BY FS_CardinalityType DEF RoomOK
    <2>10. Writing(op) => Taken < Space
      BY <1>2 DEF Accepted
    <2>11. Taken' <= Space
      BY <2>6, <2>7, <2>8, <2>9, <2>10 DEF Taken, RoomOK, FlashOK, CliAssumption
    <2>12. QueueOK'
      BY <2>1, <2>3, <2>5 DEF QueueOK, Ops
    <2> QED
      BY <2>11, <2>12 DEF RoomOK
  <1> QED
    BY <1>1, <1>2

\* What is left of the queue when its head has ended.
LEMMA TailFits ==
  ASSUME CliAssumption, QueueOK, queue # <<>>, queue' = Tail(queue),
         lastId \in Nat, lastId' \in Nat, lastId <= lastId'
  PROVE  /\ QueueOK'
         /\ IsFiniteSet(Unwritten) /\ Cardinality(Unwritten) \in Nat
         /\ IsFiniteSet(Unwritten') /\ Cardinality(Unwritten') \in Nat
         /\ Cardinality(Unwritten') <= IF Writing(Head(queue))
                                       THEN Cardinality(Unwritten) - 1
                                       ELSE Cardinality(Unwritten)
         /\ \A i \in DOMAIN queue' : i + 1 \in DOMAIN queue /\ queue'[i] = queue[i + 1]
         /\ \A i \in Unwritten' : i + 1 \in Unwritten
  <1>1. queue \in Seq(Ops) /\ Len(queue) \in Nat \ {0} /\ DOMAIN queue = 1..Len(queue)
    BY DEF QueueOK, Ops
  <1>2. /\ queue' \in Seq(Ops) /\ Len(queue') = Len(queue) - 1
        /\ DOMAIN queue' = 1..(Len(queue) - 1)
        /\ \A i \in DOMAIN queue' : queue'[i] = queue[i + 1]
    BY <1>1
  <1>3. \A i \in DOMAIN queue' : i + 1 \in DOMAIN queue
    BY <1>1, <1>2
  <1>4. \A i \in Unwritten' : i + 1 \in Unwritten /\ i + 1 # 1 /\ i \in Nat
    BY <1>1, <1>2, <1>3 DEF Unwritten, Writing
  <1>5. 1 \in Unwritten <=> Writing(Head(queue))
    BY <1>1 DEF Unwritten
  <1>6. /\ IsFiniteSet(Unwritten) /\ Cardinality(Unwritten) \in Nat
        /\ IsFiniteSet(Unwritten') /\ Cardinality(Unwritten') \in Nat
    BY <1>1, <1>2, UnwrittenFinite DEF Unwritten
  <1>7. Cardinality(Unwritten') <= Cardinality(Unwritten \ {1})
    <2> DEFINE shift == [i \in Unwritten' |-> i + 1]
    <2>1. shift \in Injection(Unwritten', Unwritten \ {1})
      BY <1>4 DEF Injection, IsInjective
    <2>2. IsFiniteSet(Unwritten \ {1})
      BY <1>6, FS_RemoveElement
    <2> HIDE DEF shift
    <2> QED
      BY <2>1, <2>2, FS_Injection
  <1>8. Cardinality(Unwritten') <= IF Writing(Head(queue)) THEN Cardinality(Unwritten) - 1
                                                          ELSE Cardinality(Unwritten)
    BY <1>5, <1>6, <1>7, FS_RemoveElement
  <1>9. QueueOK'
    <2>1. Ops \subseteq Ops'
      BY DEF Ops
    <2>2. queue' \in Seq(Ops')
      BY <1>2, <2>1
    <2>3. \A i \in Unwritten' : queue'[i].buf \in Buffers
      BY <1>2, <1>4 DEF QueueOK, Unwritten, Writing
    <2> QED
      <3>1. QueueSize \in Nat /\ Len(queue) <= QueueSize
        BY DEF QueueOK, CliAssumption
      <3>2. Len(queue') <= QueueSize
        BY <1>1, <1>2, <3>1
      <3>3. queue' \in Seq([op : Kinds, id : 0..lastId', key : Keys,
                           buf : Buffers \cup {"none"}, asked : Contents])
        BY <2>2 DEF Ops
      <3> QED
        BY <2>3, <3>2, <3>3 DEF QueueOK
  <1> QED
    BY <1>2, <1>3, <1>4, <1>6, <1>8, <1>9

LEMMA FirstIsAnId ==
  ASSUME FlashOK, NEW S \in SUBSET flash
  PROVE  First(S) \in 0..lastId
  <1>1. CASE Foremost(S) = {}
    BY <1>1 DEF First, FlashOK
  <1>2. CASE Foremost(S) # {}
    <2> DEFINE r == CHOOSE x \in Foremost(S) : TRUE
    <2>1. r \in Foremost(S)
      BY <1>2
    <2>2. r \in flash
      BY <2>1 DEF Foremost
    <2>3. r.id \in 1..lastId
      BY <2>2 DEF FlashOK
    <2>4. First(S) = r.id
      BY <1>2 DEF First
    <2> HIDE DEF r
    <2> QED
      BY <2>3, <2>4 DEF FlashOK
  <1> QED
    BY <1>1, <1>2

-----------------------------------------------------------------------------
(* Steps of the main loop: they leave the flash to FDS.                    *)

StoreKept == UNCHANGED <<flash, dirty, lastId>>

LEMMA FlashKept ==
  ASSUME FdsInv, StoreKept, reused \subseteq reused'
  PROVE  FlashOK' /\ RecordIsAsked'
  BY DEF FdsInv, TypeOK, FlashOK, StoreKept, RecordIsAsked

LEMMA QueueKept ==
  ASSUME FdsInv, StoreKept, UNCHANGED queue
  PROVE  QueueOK' /\ RoomOK' /\ HalfDone'
  <1>1. QueueOK' /\ RoomOK'
    BY DEF FdsInv, TypeOK, QueueOK, RoomOK, Taken, Unwritten, StoreKept
  <1>2. HalfDone'
    BY DEF FdsInv, HalfDone, StoreKept
  <1> QED
    BY <1>1, <1>2

\* An operation joins the queue with a buffer that holds what it was given.
LEMMA Enqueued ==
  ASSUME CliAssumption, FdsInv, StoreKept, UNCHANGED <<buffer, reused>>,
         NEW op, op \in Ops, op.op # "flag",
         op.op = "update" => op.key = ConfigKey,
         Writing(op) => op.buf \in Buffers /\ buffer[op.buf] = op.asked,
         Enqueue(op)
  PROVE  QueueOK' /\ RoomOK' /\ HalfDone' /\ QueueFindsBuffer'
  <1>1. QueueOK' /\ RoomOK'
    BY EnqueueFits DEF FdsInv, TypeOK, StoreKept
  <1>2. CASE queue' = queue
    BY <1>1, <1>2, QueueKept DEF FdsInv, QueueFindsBuffer, Unwritten
  <1>3. CASE queue' = Append(queue, op)
    <2>1. queue \in Seq(Ops)
      BY DEF FdsInv, TypeOK, QueueOK, Ops
    <2>2. /\ Len(queue) \in Nat /\ DOMAIN queue' = 1..(Len(queue) + 1)
          /\ DOMAIN queue = 1..Len(queue)
          /\ \A i \in DOMAIN queue' :
               IF i = Len(queue) + 1 THEN queue'[i] = op
                                     ELSE i \in DOMAIN queue /\ queue'[i] = queue[i]
      BY <1>3, <2>1
    <2>3. HalfDone'
      BY <2>2 DEF FdsInv, HalfDone, StoreKept
    <2>4. QueueFindsBuffer'
      BY <2>2 DEF FdsInv, QueueFindsBuffer, Unwritten, Writing
    <2> QED
      BY <1>1, <2>3, <2>4
  <1> QED
    BY <1>2, <1>3 DEF Enqueue

\* A buffer that no operation needs is filled, or the history tells.
LEMMA BufferFilled ==
  ASSUME FdsInv, UNCHANGED queue, NEW b \in Buffers, NEW text \in Contents,
         Fill(b, text)
  PROVE  /\ buffer' \in [Buffers -> Contents] /\ buffer'[b] = text
         /\ reused' \subseteq Buffers /\ reused \subseteq reused'
         /\ QueueFindsBuffer'
  <1>1. /\ buffer' = [buffer EXCEPT ![b] = text]
        /\ buffer \in [Buffers -> Contents] /\ reused \subseteq Buffers
    BY DEF FdsInv, TypeOK, MemoryOK, Fill, Filled
  <1>2. QueueFindsBuffer'
    <2> SUFFICES ASSUME reused' = {}, NEW i \in Unwritten'
                 PROVE  buffer'[queue[i].buf] = queue[i].asked
      BY DEF QueueFindsBuffer
    <2>1. ~Needed(b) /\ reused = {}
      BY DEF Fill
    <2>2. i \in Unwritten /\ queue[i].buf # b
      BY <2>1 DEF Unwritten, Needed, Writing
    <2>3. queue[i].buf \in Buffers /\ buffer[queue[i].buf] = queue[i].asked
      BY <2>1, <2>2 DEF FdsInv, TypeOK, QueueOK, QueueFindsBuffer
    <2> QED
      BY <1>1, <2>2, <2>3
  <1> QED
    BY <1>1, <1>2 DEF Fill

\* What a step of the main loop changes besides the queue and a buffer.
LoopKept == StoreKept /\ UNCHANGED <<m_fds_initialized, resets>>

\* A call that only leaves an operation for FDS, and goes on in the loop.
LEMMA CallQueues ==
  ASSUME CliAssumption, FdsInv, LoopKept, UNCHANGED <<buffer, reused, call, typed>>,
         NEW op, op \in Ops, op.op # "flag",
         op.op = "update" => op.key = ConfigKey,
         Writing(op) => op.buf \in Buffers /\ buffer[op.buf] = op.asked,
         Enqueue(op), at \in Steps \ {"wait"}, at' \in {"cli", "delete_all"},
         delete_all' \in [delete_next : BOOLEAN, pending : BOOLEAN]
  PROVE  FdsInv'
  <1>1. QueueOK' /\ RoomOK' /\ HalfDone' /\ QueueFindsBuffer'
    BY Enqueued DEF LoopKept
  <1>2. FlashOK' /\ RecordIsAsked'
    BY FlashKept DEF LoopKept
  <1>3. MemoryOK'
    BY DEF FdsInv, TypeOK, MemoryOK, LoopKept, StoreKept, Steps
  <1>4. CallFindsBuffer'
    BY DEF CallFindsBuffer
  <1>5. m_fds_initialized'
    BY DEF FdsInv, LoopKept
  <1> QED
    BY <1>1, <1>2, <1>3, <1>4, <1>5 DEF FdsInv, TypeOK

\* A step that queues nothing and fills nothing.
LEMMA LoopGoesOn ==
  ASSUME FdsInv, LoopKept, UNCHANGED <<queue, buffer, reused>>, typed' \in Nat,
         m_fds_initialized, at' \in Steps \ {"record_write", "record_update"},
         call' \in [key : Keys, asked : Contents, id : 0..lastId],
         delete_all' \in [delete_next : BOOLEAN, pending : BOOLEAN]
  PROVE  FdsInv'
  <1>1. QueueOK' /\ RoomOK' /\ HalfDone'
    BY QueueKept DEF LoopKept
  <1>2. FlashOK' /\ RecordIsAsked'
    BY FlashKept DEF LoopKept
  <1>3. MemoryOK'
    BY DEF FdsInv, TypeOK, MemoryOK, LoopKept, StoreKept
  <1>4. CallFindsBuffer' /\ QueueFindsBuffer'
    BY DEF FdsInv, CallFindsBuffer, QueueFindsBuffer, Unwritten
  <1>5. m_fds_initialized'
    BY DEF LoopKept
  <1> QED
    BY <1>1, <1>2, <1>3, <1>4, <1>5 DEF FdsInv, TypeOK

\* A command that fills buffer b and has next queue it.
LEMMA CommandFills ==
  ASSUME CliAssumption, FdsInv, LoopKept, UNCHANGED <<queue, delete_all>>,
         NEW b \in Buffers, NEW text \in Contents, Fill(b, text),
         at # "wait", at' \in Steps, typed' \in Nat,
         call' \in [key : Keys, asked : {text}, id : 0..lastId],
         at' = "record_write" => b = "m_data",
         at' = "record_update" => b = "cfg" /\ call'.key = ConfigKey
  PROVE  FdsInv'
  <1>1. QueueOK' /\ RoomOK' /\ HalfDone'
    BY QueueKept DEF LoopKept
  <1>2. /\ buffer' \in [Buffers -> Contents] /\ buffer'[b] = text
        /\ reused' \subseteq Buffers /\ reused \subseteq reused' /\ QueueFindsBuffer'
    BY BufferFilled
  <1>3. FlashOK' /\ RecordIsAsked'
    BY <1>2, FlashKept DEF LoopKept
  <1>4. MemoryOK'
    BY <1>2 DEF FdsInv, TypeOK, MemoryOK, LoopKept, StoreKept
  <1>5. CallFindsBuffer'
    BY <1>2 DEF CallFindsBuffer
  <1>6. m_fds_initialized'
    BY DEF FdsInv, LoopKept
  <1> QED
    BY <1>1, <1>2, <1>3, <1>4, <1>5, <1>6 DEF FdsInv, TypeOK

-----------------------------------------------------------------------------
LEMMA TypingKeepsInv ==
  ASSUME CliAssumption, FdsInv, Typing
  PROVE  FdsInv'
  <1> USE DEF Contents
  <1>1. /\ call \in [key : Keys, asked : Contents, id : 0..lastId] /\ typed \in Nat
        /\ delete_all \in [delete_next : BOOLEAN, pending : BOOLEAN] /\ lastId \in Nat
        /\ ConfigKey \in Keys
    BY DEF FdsInv, TypeOK, MemoryOK, FlashOK, CliAssumption
  <1>2. ASSUME NEW k \in Keys, NEW t \in Texts, write_cmd(k, t) PROVE FdsInv'
    <2>1. LoopKept /\ UNCHANGED <<queue, delete_all>> /\ Fill("m_data", t)
      BY <1>2 DEF write_cmd, fdsState, LoopKept, StoreKept
    <2>2. /\ at = "cli" /\ at' = "record_write" /\ typed' \in Nat
          /\ call' = [key |-> k, asked |-> t, id |-> 0]
      BY <1>1, <1>2 DEF write_cmd, Command, Goto
    <2>3. call' \in [key : Keys, asked : {t}, id : 0..lastId]
      BY <1>1, <2>2
    <2> QED
      BY <2>1, <2>2, <2>3, CommandFills DEF Steps, Buffers
  <1>3. ASSUME NEW t \in Texts, update_cmd(t) PROVE FdsInv'
    <2> DEFINE id == fds_record_find(ConfigKey)
    <2>1. id \in 0..lastId
      BY FirstIsAnId DEF fds_record_find, Under, FdsInv, TypeOK
    <2>2. LoopKept /\ UNCHANGED <<queue, delete_all>> /\ Fill("cfg", t)
      BY <1>3 DEF update_cmd, fdsState, LoopKept, StoreKept
    <2>3. /\ at = "cli" /\ at' \in {"delete_all", "record_update"} /\ typed' \in Nat
          /\ call' = [key |-> ConfigKey, asked |-> t, id |-> id]
      BY <1>1, <1>3 DEF update_cmd, Command, Goto
    <2>4. call' \in [key : Keys, asked : {t}, id : 0..lastId] /\ call'.key = ConfigKey
      BY <1>1, <2>1, <2>3
    <2> HIDE DEF id
    <2> QED
      BY <2>2, <2>3, <2>4, CommandFills DEF Steps, Buffers
  <1>4. ASSUME NEW k \in Keys, delete_cmd(k) PROVE FdsInv'
    <2> DEFINE id == fds_record_find(k)
    <2>1. id \in 0..lastId
      BY FirstIsAnId DEF fds_record_find, Under, FdsInv, TypeOK
    <2>2. /\ LoopKept /\ UNCHANGED <<queue, buffer, reused, delete_all>>
          /\ at = "cli" /\ at' \in {"delete_all", "record_delete"} /\ typed' \in Nat
          /\ call' = [key |-> k, asked |-> None, id |-> id]
      BY <1>1, <1>4 DEF delete_cmd, Command, Goto, fdsState, LoopKept, StoreKept
    <2>3. call' \in [key : Keys, asked : Contents, id : 0..lastId]
      BY <2>1, <2>2
    <2>4. m_fds_initialized
      BY <2>2 DEF FdsInv
    <2> HIDE DEF id
    <2> QED
      BY <1>1, <2>2, <2>3, <2>4, LoopGoesOn DEF Steps
  <1>5. CASE gc_cmd
    <2> DEFINE op == Op("gc", 0, call.key, "none", None)
    <2>1. op \in Ops /\ op.op = "gc"
      BY <1>1 DEF Op, Ops, Kinds
    <2>2. /\ LoopKept /\ UNCHANGED <<buffer, reused, call, delete_all>> /\ Enqueue(op)
          /\ at = "cli" /\ at' = "delete_all" /\ typed' \in Nat
      BY <1>1, <1>5 DEF gc_cmd, Command, Goto, fdsState, LoopKept, StoreKept
    <2> HIDE DEF op
    <2>3. QueueOK' /\ RoomOK' /\ HalfDone' /\ QueueFindsBuffer'
      BY <2>1, <2>2, Enqueued DEF Writing, LoopKept
    <2>4. FlashOK' /\ RecordIsAsked'
      BY <2>2, FlashKept DEF LoopKept
    <2>5. MemoryOK' /\ CallFindsBuffer' /\ m_fds_initialized'
      BY <2>2 DEF FdsInv, TypeOK, MemoryOK, CallFindsBuffer, LoopKept, StoreKept, Steps
    <2> QED
      BY <2>3, <2>4, <2>5 DEF FdsInv, TypeOK
  <1>6. CASE delete_all_cmd
    <2>1. /\ LoopKept /\ UNCHANGED <<queue, buffer, reused, call>>
          /\ at = "cli" /\ at' = "delete_all" /\ typed' \in Nat
          /\ delete_all' = [delete_all EXCEPT !.delete_next = TRUE]
      BY <1>1, <1>6 DEF delete_all_cmd, Command, Goto, LoopKept, StoreKept
    <2>2. m_fds_initialized /\ delete_all' \in [delete_next : BOOLEAN, pending : BOOLEAN]
      BY <1>1, <2>1 DEF FdsInv
    <2> QED
      BY <1>1, <2>1, <2>2, LoopGoesOn DEF Steps
  <1> QED
    BY <1>2, <1>3, <1>4, <1>5, <1>6 DEF Typing

LEMMA LoopKeepsInv ==
  ASSUME CliAssumption, FdsInv, Loop
  PROVE  FdsInv'
  <1>1. /\ call \in [key : Keys, asked : Contents, id : 0..lastId] /\ typed \in Nat
        /\ delete_all \in [delete_next : BOOLEAN, pending : BOOLEAN] /\ lastId \in Nat
        /\ None \in Contents
    BY DEF FdsInv, TypeOK, MemoryOK, FlashOK, Contents
  <1>2. CASE wait_for_fds_ready \/ NoCommand
    <2>1. /\ LoopKept /\ UNCHANGED <<queue, buffer, reused, call, typed, delete_all>>
          /\ at' \in {"cli", "delete_all"} /\ m_fds_initialized
      BY <1>2 DEF wait_for_fds_ready, NoCommand, Ready, Goto, fdsState, LoopKept,
                  StoreKept, FdsInv
    <2> QED
      BY <1>1, <2>1, LoopGoesOn DEF Steps
  <1>3. CASE record_write
    <2> DEFINE op == Op("write", 0, call.key, "m_data", call.asked)
    <2>1. op \in Ops /\ op.op = "write" /\ op.buf = "m_data" /\ op.asked = call.asked
      BY <1>1 DEF Op, Ops, Kinds, Buffers
    <2>2. /\ LoopKept /\ UNCHANGED <<buffer, reused, call, typed, delete_all>> /\ Enqueue(op)
          /\ at = "record_write" /\ at' = "delete_all"
      BY <1>3 DEF record_write, Goto, fdsState, LoopKept, StoreKept
    <2>3. buffer["m_data"] = call.asked
      BY <2>2 DEF FdsInv, CallFindsBuffer
    <2> HIDE DEF op
    <2> QED
      BY <1>1, <2>1, <2>2, <2>3, CallQueues DEF Steps, Buffers
  <1>4. CASE record_update
    <2> DEFINE op == Op("update", call.id, call.key, "cfg", call.asked)
    <2>1. /\ op \in Ops /\ op.op = "update" /\ op.buf = "cfg" /\ op.asked = call.asked
          /\ op.key = call.key
      BY <1>1 DEF Op, Ops, Kinds, Buffers
    <2>2. /\ LoopKept /\ UNCHANGED <<buffer, reused, call, typed, delete_all>> /\ Enqueue(op)
          /\ at = "record_update" /\ at' = "delete_all"
      BY <1>4 DEF record_update, Goto, fdsState, LoopKept, StoreKept
    <2>3. buffer["cfg"] = call.asked /\ call.key = ConfigKey
      BY <2>2 DEF FdsInv, CallFindsBuffer
    <2> HIDE DEF op
    <2> QED
      BY <1>1, <2>1, <2>2, <2>3, CallQueues DEF Steps, Buffers
  <1> DEFINE del == Op("delete", call.id, call.key, "none", None)
  <1>5. /\ del \in Ops /\ del.op = "delete" /\ ~Writing(del)
    BY <1>1 DEF Op, Ops, Kinds, Writing
  <1>6. CASE record_delete
    <2>1. /\ LoopKept /\ UNCHANGED <<buffer, reused, call, typed, delete_all>> /\ Enqueue(del)
          /\ at = "record_delete" /\ at' = "delete_all"
      BY <1>6 DEF record_delete, Goto, fdsState, LoopKept, StoreKept
    <2> HIDE DEF del
    <2> QED
      BY <1>1, <1>5, <2>1, CallQueues DEF Steps
  <1>7. CASE record_delete_next
    <2>1. /\ LoopKept /\ UNCHANGED <<buffer, reused, call, typed>> /\ Enqueue(del)
          /\ at = "delete_next" /\ at' = "cli"
          /\ delete_all' = [delete_all EXCEPT !.delete_next = DeleteNext(TRUE, Accepted(del))]
      BY <1>7 DEF record_delete_next, Goto, LoopKept, StoreKept
    <2>2. delete_all' \in [delete_next : BOOLEAN, pending : BOOLEAN]
      BY <1>1, <2>1 DEF DeleteNext, Accepted
    <2> HIDE DEF del
    <2> QED
      BY <1>1, <1>5, <2>1, <2>2, CallQueues DEF Steps
  <1>8. CASE delete_all_process
    <2>1. /\ LoopKept /\ UNCHANGED <<queue, buffer, reused, typed>>
          /\ at = "delete_all" /\ at' \in {"cli", "delete_next"}
          /\ call' \in {call, [call EXCEPT !.id = First(flash)]}
      BY <1>8 DEF delete_all_process, Goto, LoopKept, StoreKept
    <2>2. First(flash) \in 0..lastId
      BY FirstIsAnId DEF FdsInv, TypeOK
    <2>3. call' \in [key : Keys, asked : Contents, id : 0..lastId]
      BY <1>1, <2>1, <2>2
    <2>4. delete_all' \in [delete_next : BOOLEAN, pending : BOOLEAN]
      BY <1>1, <1>8 DEF delete_all_process, DeleteNext
    <2>5. m_fds_initialized
      BY <2>1 DEF FdsInv
    <2> QED
      BY <1>1, <2>1, <2>3, <2>4, <2>5, LoopGoesOn DEF Steps
  <1> QED
    BY <1>2, <1>3, <1>4, <1>6, <1>7, <1>8 DEF Loop

-----------------------------------------------------------------------------
(* Steps of FDS.                                                           *)

LEMMA HeadIsAnOp ==
  ASSUME FdsInv, queue # <<>>
  PROVE  /\ Head(queue) \in Ops /\ Head(queue) = queue[1] /\ 1 \in DOMAIN queue
         /\ Writing(Head(queue)) => Head(queue).buf \in Buffers
         /\ m_fds_initialized
  <1>1. queue \in Seq(Ops)
    BY DEF FdsInv, TypeOK, QueueOK, Ops
  <1>2. Head(queue) \in Ops /\ Head(queue) = queue[1] /\ 1 \in DOMAIN queue
    BY <1>1
  <1>3. Writing(Head(queue)) => 1 \in Unwritten
    BY <1>2 DEF Unwritten
  <1> QED
    BY <1>2, <1>3 DEF FdsInv, TypeOK, QueueOK

\* The new record is one, and takes its own place.
LEMMA NewRecordFits ==
  ASSUME FdsInv, NEW op \in Ops, op.buf \in Buffers, Written(op), dirty' = dirty
  PROVE  /\ FlashOK' /\ IsFiniteSet(flash') /\ Cardinality(flash') \in Nat
         /\ Cardinality(flash) \in Nat
         /\ Cardinality(flash') <= Cardinality(flash) + 1
  <1> DEFINE r == NewRecord(op)
  <1>1. /\ flash \subseteq Records /\ lastId \in Nat /\ dirty \in Nat /\ IsFiniteSet(flash)
        /\ buffer \in [Buffers -> Contents]
        /\ \A s, t \in flash : s.id = t.id => s = t
    BY DEF FdsInv, TypeOK, FlashOK, RoomOK, MemoryOK, Records
  <1>2. r \in Records' /\ r.id = lastId + 1 /\ lastId' = lastId + 1 /\ flash' = flash \cup {r}
    BY <1>1 DEF Written, NewRecord, Records, Ops
  <1>3. \A s \in flash : s \in Records' /\ s.id # lastId + 1
    BY <1>1, <1>2 DEF Records
  <1>4. FlashOK'
    <2>1. flash' \subseteq Records'
      BY <1>2, <1>3
    <2>2. \A s, t \in flash' : s.id = t.id => s = t
      BY <1>1, <1>2, <1>3
    <2> QED
      BY <1>1, <1>2, <2>1, <2>2 DEF FlashOK, Records
  <1> HIDE DEF r
  <1>5. /\ IsFiniteSet(flash')
        /\ Cardinality(flash') = IF r \in flash THEN Cardinality(flash)
                                               ELSE Cardinality(flash) + 1
    BY <1>1, <1>2, FS_AddElement
  <1> QED
    BY <1>1, <1>4, <1>5, FS_CardinalityType

\* A record that goes makes place for the dirt it leaves.
LEMMA RemovedFits ==
  ASSUME FdsInv, NEW op \in Ops, With(op.id) # {}, Removed(op)
  PROVE  /\ FlashOK' /\ IsFiniteSet(flash') /\ Cardinality(flash') \in Nat
         /\ Cardinality(flash) \in Nat
         /\ Cardinality(flash') + dirty' <= Cardinality(flash) + dirty
  <1>1. /\ flash \subseteq Records /\ lastId \in Nat /\ dirty \in Nat /\ IsFiniteSet(flash)
        /\ \A s, t \in flash : s.id = t.id => s = t
    BY DEF FdsInv, TypeOK, FlashOK, RoomOK, Records
  <1>2. PICK r \in flash : r.id = op.id
    BY DEF With
  <1>3. flash' \subseteq flash \ {r} /\ dirty' = dirty + 1 /\ lastId' = lastId
    BY <1>2 DEF Removed, With
  <1>4. FlashOK'
    BY <1>1, <1>3 DEF FlashOK, Records
  <1>5. IsFiniteSet(flash \ {r}) /\ Cardinality(flash \ {r}) = Cardinality(flash) - 1
    BY <1>1, <1>2, FS_RemoveElement
  <1>6. IsFiniteSet(flash') /\ Cardinality(flash') <= Cardinality(flash) - 1
    BY <1>3, <1>5, FS_Subset
  <1> QED
    BY <1>1, <1>3, <1>4, <1>5, <1>6, FS_CardinalityType

\* What the main loop remembers stays valid while FDS works.
LEMMA FdsKeepsMemory ==
  ASSUME FdsInv, UNCHANGED <<m_fds_initialized, cliVars, resets>>,
         lastId' \in Nat, lastId <= lastId',
         delete_all' \in [delete_next : BOOLEAN, pending : BOOLEAN]
  PROVE  MemoryOK' /\ CallFindsBuffer'
  <1>1. lastId \in Nat
    BY DEF FdsInv, TypeOK, FlashOK
  <1>2. call' \in [key : Keys, asked : Contents, id : 0..lastId']
    BY <1>1 DEF FdsInv, TypeOK, MemoryOK, cliVars
  <1> QED
    BY <1>2 DEF FdsInv, TypeOK, MemoryOK, CallFindsBuffer, cliVars

LEMMA HandlerTypes ==
  ASSUME FdsInv, NEW op, fds_evt_handler(op)
  PROVE  delete_all' \in [delete_next : BOOLEAN, pending : BOOLEAN]
  BY DEF FdsInv, TypeOK, MemoryOK, fds_evt_handler

\* The rest of the queue after its head has ended.
LEMMA TailKeepsBuffers ==
  ASSUME CliAssumption, FdsInv, queue # <<>>, queue' = Tail(queue),
         UNCHANGED <<buffer, reused>>, lastId' \in Nat, lastId <= lastId'
  PROVE  QueueFindsBuffer' /\ HalfDone'
  <1>1. /\ \A i \in DOMAIN queue' : i + 1 \in DOMAIN queue /\ queue'[i] = queue[i + 1]
        /\ \A i \in Unwritten' : i + 1 \in Unwritten
    BY TailFits DEF FdsInv, TypeOK, FlashOK
  <1>2. \A i \in DOMAIN queue' : i \in Nat \ {0}
    BY <1>1, HeadTailProperties DEF FdsInv, TypeOK, QueueOK
  <1>3. \A i \in DOMAIN queue' : queue'[i].op # "flag"
    BY <1>1, <1>2 DEF FdsInv, HalfDone
  <1>4. HalfDone'
    BY <1>1, <1>3 DEF FdsInv, HalfDone
  <1>5. QueueFindsBuffer'
    BY <1>1 DEF FdsInv, QueueFindsBuffer, Unwritten
  <1> QED
    BY <1>4, <1>5

\* A record that FDS writes holds what the buffer holds.
LEMMA NewRecordIsAsked ==
  ASSUME FdsInv, NEW op, queue # <<>>, op = Head(queue), Writing(op), Written(op),
         UNCHANGED reused
  PROVE  RecordIsAsked'
  <1>1. 1 \in Unwritten /\ op = queue[1]
    BY HeadIsAnOp DEF Unwritten
  <1>2. reused = {} => NewRecord(op).text = NewRecord(op).asked
    BY <1>1 DEF FdsInv, QueueFindsBuffer, NewRecord
  <1> QED
    BY <1>2 DEF FdsInv, RecordIsAsked, Written

\* The oldest operation ends, whatever it does to the records.
LEMMA EndedKeepsInv ==
  ASSUME CliAssumption, FdsInv, queue # <<>>, Ended(Head(queue)),
         FlashOK', RecordIsAsked', IsFiniteSet(flash'), lastId <= lastId',
         Cardinality(flash') \in Nat, Cardinality(flash) \in Nat,
         Cardinality(flash') + dirty'
           <= Cardinality(flash) + dirty + (IF Writing(Head(queue)) THEN 1 ELSE 0)
  PROVE  FdsInv'
  <1>1. /\ queue' = Tail(queue) /\ UNCHANGED <<m_fds_initialized, cliVars, resets>>
        /\ fds_evt_handler(Head(queue)) /\ UNCHANGED <<buffer, reused>>
    BY DEF Ended, Works, cliVars
  <1>2. lastId \in Nat /\ lastId' \in Nat /\ dirty \in Nat /\ dirty' \in Nat
    BY DEF FdsInv, TypeOK, FlashOK
  <1>3. /\ QueueOK'
        /\ Cardinality(Unwritten) \in Nat /\ Cardinality(Unwritten') \in Nat
        /\ Cardinality(Unwritten') <= IF Writing(Head(queue))
                                      THEN Cardinality(Unwritten) - 1
                                      ELSE Cardinality(Unwritten)
    BY <1>1, <1>2, TailFits DEF FdsInv, TypeOK
  <1>4. RoomOK'
    <2>1. Taken <= Space /\ Space \in Nat
      BY DEF FdsInv, TypeOK, RoomOK, CliAssumption
    <2> QED
      BY <1>2, <1>3, <2>1 DEF RoomOK, Taken
  <1>5. MemoryOK' /\ CallFindsBuffer'
    BY <1>1, <1>2, HandlerTypes, FdsKeepsMemory
  <1>6. QueueFindsBuffer' /\ HalfDone'
    BY <1>1, <1>2, TailKeepsBuffers
  <1>7. m_fds_initialized'
    BY <1>1, HeadIsAnOp
  <1> QED
    BY <1>3, <1>4, <1>5, <1>6, <1>7 DEF FdsInv, TypeOK

LEMMA FdsDoneKeepsInv ==
  ASSUME CliAssumption, FdsInv, FdsDone
  PROVE  FdsInv'
  <1> DEFINE op == Head(queue)
  <1>1. queue # <<>> /\ Ended(Head(queue)) /\ Done(op) /\ UNCHANGED <<buffer, reused>>
    BY DEF FdsDone, Ended, Works, cliVars
  <1>2. /\ op \in Ops /\ (Writing(op) => op.buf \in Buffers)
        /\ lastId \in Nat /\ dirty \in Nat /\ IsFiniteSet(flash)
        /\ Cardinality(flash) \in Nat
    BY <1>1, HeadIsAnOp, FS_CardinalityType DEF FdsInv, TypeOK, FlashOK, RoomOK
  <1>3. CASE op.op = "write"
    <2>1. Written(op) /\ dirty' = dirty /\ Writing(op)
      BY <1>1, <1>3 DEF Done, Writing
    <2>2. /\ FlashOK' /\ IsFiniteSet(flash') /\ Cardinality(flash') \in Nat
          /\ Cardinality(flash') <= Cardinality(flash) + 1
      BY <1>2, <2>1, NewRecordFits
    <2>3. RecordIsAsked'
      BY <1>1, <2>1, NewRecordIsAsked
    <2>4. lastId' = lastId + 1
      BY <2>1 DEF Written
    <2> HIDE DEF op
    <2>5. Cardinality(flash') + dirty' <= Cardinality(flash) + dirty + 1
      BY <1>2, <2>1, <2>2
    <2> QED
      BY <1>1, <1>2, <2>1, <2>2, <2>3, <2>4, <2>5, EndedKeepsInv DEF op
  <1>4. CASE op.op \in {"delete", "flag"} /\ With(op.id) # {}
    <2>1. Removed(op) /\ ~Writing(op)
      BY <1>1, <1>4 DEF Done, Writing
    <2>2. /\ FlashOK' /\ IsFiniteSet(flash') /\ Cardinality(flash') \in Nat
          /\ Cardinality(flash') + dirty' <= Cardinality(flash) + dirty
      BY <1>2, <1>4, <2>1, RemovedFits
    <2>3. flash' \subseteq flash /\ lastId' = lastId
      BY <2>1 DEF Removed
    <2>4. RecordIsAsked'
      BY <1>1, <2>3 DEF FdsInv, RecordIsAsked
    <2> HIDE DEF op
    <2> QED
      BY <1>1, <1>2, <2>1, <2>2, <2>3, <2>4, EndedKeepsInv DEF op
  <1>5. CASE /\ flash' = flash /\ lastId' = lastId /\ dirty' \in {0, dirty}
             /\ op.op # "write"
    <2>1. FlashOK' /\ RecordIsAsked'
      BY <1>1, <1>2, <1>5 DEF FdsInv, TypeOK, FlashOK, RecordIsAsked
    <2>2. Cardinality(flash') + dirty'
            <= Cardinality(flash) + dirty + (IF Writing(op) THEN 1 ELSE 0)
      BY <1>2, <1>5
    <2> QED
      BY <1>1, <1>2, <1>5, <2>1, <2>2, EndedKeepsInv
  <1> QED
    BY <1>1, <1>3, <1>4, <1>5 DEF Done

LEMMA FdsTimeoutKeepsInv ==
  ASSUME CliAssumption, FdsInv, FdsTimeout
  PROVE  FdsInv'
  <1> DEFINE op == Head(queue)
  <1>1. /\ queue # <<>> /\ Ended(Head(queue)) /\ UNCHANGED <<buffer, reused>>
        /\ flash' = flash /\ lastId' = lastId /\ Spoilt(op)
    BY DEF FdsTimeout, Ended, Works, cliVars
  <1>2. /\ lastId \in Nat /\ dirty \in Nat /\ IsFiniteSet(flash)
        /\ Cardinality(flash) \in Nat
    BY FS_CardinalityType DEF FdsInv, TypeOK, FlashOK, RoomOK
  <1>3. dirty' \in Nat /\ dirty' <= dirty + (IF Writing(op) THEN 1 ELSE 0)
    BY <1>1, <1>2 DEF Spoilt
  <1>4. FlashOK' /\ RecordIsAsked'
    BY <1>1, <1>3 DEF FdsInv, TypeOK, FlashOK, RecordIsAsked
  <1> QED
    BY <1>1, <1>2, <1>3, <1>4, EndedKeepsInv

LEMMA FdsHalfDoneKeepsInv ==
  ASSUME CliAssumption, FdsInv, FdsHalfDone
  PROVE  FdsInv'
  <1> DEFINE op == Head(queue)
             flag == [op EXCEPT !.op = "flag"]
  <1>1. /\ queue # <<>> /\ op.op = "update" /\ With(op.id) # {} /\ Written(op)
        /\ dirty' = dirty /\ UNCHANGED <<m_fds_initialized, cliVars, resets, delete_all>>
        /\ queue' = <<flag>> \o Tail(queue) /\ UNCHANGED <<buffer, reused>>
    BY DEF FdsHalfDone, FdsUpdate, Works, cliVars
  <1>2. /\ op \in Ops /\ op = queue[1] /\ Writing(op) /\ op.buf \in Buffers
        /\ m_fds_initialized
    BY <1>1, HeadIsAnOp DEF Writing
  <1>3. /\ FlashOK' /\ IsFiniteSet(flash') /\ Cardinality(flash') \in Nat
        /\ Cardinality(flash) \in Nat
        /\ Cardinality(flash') <= Cardinality(flash) + 1
    BY <1>1, <1>2, NewRecordFits
  <1>4. /\ lastId \in Nat /\ lastId' = lastId + 1 /\ queue \in Seq(Ops)
        /\ Len(queue) <= QueueSize /\ QueueSize \in Nat
        /\ delete_all' \in [delete_next : BOOLEAN, pending : BOOLEAN]
    BY <1>1 DEF FdsInv, TypeOK, FlashOK, QueueOK, MemoryOK, Ops, Written, CliAssumption
  <1>5. /\ Ops \subseteq Ops' /\ flag \in Ops' /\ flag.op = "flag" /\ ~Writing(flag)
        /\ flag.id = op.id /\ flag.key = op.key
    BY <1>2, <1>4 DEF Ops, Writing, Kinds
  <1> HIDE DEF flag
  <1>6. /\ Len(queue) \in Nat \ {0} /\ DOMAIN queue = 1..Len(queue)
        /\ queue' \in Seq(Ops') /\ Len(queue') = Len(queue)
        /\ \A i \in DOMAIN queue : queue'[i] = IF i = 1 THEN flag ELSE queue[i]
    <2>1. Tail(queue) \in Seq(Ops') /\ Len(queue) \in Nat \ {0}
      BY <1>1, <1>4, <1>5
    <2>2. <<flag>> \in Seq(Ops')
      BY <1>5
    <2> QED
      BY <1>1, <1>4, <2>1, <2>2
  <1>7. Unwritten' = Unwritten \ {1} /\ 1 \in Unwritten
    BY <1>2, <1>5, <1>6 DEF Unwritten, Writing
  <1>8. QueueOK'
    <2>1. \A i \in Unwritten' : queue'[i].buf \in Buffers
      BY <1>6, <1>7 DEF FdsInv, TypeOK, QueueOK, Unwritten
    <2> QED
      BY <1>4, <1>6, <2>1 DEF QueueOK, Ops
  <1>9. RoomOK'
    <2>1. IsFiniteSet(Unwritten) /\ Cardinality(Unwritten) \in Nat
      BY <1>4, UnwrittenFinite DEF Unwritten
    <2>2. Cardinality(Unwritten') = Cardinality(Unwritten) - 1
      BY <1>7, <2>1, FS_RemoveElement
    <2>3. Taken <= Space /\ dirty \in Nat /\ Space \in Nat
      BY DEF FdsInv, TypeOK, RoomOK, FlashOK, CliAssumption
    <2> QED
      BY <1>1, <1>3, <2>1, <2>2, <2>3 DEF RoomOK, Taken
  <1>10. MemoryOK' /\ CallFindsBuffer'
    BY <1>1, <1>4, FdsKeepsMemory
  <1>11. QueueFindsBuffer'
    BY <1>1, <1>6, <1>7 DEF FdsInv, QueueFindsBuffer, Unwritten
  <1>12. RecordIsAsked'
    BY <1>1, <1>2, NewRecordIsAsked
  <1>13. HalfDone'
    <2>1. op.key = ConfigKey /\ op.id \in 0..lastId
      BY <1>1, <1>2, <1>6 DEF FdsInv, HalfDone, Ops
    <2>2. \E r \in flash' : r.id = lastId' /\ r.key = ConfigKey
      <3>1. NewRecord(op).id = lastId + 1 /\ NewRecord(op).key = op.key
        BY DEF NewRecord
      <3> QED
        BY <1>1, <1>4, <2>1, <3>1 DEF Written
    <2>3. \A i \in DOMAIN queue : i # 1 => queue[i].op # "flag"
      BY DEF FdsInv, HalfDone
    <2>4. flag.id < lastId'
      BY <1>4, <1>5, <2>1
    <2>5. DOMAIN queue' = DOMAIN queue
      BY <1>6
    <2> HIDE DEF op
    <2>6. ASSUME NEW i \in DOMAIN queue'
          PROVE  /\ queue'[i].op \in {"update", "flag"} => queue'[i].key = ConfigKey
                 /\ queue'[i].op = "flag" => i = 1 /\ queue'[i].id < lastId'
      BY <1>5, <1>6, <2>1, <2>3, <2>4, <2>5 DEF FdsInv, HalfDone
    <2> QED
      BY <2>2, <2>6 DEF HalfDone
  <1>14. m_fds_initialized'
    BY <1>1, <1>2
  <1> QED
    BY <1>3, <1>8, <1>9, <1>10, <1>11, <1>12, <1>13, <1>14 DEF FdsInv, TypeOK

LEMMA FdsReadyKeepsInv ==
  ASSUME FdsInv, FdsReady
  PROVE  FdsInv'
  <1>1. /\ StoreKept /\ UNCHANGED <<queue, delete_all, cliVars, resets>> /\ m_fds_initialized'
        /\ UNCHANGED <<buffer, reused, call, at, typed>>
    BY DEF FdsReady, StoreKept, cliVars
  <1>2. QueueOK' /\ RoomOK' /\ HalfDone' /\ FlashOK' /\ RecordIsAsked'
    BY <1>1, QueueKept, FlashKept
  <1>3. MemoryOK'
    BY <1>1 DEF FdsReady, FdsInv, TypeOK, MemoryOK, StoreKept
  <1>4. CallFindsBuffer' /\ QueueFindsBuffer'
    BY <1>1 DEF FdsInv, CallFindsBuffer, QueueFindsBuffer, Unwritten
  <1> QED
    BY <1>1, <1>2, <1>3, <1>4 DEF FdsInv, TypeOK

\* An empty queue and what memory holds when the program starts.
Booted ==
  /\ queue = <<>> /\ buffer = Zeros /\ call = NoCall /\ at = "wait"
  /\ delete_all = Idle /\ m_fds_initialized = FALSE /\ FlashOK /\ RecordIsAsked
  /\ IsFiniteSet(flash) /\ Cardinality(flash) + dirty <= Space
  /\ typed \in Nat /\ resets \in Nat /\ reused \subseteq Buffers

LEMMA BootedKeepsInv == Booted => FdsInv
  <1> SUFFICES ASSUME Booted PROVE FdsInv
    OBVIOUS
  <1> USE CliAssumption DEF Booted
  <1>1. DOMAIN queue = {} /\ Unwritten = {} /\ Cardinality(Unwritten) = 0
    BY FS_EmptySet DEF Unwritten
  <1>2. QueueOK
    BY <1>1 DEF QueueOK, CliAssumption
  <1>3. RoomOK
    <2>1. Cardinality(flash) \in Nat /\ dirty \in Nat
      BY FS_CardinalityType DEF FlashOK
    <2> QED
      BY <1>1, <2>1 DEF RoomOK, Taken
  <1>4. MemoryOK
    <2>1. buffer \in [Buffers -> Contents] /\ None \in Contents
      BY DEF Zeros, Buffers, Contents
    <2>2. delete_all \in [delete_next : BOOLEAN, pending : BOOLEAN]
      BY DEF Idle
    <2>3. call \in [key : Keys, asked : Contents, id : 0..lastId]
      BY <2>1 DEF NoCall, CliAssumption, FlashOK
    <2> QED
      BY <2>1, <2>2, <2>3 DEF MemoryOK, Steps
  <1>5. CallFindsBuffer /\ QueueFindsBuffer /\ HalfDone
    BY <1>1 DEF CallFindsBuffer, QueueFindsBuffer, HalfDone
  <1> QED
    BY <1>2, <1>3, <1>4, <1>5 DEF FdsInv, TypeOK

LEMMA InitInv ==
  ASSUME CliAssumption, Init
  PROVE  FdsInv
  <1>1. PICK n \in 0..MaxStored : flash = {Record(i) : i \in 1..n} /\ lastId = n
    BY DEF Init
  <1>2. n \in Nat /\ n <= Space /\ None \in Contents /\ ConfigKey \in Keys /\ Space \in Nat
    BY DEF CliAssumption, Contents
  <1>3. FlashOK /\ RecordIsAsked
    BY <1>1, <1>2 DEF FlashOK, RecordIsAsked, Record, Init
  <1>4. IsFiniteSet(flash) /\ Cardinality(flash) <= n
    <2> DEFINE f == [i \in 1..n |-> Record(i)]
    <2>1. f \in Surjection(1..n, flash)
      BY <1>1 DEF Surjection
    <2>2. IsFiniteSet(1..n) /\ Cardinality(1..n) = n
      BY <1>2, FS_Interval
    <2> HIDE DEF f
    <2> QED
      BY <2>1, <2>2, FS_Surjection
  <1>5. Cardinality(flash) \in Nat
    BY <1>4, FS_CardinalityType
  <1>6. Cardinality(flash) + dirty <= Space
    BY <1>2, <1>4, <1>5 DEF Init
  <1> QED
    BY <1>3, <1>4, <1>6, BootedKeepsInv DEF Init, Booted

LEMMA ResetKeepsInv ==
  ASSUME CliAssumption, FdsInv, Reset
  PROVE  FdsInv'
  <1>1. /\ flash' = flash /\ lastId' = lastId /\ typed' = typed /\ reused' = reused
        /\ resets' = resets + 1
    BY DEF Reset
  <1>2. /\ IsFiniteSet(flash) /\ Cardinality(flash) \in Nat /\ dirty \in Nat
        /\ typed \in Nat /\ resets \in Nat /\ reused \subseteq Buffers
        /\ Taken <= Space /\ Space \in Nat /\ queue \in Seq(Ops)
    BY FS_CardinalityType
    DEF FdsInv, TypeOK, RoomOK, FlashOK, MemoryOK, QueueOK, Ops, CliAssumption
  <1>3. IsFiniteSet(Unwritten) /\ Cardinality(Unwritten) \in Nat
    BY <1>2, UnwrittenFinite DEF Unwritten
  <1>4. dirty' \in Nat /\ Cardinality(flash) + dirty' <= Space
    <2>1. CASE queue = <<>>
      BY <1>2, <1>3, <2>1 DEF Reset, Taken
    <2>2. CASE queue # <<>>
      <3>1. dirty' \in dirty..(IF Writing(Head(queue)) THEN dirty + 1 ELSE dirty)
        BY <2>2 DEF Reset, Spoilt
      <3>2. Writing(Head(queue)) => Cardinality(Unwritten) >= 1
        <4>1. Writing(Head(queue)) => 1 \in Unwritten
          BY <2>2, HeadIsAnOp DEF Unwritten
        <4> QED
          BY <1>3, <4>1, FS_EmptySet
      <3> QED
        BY <1>2, <1>3, <3>1, <3>2 DEF Taken
    <2> QED
      BY <2>1, <2>2
  <1>5. FlashOK' /\ RecordIsAsked'
    BY <1>1, <1>4 DEF FdsInv, TypeOK, FlashOK, RecordIsAsked
  <1>6. Booted'
    BY <1>1, <1>2, <1>4, <1>5 DEF Booted, Reset, Zeros, NoCall, Idle
  <1> QED
    BY <1>6, BootedKeepsInv, PTL

-----------------------------------------------------------------------------
LEMMA StepKeepsInv == FdsInv /\ [Next]_vars => FdsInv'
  <1> SUFFICES ASSUME FdsInv, [Next]_vars PROVE FdsInv'
    OBVIOUS
  <1>1. CASE UNCHANGED vars
    <2>1. /\ StoreKept /\ UNCHANGED <<queue, delete_all, m_fds_initialized, resets>>
          /\ UNCHANGED <<buffer, reused, call, at, typed>>
      BY <1>1 DEF vars, StoreKept, cliVars
    <2>2. QueueOK' /\ RoomOK' /\ HalfDone' /\ FlashOK' /\ RecordIsAsked'
      BY <2>1, QueueKept, FlashKept
    <2>3. MemoryOK' /\ CallFindsBuffer' /\ QueueFindsBuffer'
      BY <2>1 DEF FdsInv, TypeOK, MemoryOK, CallFindsBuffer, QueueFindsBuffer, Unwritten,
                  StoreKept
    <2> QED
      BY <2>1, <2>2, <2>3 DEF FdsInv, TypeOK
  <1>2. CASE Next
    BY <1>2, CliAssumption, TypingKeepsInv, LoopKeepsInv, FdsDoneKeepsInv,
       FdsHalfDoneKeepsInv, FdsTimeoutKeepsInv, FdsReadyKeepsInv, ResetKeepsInv
    DEF Next, Fds
  <1> QED
    BY <1>1, <1>2

\* The invariant holds of the command line on FDS, resets included.
THEOREM FdsInvariant == Spec => []FdsInv
  <1>1. Init => FdsInv
    BY InitInv, CliAssumption
  <1> QED
    BY <1>1, StepKeepsInv, PTL DEF Spec

\* Types; the queue and the flash never hold more than they have room for
\* (cli.c:170, 195).
THEOREM FdsTypes == Spec => []TypeOK
  <1>1. FdsInv => TypeOK
    BY DEF FdsInv
  <1> QED
    BY <1>1, FdsInvariant, PTL

\* A record holds what its command was given unless a buffer was filled again
\* while an operation needed it (cli.c:518, 549).
THEOREM FdsRecords == Spec => []RecordIsAsked
  <1>1. FdsInv => RecordIsAsked
    BY DEF FdsInv
  <1> QED
    BY <1>1, FdsInvariant, PTL

\* No operation is queued before FDS says that it is ready (climain.c:212, 252).
THEOREM FdsReadiness == Spec => []ReadyBeforeUse
  <1>1. FdsInv => ReadyBeforeUse
    BY DEF FdsInv, ReadyBeforeUse
  <1> QED
    BY <1>1, FdsInvariant, PTL

\* Only a deletion takes away the last configuration: an update's new record is
\* there before its old one goes, and no timeout or reset removes a record
\* (cli.c:195).
THEOREM ConfigurationSurvives == Spec => ConfigSurvives
  <1> DEFINE Survives == Under(ConfigKey) # {} => \/ Under(ConfigKey)' # {}
                                                  \/ Head(queue).op = "delete"
  <1>1. FdsInv /\ [Next]_vars => [Survives]_vars
    <2> SUFFICES ASSUME FdsInv, Next, Under(ConfigKey) # {} PROVE Survives
      OBVIOUS
    <2>1. CASE flash \subseteq flash'
      BY <2>1 DEF Under
    <2>2. CASE FdsDone
      <3> DEFINE op == Head(queue)
      <3>1. queue # <<>> /\ Done(op)
        BY <2>2 DEF FdsDone
      <3>2. CASE op.op = "flag" /\ Removed(op)
        <4>1. 1 \in DOMAIN queue /\ op = queue[1]
          BY <3>1, HeadIsAnOp
        <4>2. PICK r \in flash : r.id = lastId /\ r.key = ConfigKey
          BY <3>2, <4>1 DEF FdsInv, HalfDone
        <4>3. r.id # op.id
          <5>1. queue[1].id < lastId /\ lastId \in Nat
            BY <3>2, <4>1 DEF FdsInv, HalfDone, TypeOK, FlashOK
          <5>2. op \in Ops
            BY <3>1, HeadIsAnOp
          <5> QED
            BY <4>1, <4>2, <5>1, <5>2 DEF Ops
        <4>4. r \in flash'
          BY <3>2, <4>2, <4>3 DEF Removed, With
        <4> QED
          BY <4>2, <4>4 DEF Under
      <3>3. CASE op.op = "delete"
        BY <3>3
      <3>4. flash \subseteq flash' \/ op.op = "delete" \/ (op.op = "flag" /\ Removed(op))
        BY <3>1 DEF Done, Written
      <3> QED
        BY <2>1, <3>2, <3>3, <3>4
    <2>3. CASE FdsHalfDone
      BY <2>1, <2>3 DEF FdsHalfDone, FdsUpdate, Written
    <2>4. CASE Typing
      BY <2>1, <2>4 DEF Typing, write_cmd, update_cmd, delete_cmd, gc_cmd, delete_all_cmd,
                        fdsState
    <2>5. CASE Loop
      BY <2>1, <2>5 DEF Loop, wait_for_fds_ready, NoCommand, record_write, record_update,
                        record_delete, delete_all_process, record_delete_next, fdsState
    <2>6. CASE FdsTimeout \/ FdsReady \/ Reset
      BY <2>1, <2>6 DEF FdsTimeout, FdsReady, Reset
    <2> QED
      BY <2>2, <2>3, <2>4, <2>5, <2>6 DEF Next, Fds
  <1> QED
    BY <1>1, FdsInvariant, PTL DEF Spec, ConfigSurvives

\* delete_all gives up only when nothing is left, the queue is full, or the
\* device starts anew (climain.c:188).
THEOREM DeleteAllGivesUp == Spec => GivesUpForAReason
  <1> DEFINE Reason == delete_all.delete_next /\ ~delete_all'.delete_next
                         => flash = {} \/ Len(queue) = QueueSize \/ Reset
  <1>1. FdsInv /\ [Next]_vars => [Reason]_vars
    <2> SUFFICES ASSUME FdsInv, Next, delete_all.delete_next, ~delete_all'.delete_next,
                        ~Reset
                 PROVE  flash = {} \/ Len(queue) = QueueSize
      OBVIOUS
    <2>1. /\ delete_all \in [delete_next : BOOLEAN, pending : BOOLEAN]
          /\ Len(queue) <= QueueSize /\ queue \in Seq(Ops) /\ QueueSize \in Nat
      BY CliAssumption DEF FdsInv, TypeOK, MemoryOK, QueueOK, Ops, CliAssumption
    <2>2. CASE delete_all_process
      BY <2>1, <2>2 DEF delete_all_process
    <2>3. CASE record_delete_next
      <3> DEFINE op == Op("delete", call.id, call.key, "none", None)
      <3>1. delete_all' = [delete_all EXCEPT !.delete_next = DeleteNext(TRUE, Accepted(op))]
        BY <2>3 DEF record_delete_next
      <3>2. ~Accepted(op) /\ ~Writing(op)
        BY <2>1, <3>1 DEF DeleteNext, Writing, Op
      <3>3. ~(Len(queue) < QueueSize)
        BY <3>2 DEF Accepted
      <3> QED
        BY <2>1, <3>3
    <2>4. ASSUME UNCHANGED delete_all \/ (\E op : fds_evt_handler(op)) \/ delete_all_cmd
          PROVE  FALSE
      BY <2>1, <2>4 DEF fds_evt_handler, delete_all_cmd
    <2>5. CASE Typing
      BY <2>4, <2>5 DEF Typing, write_cmd, update_cmd, delete_cmd, gc_cmd, fdsState
    <2>6. CASE wait_for_fds_ready \/ NoCommand \/ record_write \/ record_update
                \/ record_delete
      BY <2>4, <2>6 DEF wait_for_fds_ready, NoCommand, record_write, record_update,
                        record_delete, fdsState
    <2>7. CASE Fds \/ FdsTimeout \/ FdsReady
      BY <2>4, <2>7 DEF Fds, FdsDone, FdsHalfDone, FdsTimeout, FdsReady, Ended
    <2> QED
      BY <2>2, <2>3, <2>5, <2>6, <2>7 DEF Next, Loop
  <1> QED
    BY <1>1, FdsInvariant, PTL DEF Spec, GivesUpForAReason

-----------------------------------------------------------------------------
(* A patient user gets what RecordStore promises.                          *)

\* The abstract operations and records that the refinement maps to.
Asking == [i \in DOMAIN queue |-> Told(queue[i])]
Storing == {Kept(r) : r \in flash}

LEMMA SameStore ==
  ASSUME UNCHANGED <<flash, lastId, queue>>
  PROVE  UNCHANGED <<Storing, lastId, Asking>>
  BY DEF Storing, Asking

LEMMA EnqueueAsks ==
  ASSUME FdsInv, UNCHANGED <<flash, lastId>>, NEW op \in Ops, op.op # "flag", Enqueue(op)
  PROVE  Store!Ask \/ UNCHANGED <<Storing, lastId, Asking>>
  <1>1. CASE queue' = queue
    BY <1>1, SameStore
  <1>2. CASE queue' = Append(queue, op)
    <2>1. queue \in Seq(Ops) /\ Len(queue) \in Nat
      BY DEF FdsInv, TypeOK, QueueOK, Ops
    <2>2. /\ DOMAIN queue' = 1..(Len(queue) + 1) /\ DOMAIN queue = 1..Len(queue)
          /\ \A i \in DOMAIN queue' : queue'[i] = IF i = Len(queue) + 1 THEN op ELSE queue[i]
      BY <1>2, <2>1
    <2>3. Asking \in Seq({Told(o) : o \in Ops}) /\ Len(Asking) = Len(queue)
      BY <2>1, <2>2 DEF Asking
    <2>4. Asking' = Append(Asking, Told(op))
      BY <2>1, <2>2, <2>3 DEF Asking
    <2>5. Told(op) \in Store!Operations
      BY DEF Store!Operations, Told, Ops, Kinds
    <2>6. UNCHANGED <<Storing, lastId>>
      BY DEF Storing
    <2> QED
      BY <2>4, <2>5, <2>6 DEF Store!Ask, Asking, Storing
  <1> QED
    BY <1>1, <1>2 DEF Enqueue

\* The abstract queue moves with the queue.
LEMMA TailAsks ==
  ASSUME FdsInv, queue # <<>>
  PROVE  /\ Asking # <<>> /\ Head(Asking) = Told(Head(queue))
         /\ queue' = Tail(queue) => Asking' = Tail(Asking)
         /\ \A op : queue' = <<op>> \o Tail(queue) => Asking' = <<Told(op)>> \o Tail(Asking)
  <1>1. queue \in Seq(Ops) /\ Len(queue) \in Nat \ {0} /\ DOMAIN queue = 1..Len(queue)
    BY DEF FdsInv, TypeOK, QueueOK, Ops
  <1>2. /\ Asking \in Seq({Told(o) : o \in Ops}) /\ Len(Asking) = Len(queue)
        /\ \A i \in 1..Len(queue) : Asking[i] = Told(queue[i])
    BY <1>1 DEF Asking
  <1>3. Asking # <<>> /\ Head(Asking) = Told(Head(queue))
    BY <1>1, <1>2
  <1>4. ASSUME queue' = Tail(queue) PROVE Asking' = Tail(Asking)
    BY <1>1, <1>2, <1>4 DEF Asking
  <1>5. ASSUME NEW op, queue' = <<op>> \o Tail(queue)
        PROVE  Asking' = <<Told(op)>> \o Tail(Asking)
    <2>1. /\ DOMAIN queue' = 1..Len(queue)
          /\ \A i \in 1..Len(queue) : queue'[i] = IF i = 1 THEN op ELSE queue[i]
      BY <1>1, <1>5
    <2>2. /\ DOMAIN (<<Told(op)>> \o Tail(Asking)) = 1..Len(queue)
          /\ \A i \in 1..Len(queue) : (<<Told(op)>> \o Tail(Asking))[i]
                                       = IF i = 1 THEN Told(op) ELSE Asking[i]
      BY <1>1, <1>2
    <2>3. /\ DOMAIN Asking' = 1..Len(queue)
          /\ \A i \in 1..Len(queue) : Asking'[i] = Told(queue'[i])
      BY <2>1 DEF Asking
    <2>4. \A i \in 1..Len(queue) : Asking'[i] = (<<Told(op)>> \o Tail(Asking))[i]
      BY <1>2, <2>1, <2>2, <2>3
    <2> QED
      BY <2>2, <2>3, <2>4 DEF Asking
  <1> QED
    BY <1>3, <1>4, <1>5

LEMMA WrittenPuts ==
  ASSUME FdsInv, reused = {}, queue # <<>>, Writing(Head(queue)), Written(Head(queue))
  PROVE  Store!Put(Told(Head(queue)))
  <1> DEFINE op == Head(queue)
  <1>1. 1 \in Unwritten /\ op = queue[1]
    BY HeadIsAnOp DEF Unwritten
  <1>2. Kept(NewRecord(op)) = [id |-> lastId + 1, key |-> Told(op).key, text |-> Told(op).text]
    BY <1>1 DEF FdsInv, QueueFindsBuffer, NewRecord, Kept, Told
  <1>3. Storing' = Storing \cup {Kept(NewRecord(op))}
    BY DEF Written, Storing
  <1> QED
    BY <1>2, <1>3 DEF Store!Put, Storing, Written

LEMMA RemovedRemoves ==
  ASSUME NEW op, Removed(op)
  PROVE  Store!Remove(Told(op))
  <1>1. Storing' = {k \in Storing : k.id # op.id}
    BY DEF Removed, With, Storing, Kept
  <1> QED
    BY <1>1 DEF Store!Remove, Storing, Told, Removed

LEMMA StepImplements ==
  ASSUME FdsInv, reused = {}, Next
  PROVE  Store!StoreNext \/ UNCHANGED <<Storing, lastId, Asking>>
  <1> USE CliAssumption
  <1>0. /\ call \in [key : Keys, asked : Contents, id : 0..lastId] /\ lastId \in Nat
        /\ None \in Contents
    BY DEF FdsInv, TypeOK, MemoryOK, FlashOK, Contents
  <1>1. CASE Typing
    <2>1. CASE gc_cmd
      <3>1. Op("gc", 0, call.key, "none", None) \in Ops
        BY <1>0 DEF Op, Ops, Kinds
      <3> QED
        BY <2>1, <3>1, EnqueueAsks DEF gc_cmd, fdsState, Store!StoreNext, Op
    <2>2. CASE UNCHANGED <<flash, lastId, queue>>
      BY <2>2, SameStore
    <2> QED
      BY <1>1, <2>1, <2>2 DEF Typing, write_cmd, update_cmd, delete_cmd, delete_all_cmd,
                              fdsState
  <1>2. CASE Loop
    <2>1. CASE record_write
      <3>1. Op("write", 0, call.key, "m_data", call.asked) \in Ops
        BY <1>0 DEF Op, Ops, Kinds, Buffers
      <3> QED
        BY <2>1, <3>1, EnqueueAsks DEF record_write, fdsState, Store!StoreNext, Op
    <2>2. CASE record_update
      <3>1. Op("update", call.id, call.key, "cfg", call.asked) \in Ops
        BY <1>0 DEF Op, Ops, Kinds, Buffers
      <3> QED
        BY <2>2, <3>1, EnqueueAsks DEF record_update, fdsState, Store!StoreNext, Op
    <2>3. CASE record_delete \/ record_delete_next
      <3>1. Op("delete", call.id, call.key, "none", None) \in Ops
        BY <1>0 DEF Op, Ops, Kinds
      <3> QED
        BY <2>3, <3>1, EnqueueAsks
        DEF record_delete, record_delete_next, fdsState, Store!StoreNext, Op
    <2>4. CASE UNCHANGED <<flash, lastId, queue>>
      BY <2>4, SameStore
    <2> QED
      BY <1>2, <2>1, <2>2, <2>3, <2>4
      DEF Loop, wait_for_fds_ready, NoCommand, delete_all_process, fdsState
  <1>3. CASE FdsDone
    <2> DEFINE op == Head(queue)
    <2>1. queue # <<>> /\ queue' = Tail(queue) /\ Done(op)
      BY <1>3 DEF FdsDone, Ended
    <2>2. Asking # <<>> /\ Head(Asking) = Told(op) /\ Asking' = Tail(Asking)
      BY <2>1, TailAsks
    <2>3. Told(op).op = op.op
      BY DEF Told
    <2>4. CASE op.op = "write" /\ Written(op)
      <3>1. Store!Put(Told(op))
        BY <2>1, <2>4, WrittenPuts DEF Writing
      <3> QED
        BY <2>2, <2>3, <2>4, <3>1 DEF Store!StoreNext, Store!CarryOut, Store!Carry, Asking
    <2>5. CASE op.op \in {"delete", "flag"} /\ Removed(op)
      <3>1. Store!Remove(Told(op))
        BY <2>5, RemovedRemoves
      <3> QED
        BY <2>2, <2>3, <2>5, <3>1 DEF Store!StoreNext, Store!CarryOut, Store!Carry, Asking
    <2>6. CASE UNCHANGED <<flash, lastId>>
      BY <2>2, <2>6 DEF Store!StoreNext, Store!Drop, Asking, Storing
    <2> QED
      BY <2>1, <2>4, <2>5, <2>6 DEF Done
  <1>4. CASE FdsHalfDone
    <2> DEFINE op == Head(queue)
               flag == [op EXCEPT !.op = "flag"]
    <2>1. /\ queue # <<>> /\ op.op = "update" /\ Written(op) /\ op \in Ops
          /\ queue' = <<flag>> \o Tail(queue)
      BY <1>4, HeadIsAnOp DEF FdsHalfDone, FdsUpdate
    <2>2. /\ Asking # <<>> /\ Head(Asking) = Told(op)
          /\ Asking' = <<Told(flag)>> \o Tail(Asking)
      BY <2>1, TailAsks
    <2>3. Told(flag) = [Told(op) EXCEPT !.op = "flag"] /\ Told(op).op = "update"
      BY <2>1 DEF Told, Ops
    <2>4. Store!Put(Told(op))
      BY <2>1, WrittenPuts DEF Writing
    <2> HIDE DEF op, flag
    <2> QED
      BY <2>2, <2>3, <2>4 DEF Store!StoreNext, Store!CarryOut, Store!Carry, Asking
  <1>5. CASE FdsTimeout
    <2>1. queue # <<>> /\ queue' = Tail(queue) /\ UNCHANGED <<flash, lastId>>
      BY <1>5 DEF FdsTimeout, Ended
    <2>2. Asking # <<>> /\ Asking' = Tail(Asking)
      BY <2>1, TailAsks
    <2> QED
      BY <2>1, <2>2 DEF Store!StoreNext, Store!Drop, Asking, Storing
  <1>6. CASE FdsReady
    BY <1>6, SameStore DEF FdsReady
  <1>7. CASE Reset
    <2>1. Asking' = <<>> /\ UNCHANGED <<Storing, lastId>>
      BY <1>7 DEF Reset, Asking, Storing
    <2> QED
      BY <2>1 DEF Store!StoreNext, Store!Forget, Asking, Storing
  <1> QED
    BY <1>1, <1>2, <1>3, <1>4, <1>5, <1>6, <1>7 DEF Next, Fds

\* As long as no buffer is filled again while it is needed, the command line
\* implements the store (cli.c:170, 195, 223): operations in their order, each
\* with its own data; a reset takes nothing that was stored.
THEOREM CliImplementsStore == Spec => ImplementsStore
  <1>1. Init => Store!StoreInit
    <2> SUFFICES ASSUME Init PROVE Store!StoreInit
      OBVIOUS
    <2>1. FdsInv /\ queue = <<>>
      BY CliAssumption, InitInv DEF Init
    <2>2. Asking = <<>> /\ lastId \in Nat
      BY <2>1 DEF Asking, FdsInv, TypeOK, FlashOK
    <2>3. Storing \subseteq [id : 1..lastId, key : Keys, text : Contents]
      BY <2>1 DEF Storing, Kept, FdsInv, TypeOK, FlashOK
    <2> QED
      BY <2>1, <2>2, <2>3 DEF Store!StoreInit, Asking, Storing
  <1>2. FdsInv /\ [Next]_vars => [reused = {} => Store!StoreNext]_(Store!storeVars)
    <2>1. FdsInv /\ reused = {} /\ Next => Store!StoreNext \/ UNCHANGED <<Storing, lastId, Asking>>
      BY StepImplements
    <2>2. UNCHANGED vars => UNCHANGED <<Storing, lastId, Asking>>
      BY SameStore DEF vars
    <2> QED
      BY <2>1, <2>2 DEF Store!storeVars, Asking, Storing
  <1>3. Spec => []FdsInv
    BY FdsInvariant
  <1> QED
    BY <1>1, <1>2, <1>3, PTL DEF Spec, ImplementsStore
=============================================================================
