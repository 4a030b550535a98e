------------------------------- MODULE FdsCli -------------------------------
(***************************************************************************)
(* The record commands of the serial command line (cli.c, climain.c) on    *)
(* flash data storage.  FDS is external: fds_record_write, _update,        *)
(* _delete and fds_gc only queue an operation, with the address of its     *)
(* data and not the data; the interrupt carries it out later and calls     *)
(* fds_evt_handler.  The power may fail at any time: flash is all that     *)
(* remains.                                                                *)
(*                                                                         *)
(* The main loop is sequential.  Each call into FDS is a step of its own,  *)
(* so that an operation may end between two of them.                       *)
(***************************************************************************)
EXTENDS Integers, Sequences, FiniteSets

CONSTANTS Keys,         \* file IDs and record keys, as pairs
          ConfigKey,    \* CONFIG_FILE, CONFIG_REC_KEY
          Texts, None,  \* contents of records; a buffer of zeros
          QueueSize,    \* FDS_OP_QUEUE_SIZE
          Space,        \* records the flash has room for
          MaxStored,    \* records in flash at first, at most
          MaxCommands,  \* commands typed, at most
          MaxResets     \* resets, at most

ASSUME CliAssumption ==
  /\ ConfigKey \in Keys /\ None \notin Texts
  /\ QueueSize \in Nat \ {0} /\ Space \in Nat
  /\ MaxStored \in 0..Space /\ MaxCommands \in Nat /\ MaxResets \in Nat

VARIABLES
  flash,      \* the valid records; their order is that of their IDs
  dirty,      \* number of deleted and of spoilt ones
  lastId,     \* last record ID
  queue,      \* the FDS queue
  buffer,     \* the static m_data of write_cmd and cfg of update_cmd
  delete_all, \* m_delete_all
  m_fds_initialized,
  at, call,   \* the call the main loop does next, and its arguments
  typed,      \* number of commands so far
  resets,     \* number of resets so far
  reused      \* history: buffers filled again while an operation needed them

cliVars == <<buffer, at, call, typed, reused>>
vars == <<flash, dirty, lastId, queue, delete_all, m_fds_initialized, cliVars, resets>>

-----------------------------------------------------------------------------
(* FDS (external).                                                         *)

Writing(op) == op.op \in {"write", "update"}

Unwritten == {i \in DOMAIN queue : Writing(queue[i])}

Taken == Cardinality(flash) + dirty + Cardinality(Unwritten)

\* A refused call returns an error and changes nothing.
Accepted(op) == /\ Len(queue) < QueueSize
                /\ Writing(op) => Taken < Space

Enqueue(op) == queue' = IF Accepted(op) THEN Append(queue, op) ELSE queue

Op(kind, id, key, buf, asked) ==
  [op |-> kind, id |-> id, key |-> key, buf |-> buf, asked |-> asked]

With(id) == {r \in flash : r.id = id}

Under(key) == {r \in flash : r.key = key}

Foremost(records) == {r \in records : \A s \in records : r.id <= s.id}

\* The ID of the first of the records, 0 if there is none.
First(records) == IF Foremost(records) = {} THEN 0
                  ELSE (CHOOSE r \in Foremost(records) : TRUE).id

fds_record_find(key) == First(Under(key))

NewRecord(op) ==
  [id |-> lastId + 1, key |-> op.key, text |-> buffer[op.buf], asked |-> op.asked]

-----------------------------------------------------------------------------
\* fds_evt_handler: whatever a deletion ended with, nothing is pending.
fds_evt_handler(op) ==
  delete_all' = IF op.op = "delete" THEN [delete_all EXCEPT !.pending = FALSE]
                                    ELSE delete_all

\* The oldest operation goes on.
Works(op) == /\ queue # <<>> /\ op = Head(queue)
             /\ UNCHANGED <<m_fds_initialized, cliVars, resets>>

Ended(op) == Works(op) /\ queue' = Tail(queue) /\ fds_evt_handler(op)

Written(op) == flash' = flash \cup {NewRecord(op)} /\ lastId' = lastId + 1

Removed(op) == /\ flash' = flash \ With(op.id) /\ dirty' = dirty + 1
               /\ UNCHANGED lastId

Done(op) ==
  \/ /\ op.op = "write" /\ Written(op) /\ UNCHANGED dirty
  \/ /\ op.op \in {"delete", "flag"} /\ With(op.id) # {} /\ Removed(op)
  \/ /\ op.op = "gc" /\ dirty' = 0 /\ UNCHANGED <<flash, lastId>>
  \/ \* FDS_ERR_NOT_FOUND
     /\ op.op \in {"update", "delete", "flag"} /\ With(op.id) = {}
     /\ UNCHANGED <<flash, dirty, lastId>>

FdsDone == queue # <<>> /\ LET op == Head(queue) IN Ended(op) /\ Done(op)

\* Fault: an update removes the old record before it writes the new one.
FdsUpdate_late(op) == /\ queue' = <<[op EXCEPT !.op = "write"]>> \o Tail(queue)
                      /\ Removed(op)

\* An update writes the new record and then flags the old one as dirty.
FdsUpdate(op) == /\ queue' = <<[op EXCEPT !.op = "flag"]>> \o Tail(queue)
                 /\ Written(op) /\ UNCHANGED dirty

FdsHalfDone == queue # <<>> /\ LET op == Head(queue) IN
                 /\ op.op = "update" /\ With(op.id) # {}
                 /\ Works(op) /\ FdsUpdate(op) /\ UNCHANGED delete_all

\* What was written of a record that was not finished is spoilt.
Spoilt(op) == dirty' \in dirty..(IF Writing(op) THEN dirty + 1 ELSE dirty)

\* The flash was busy for too long: FDS_ERR_OPERATION_TIMEOUT.
FdsTimeout == queue # <<>> /\ LET op == Head(queue) IN
                Ended(op) /\ Spoilt(op) /\ UNCHANGED <<flash, lastId>>

\* FDS_EVT_INIT.  Its failure is an event too, which changes nothing.
FdsReady == /\ ~m_fds_initialized /\ m_fds_initialized' = TRUE
            /\ UNCHANGED <<flash, dirty, lastId, queue, delete_all, cliVars, resets>>

-----------------------------------------------------------------------------
\* cli_main waits for FDS; the main loop then alternates between cli_process
\* and delete_all_process.
fdsState == <<flash, dirty, lastId, delete_all, m_fds_initialized, resets>>

Goto(step, next, args) == at = step /\ at' = next /\ call' = args

\* Fault: nobody waits.
Ready_at_once == TRUE

Ready == m_fds_initialized

wait_for_fds_ready == /\ Goto("wait", "cli", call) /\ Ready
                      /\ UNCHANGED <<fdsState, queue, buffer, typed, reused>>

\* A command is typed.  Its argument is what record_write and the like need.
Command(next, args) == /\ Goto("cli", next, args)
                       /\ typed < MaxCommands /\ typed' = typed + 1

Needed(buf) == \E i \in DOMAIN queue : Writing(queue[i]) /\ queue[i].buf = buf

\* Fault: the buffer is an automatic variable, gone when the command returns.
Filled_auto(buf, text) == buffer' = [buffer EXCEPT ![buf] = None]

Filled(buf, text) == buffer' = [buffer EXCEPT ![buf] = text]

Fill(buf, text) == /\ Filled(buf, text)
                   /\ reused' = IF Needed(buf) THEN reused \cup {buf} ELSE reused

write_cmd(key, text) ==
  /\ Command("record_write", [key |-> key, asked |-> text, id |-> 0])
  /\ Fill("m_data", text)
  /\ UNCHANGED <<fdsState, queue>>

record_write ==
  /\ Goto("record_write", "delete_all", call)
  /\ Enqueue(Op("write", 0, call.key, "m_data", call.asked))
  /\ UNCHANGED <<fdsState, buffer, typed, reused>>

\* update_cmd up to fds_record_find: without a record there is no update.
update_cmd(text) ==
  LET id == fds_record_find(ConfigKey) IN
  /\ Command(IF id = 0 THEN "delete_all" ELSE "record_update",
             [key |-> ConfigKey, asked |-> text, id |-> id])
  /\ Fill("cfg", text)
  /\ UNCHANGED <<fdsState, queue>>

record_update ==
  /\ Goto("record_update", "delete_all", call)
  /\ Enqueue(Op("update", call.id, call.key, "cfg", call.asked))
  /\ UNCHANGED <<fdsState, buffer, typed, reused>>

delete_cmd(key) ==
  LET id == fds_record_find(key) IN
  /\ Command(IF id = 0 THEN "delete_all" ELSE "record_delete",
             [key |-> key, asked |-> None, id |-> id])
  /\ UNCHANGED <<fdsState, queue, buffer, reused>>

record_delete ==
  /\ Goto("record_delete", "delete_all", call)
  /\ Enqueue(Op("delete", call.id, call.key, "none", None))
  /\ UNCHANGED <<fdsState, buffer, typed, reused>>

gc_cmd == /\ Command("delete_all", call)
          /\ Enqueue(Op("gc", 0, call.key, "none", None))
          /\ UNCHANGED <<fdsState, buffer, reused>>

delete_all_cmd ==
  /\ Command("delete_all", call)
  /\ delete_all' = [delete_all EXCEPT !.delete_next = TRUE]
  /\ UNCHANGED <<flash, dirty, lastId, m_fds_initialized, resets, queue, buffer, reused>>

NoCommand == /\ Goto("cli", "delete_all", call)
             /\ UNCHANGED <<fdsState, queue, buffer, typed, reused>>

-----------------------------------------------------------------------------
\* Faults: an empty flash is not told from a record; a refusal is one too.
DeleteNext_always(found, accepted) == TRUE
DeleteNext_never(found, accepted) == FALSE

\* What record_delete_next returns.
DeleteNext(found, accepted) == found /\ accepted

\* delete_all_process, up to fds_record_iterate of record_delete_next.
delete_all_process ==
  LET wanted == delete_all.delete_next /\ ~delete_all.pending IN
  /\ IF wanted /\ flash # {}
     THEN Goto("delete_all", "delete_next", [call EXCEPT !.id = First(flash)])
     ELSE Goto("delete_all", "cli", call)
  /\ delete_all' = IF wanted /\ flash = {}
                   THEN [delete_all EXCEPT !.delete_next = DeleteNext(FALSE, FALSE)]
                   ELSE delete_all
  /\ UNCHANGED <<flash, dirty, lastId, m_fds_initialized, resets, queue, buffer, typed, reused>>

record_delete_next ==
  LET op == Op("delete", call.id, call.key, "none", None) IN
  /\ Goto("delete_next", "cli", call)
  /\ Enqueue(op)
  /\ delete_all' = [delete_all EXCEPT !.delete_next = DeleteNext(TRUE, Accepted(op))]
  /\ UNCHANGED <<flash, dirty, lastId, m_fds_initialized, resets, buffer, typed, reused>>

-----------------------------------------------------------------------------
Record(id) == [id |-> id, key |-> ConfigKey, text |-> None, asked |-> None]

\* What every start of the program finds in memory.
Zeros  == [b \in {"m_data", "cfg"} |-> None]
NoCall == [key |-> ConfigKey, asked |-> None, id |-> 0]
Idle   == [delete_next |-> FALSE, pending |-> FALSE]

Init == /\ \E n \in 0..MaxStored : flash = {Record(i) : i \in 1..n} /\ lastId = n
        /\ dirty = 0 /\ typed = 0 /\ resets = 0 /\ reused = {}
        /\ queue = <<>> /\ buffer = Zeros /\ call = NoCall /\ at = "wait"
        /\ delete_all = Idle /\ m_fds_initialized = FALSE

\* The power fails: what was queued is lost, what was being written is spoilt.
Reset == /\ resets < MaxResets /\ resets' = resets + 1
         /\ IF queue = <<>> THEN UNCHANGED dirty ELSE Spoilt(Head(queue))
         /\ queue' = <<>> /\ buffer' = Zeros /\ call' = NoCall /\ at' = "wait"
         /\ delete_all' = Idle /\ m_fds_initialized' = FALSE
         /\ UNCHANGED <<flash, lastId, typed, reused>>

Typing == \/ \E k \in Keys, t \in Texts : write_cmd(k, t)
          \/ \E t \in Texts : update_cmd(t)
          \/ \E k \in Keys : delete_cmd(k)
          \/ gc_cmd \/ delete_all_cmd

Loop == \/ wait_for_fds_ready \/ NoCommand
        \/ record_write \/ record_update \/ record_delete
        \/ delete_all_process \/ record_delete_next

Fds == FdsDone \/ FdsHalfDone

Next == Typing \/ Loop \/ Fds \/ FdsTimeout \/ FdsReady \/ Reset

\* The main loop goes on whatever wakes it.  FDS works on its queue, and not
\* every operation times out.  Its initialisation may fail: no fairness there.
Spec == Init /\ [][Next]_vars /\ WF_vars(Loop) /\ SF_vars(Fds)

-----------------------------------------------------------------------------
Kinds == {"write", "update", "delete", "gc", "flag"}
Steps == {"wait", "cli", "record_write", "record_update", "record_delete",
          "delete_all", "delete_next"}
Buffers == {"m_data", "cfg"}
Contents == Texts \cup {None}

FlashOK ==
  /\ flash \subseteq [id : 1..lastId, key : Keys, text : Contents, asked : Contents]
  /\ \A r, s \in flash : r.id = s.id => r = s
  /\ dirty \in Nat /\ lastId \in Nat

QueueOK ==
  /\ queue \in Seq([op : Kinds, id : 0..lastId, key : Keys,
                    buf : Buffers \cup {"none"}, asked : Contents])
  /\ \A i \in Unwritten : queue[i].buf \in Buffers
  /\ Len(queue) <= QueueSize

RoomOK == IsFiniteSet(flash) /\ Taken <= Space

MemoryOK ==
  /\ buffer \in [Buffers -> Contents]
  /\ delete_all \in [delete_next : BOOLEAN, pending : BOOLEAN]
  /\ m_fds_initialized \in BOOLEAN /\ at \in Steps
  /\ call \in [key : Keys, asked : Contents, id : 0..lastId]
  /\ typed \in Nat /\ resets \in Nat /\ reused \subseteq Buffers

\* Types of the command line and of the flash it works on: the flash is never
\* asked to hold more than it has room for, nor the queue.
TypeOK == FlashOK /\ QueueOK /\ RoomOK /\ MemoryOK

\* A record holds what its command was given as long as no command of its
\* kind came while it was queued: the static buffers outlive the command
\* (cli.c:518, 549), and a reset takes the queue with them.
RecordIsAsked == \A r \in flash : r.text # r.asked => reused # {}

\* No operation is queued before FDS is ready (climain.c:257), after a reset
\* too.
ReadyBeforeUse == queue # <<>> => m_fds_initialized

\* What the two rest on.  The next call finds its buffer filled; an operation
\* that needs a buffer finds it as it was, unless it was reused; a half-done
\* update is the head of the queue, its new record the last one.
CallFindsBuffer ==
  /\ at = "record_write" => buffer["m_data"] = call.asked
  /\ at = "record_update" => buffer["cfg"] = call.asked /\ call.key = ConfigKey

QueueFindsBuffer == reused = {} => \A i \in Unwritten : buffer[queue[i].buf] = queue[i].asked

HalfDone ==
  \A i \in DOMAIN queue :
    /\ queue[i].op \in {"update", "flag"} => queue[i].key = ConfigKey
    /\ queue[i].op = "flag" =>
         /\ i = 1 /\ queue[i].id < lastId
         /\ \E r \in flash : r.id = lastId /\ r.key = ConfigKey

FdsInv == /\ TypeOK /\ CallFindsBuffer /\ QueueFindsBuffer /\ HalfDone
          /\ RecordIsAsked
          /\ m_fds_initialized \/ (queue = <<>> /\ at = "wait")

\* A configuration is replaced, never lost: only a deletion takes away the last
\* record under ConfigKey, whatever update, timeout or reset cuts into what
\* (cli.c:195).
ConfigSurvives ==
  [][Under(ConfigKey) # {} => \/ Under(ConfigKey)' # {}
                              \/ Head(queue).op = "delete"]_vars

\* delete_all gives up only when nothing is left or the queue is full.
GivesUpForAReason ==
  [][delete_all.delete_next /\ ~delete_all'.delete_next
       => flash = {} \/ Len(queue) = QueueSize \/ Reset]_vars

\* delete_all comes to an end.
DeleteAllEnds == delete_all.delete_next ~> ~delete_all.delete_next

\* climain.c:179 of delete_all_process: "Delete records, one by one, until no
\* records are left."  When it stops, what is left is at least being deleted.
DeletesUntilNoneLeft ==
  [][delete_all.delete_next /\ ~delete_all'.delete_next =>
       \/ Reset
       \/ \A r \in flash :
            \E j \in DOMAIN queue : queue[j].op = "delete" /\ queue[j].id = r.id]_vars

\* cli.c:518 of m_data: "Must be statically allocated, because it is going to be
\* written in flash": the record gets what the command was given.
RecordHoldsItsData == \A r \in flash : r.text = r.asked

-----------------------------------------------------------------------------
Told(op) == [op |-> op.op, id |-> op.id, key |-> op.key, text |-> op.asked]

Kept(r) == [id |-> r.id, key |-> r.key, text |-> r.text]

Store == INSTANCE RecordStore WITH
           Texts <- Contents,
           store <- {Kept(r) : r \in flash}, last <- lastId,
           asked <- [i \in DOMAIN queue |-> Told(queue[i])]

\* Until a buffer is filled again while an operation needs it, the user gets what
\* RecordStore promises: every operation in its order, with its own data, and a
\* reset takes nothing that was stored (cli.c:170, 195, 223).
ImplementsStore ==
  Store!StoreInit /\ [][reused = {} => Store!StoreNext]_(Store!storeVars)
=============================================================================
