----------------------------- MODULE RecordStore -----------------------------
(***************************************************************************)
(* What the record commands promise their user.  Operations are accepted   *)
(* one by one and carried out later, in that order, each with the text it  *)
(* was asked to store and each as a whole, except that an update may be    *)
(* cut after the new record is there.  A reset forgets the operations that *)
(* were not carried out, and nothing else.                                 *)
(***************************************************************************)
EXTENDS Naturals, Sequences

CONSTANTS Keys, Texts

VARIABLES
  store,  \* the records
  last,   \* the last record ID
  asked   \* the operations that were accepted and are not carried out

storeVars == <<store, last, asked>>

Operations == [op : {"write", "update", "delete", "gc"},
               id : 0..last, key : Keys, text : Texts]

StoreInit == /\ last \in Nat /\ asked = <<>>
             /\ store \subseteq [id : 1..last, key : Keys, text : Texts]

Ask == /\ \E op \in Operations : asked' = Append(asked, op)
       /\ UNCHANGED <<store, last>>

Put(op) == /\ store' = store \cup {[id |-> last + 1, key |-> op.key, text |-> op.text]}
           /\ last' = last + 1

Remove(op) == store' = {r \in store : r.id # op.id} /\ UNCHANGED last

Carry(op) ==
  \/ op.op = "write" /\ Put(op) /\ asked' = Tail(asked)
  \/ /\ op.op = "update" /\ Put(op)
     /\ asked' = <<[op EXCEPT !.op = "flag"]>> \o Tail(asked)
  \/ op.op \in {"delete", "flag"} /\ Remove(op) /\ asked' = Tail(asked)

CarryOut == asked # <<>> /\ Carry(Head(asked))

\* It fails, finds nothing to do, or has no effect on the records.
Drop == asked # <<>> /\ asked' = Tail(asked) /\ UNCHANGED <<store, last>>

Forget == asked' = <<>> /\ UNCHANGED <<store, last>>

StoreNext == Ask \/ CarryOut \/ Drop \/ Forget

StoreSpec == StoreInit /\ [][StoreNext]_storeVars
=============================================================================
