----------------------------- MODULE RingBuffer -----------------------------
(***************************************************************************)
(* The buffer of recent messages that the Kafka consumer keeps for every   *)
(* topic: type RingBuffer of internal/transport/kafka/kafka.go.  Both of   *)
(* its methods run entirely under the buffer's own mutex, so each is one   *)
(* step.  A zero-valued Go slot is NoMessage; it must never be read.       *)
(* A definition named X_Something is X with one plausible slip; it is used *)
(* only to show that the properties notice that slip.                      *)
(***************************************************************************)
EXTENDS Integers, Sequences

CONSTANTS ConfiguredSize,   \* cfg.Kafka.BufferSize, any integer of config.json
          DefaultSize,      \* the 500 that newConsumer falls back to
          Message,
          NoMessage

ASSUME ConfigAssumption == /\ ConfiguredSize \in Int
                           /\ DefaultSize \in Nat \ {0}
ASSUME MessageAssumption == NoMessage \notin Message

VARIABLES buffer, head, count

ringVars == <<buffer, head, count>>

\* newConsumer: a size that is absent from the configuration or not positive
\* is replaced, since a ring of no slots divides by zero in Add.
size == IF ConfiguredSize < 1 THEN DefaultSize ELSE ConfiguredSize

NewRingBuffer ==
    /\ buffer = [i \in 0 .. size - 1 |-> NoMessage]
    /\ head = 0
    /\ count = 0

\* Add that counts one slot too few.
Add_CountShort(msg) ==
    /\ buffer' = [buffer EXCEPT ![head] = msg]
    /\ head' = (head + 1) % size
    /\ count' = IF count < size - 1 THEN count + 1 ELSE count

Add(msg) ==
    /\ buffer' = [buffer EXCEPT ![head] = msg]
    /\ head' = (head + 1) % size
    /\ count' = IF count < size THEN count + 1 ELSE count

\* The slot GetAll copies to position i of its result (i counts from 0).
Slot(i) == (head - count + i + size) % size

GetAll == [j \in 1 .. count |-> buffer[Slot(j - 1)]]

RingNext == \E msg \in Message : Add(msg)

RingSpec == NewRingBuffer /\ [][RingNext]_ringVars

-----------------------------------------------------------------------------

\* The fields of the buffer keep their ranges (kafka.go:73-79).
RingTypeOK ==
    /\ buffer \in [0 .. size - 1 -> Message \cup {NoMessage}]
    /\ head \in 0 .. size - 1
    /\ count \in 0 .. size

\* Until the ring has wrapped the slots in use are the first ones: this is
\* what makes every slot that GetAll reads a slot that Add wrote.
Filled ==
    /\ count < size => head = count
    /\ \A i \in 0 .. count - 1 : buffer[i] \in Message

\* GetAll (kafka.go:103-107) copies only messages that were added, never a
\* slot that is still zero, and stays inside the slice.
OnlyWrittenSlotsRead ==
    \A i \in 0 .. count - 1 :
        /\ Slot(i) \in 0 .. size - 1
        /\ buffer[Slot(i)] \in Message

Recent == INSTANCE BoundedLog WITH Size <- size, window <- GetAll

\* GetAll returns the last size messages added, oldest first, whatever the
\* position of head: the ring implements the bounded log that a subscriber
\* gets the messages before its subscription from (kafka.go:308).
KeepsTheMostRecent == Recent!Spec
=============================================================================
