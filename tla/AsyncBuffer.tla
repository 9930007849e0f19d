---------------------------- MODULE AsyncBuffer ----------------------------
(***************************************************************************)
(* franka_robot_state_broadcaster::AsyncBuffer, a lock-free triple buffer  *)
(* between one producer and one consumer.  Its atomic word says which slot *)
(* the consumer owns (active), which the producer owns (free), which       *)
(* neither owns (mailbox), and whether the mailbox holds a state the       *)
(* consumer has not seen.  Both sides change the word by a load and a loop *)
(* of compare_exchange_weak, which may also fail when nothing has changed. *)
(***************************************************************************)
EXTENDS Naturals

VARIABLES
  state,      \* state_
  checkedOut  \* free_buffer_checked_out_

bufferVars == <<state, checkedOut>>

Slots == 0..2
Words == [active : Slots, mailbox : Slots, free : Slots, full : BOOLEAN]

\* is_consistent, which the code asserts after every exchange.
IsConsistent(s) ==
  /\ s \in Words
  /\ s.active # s.mailbox /\ s.mailbox # s.free /\ s.free # s.active

BufferInit ==
  /\ state = [active |-> 0, mailbox |-> 1, free |-> 2, full |-> FALSE]
  /\ checkedOut = FALSE

\* The word after the producer has committed its slot.
Committed(s) ==
  [active |-> s.active, mailbox |-> s.free, free |-> s.mailbox, full |-> TRUE]

\* Mutant of Fetched: mailbox_full is not cleared.
FetchedKeepsFull(s) ==
  IF s.full
    THEN [active |-> s.mailbox, mailbox |-> s.active, free |-> s.free, full |-> TRUE]
    ELSE s

\* The word after the consumer has fetched what is new.
Fetched(s) ==
  IF s.full
    THEN [active |-> s.mailbox, mailbox |-> s.active, free |-> s.free, full |-> FALSE]
    ELSE s

\* Mutant of Exchange: a plain store.
ExchangeStore(current, next) == state' = next

\* compare_exchange_weak succeeds.
Exchange(current, next) == state = current /\ state' = next
=============================================================================
