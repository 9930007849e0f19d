-------------------------- MODULE StateBroadcaster --------------------------
(***************************************************************************)
(* franka_robot_state_broadcaster::FrankaRobotStateBroadcaster: the        *)
(* realtime thread runs update, on_activate and on_deactivate, the publish *)
(* thread publishes what update hands over through an AsyncBuffer and the  *)
(* flag data_ready_.  on_configure runs while neither does.                *)
(*                                                                         *)
(* A robot state is its number.  Filling a slot takes two steps, between   *)
(* which the slot is torn.  Every access to an atomic is a step of its     *)
(* own, in program order (sequential consistency).  The convenience        *)
(* topics, published every so many states from the same slot, are left     *)
(* out.                                                                    *)
(***************************************************************************)
EXTENDS AsyncBuffer

CONSTANT MaxUpdates  \* bound on the states measured

ASSUME MaxUpdatesType == MaxUpdates \in Nat

VARIABLES
  life,       \* lifecycle state of the controller
  data,       \* the robot state in each slot, 0 for none
  torn,       \* slots that were written in part
  sized,      \* slots initialize_robot_state_msg has sized the vectors of
  updates,    \* number of the last state measured
  since,      \* its value at the last activation
  rt,         \* program counter of the realtime thread
  slot,       \* the slot update writes to
  rtWord,     \* `current` in commit_free_buffer
  pub,        \* program counter of the publish thread
  pubWord,    \* `current` in get_active_buffer
  running,    \* is_publish_thread_running_
  ready,      \* data_ready_
  published   \* the last state on the topic, 0 for none

slotVars == <<data, torn, sized>>
rtVars == <<rt, slot, rtWord, updates>>
pubVars == <<pub, pubWord, published>>
vars == <<bufferVars, slotVars, rtVars, pubVars, life, since, running, ready>>

Init ==
  /\ BufferInit
  /\ life = "unconfigured"
  /\ data = [s \in Slots |-> 0] /\ torn = {} /\ sized = {}
  /\ updates = 0 /\ since = 0
  /\ rt = "idle" /\ slot = 0 /\ rtWord = state
  /\ pub = "none" /\ pubWord = state
  /\ running = FALSE /\ ready = FALSE
  /\ published = 0

-----------------------------------------------------------------------------
(* Lifecycle callbacks.                                                     *)

\* One round of the loop in on_configure: commit and fetch.
Round(s) == Fetched(Committed(s))

\* on_configure sizes the free slot three times.
Configure ==
  /\ life = "unconfigured"
  /\ life' = "inactive"
  /\ sized' = sized \cup {state.free, Round(state).free, Round(Round(state)).free}
  /\ state' = Round(Round(Round(state)))
  /\ checkedOut' = FALSE
  /\ UNCHANGED <<data, torn, rtVars, pubVars, since, running, ready>>

Cleanup ==
  /\ life = "inactive"
  /\ life' = "unconfigured"
  /\ UNCHANGED <<bufferVars, slotVars, rtVars, pubVars, since, running, ready>>

\* on_activate drains the mailbox and starts the publish thread.
Activate ==
  /\ life = "inactive" /\ ~running
  /\ life' = "active"
  /\ since' = updates
  /\ state' = Fetched(state)
  /\ running' = TRUE /\ ready' = FALSE
  /\ pub' = "check"
  /\ UNCHANGED <<checkedOut, slotVars, rtVars, pubWord, published>>

\* on_deactivate tells the publish thread to stop ...
Deactivate ==
  /\ life = "active" /\ rt = "idle"
  /\ running' = FALSE
  /\ rt' = "join"
  /\ UNCHANGED <<bufferVars, slotVars, slot, rtWord, updates, pubVars, life, since, ready>>

\* ... and waits for it.
Join ==
  /\ rt = "join" /\ pub = "ended"
  /\ pub' = "none" /\ rt' = "idle"
  /\ life' = "inactive"
  /\ UNCHANGED <<bufferVars, slotVars, slot, rtWord, updates, pubWord, published,
                 since, running, ready>>

-----------------------------------------------------------------------------
(* update.                                                                  *)

\* get_free_buffer, and the time stamp is written into the slot.
UpdateBegin ==
  /\ life = "active" /\ rt = "idle" /\ updates < MaxUpdates
  /\ checkedOut' = TRUE
  /\ slot' = state.free
  /\ torn' = torn \cup {state.free}
  /\ rt' = "write"
  /\ UNCHANGED <<state, data, sized, rtWord, updates, pubVars, life, since, running, ready>>

\* There is no state interface: ERROR, the slot stays as it is.
UpdateFails ==
  /\ rt = "write"
  /\ rt' = "idle"
  /\ UNCHANGED <<bufferVars, slotVars, slot, rtWord, updates, pubVars, life, since,
                 running, ready>>

UpdateFill ==
  /\ rt = "write"
  /\ updates' = updates + 1
  /\ data' = [data EXCEPT ![slot] = updates + 1]
  /\ torn' = torn \ {slot}
  /\ rt' = "load"
  /\ UNCHANGED <<bufferVars, sized, slot, rtWord, pubVars, life, since, running, ready>>

\* commit_free_buffer: the word is loaded ...
CommitLoad ==
  /\ rt = "load" /\ checkedOut
  /\ rtWord' = state
  /\ rt' = "cas"
  /\ UNCHANGED <<bufferVars, slotVars, slot, updates, pubVars, life, since, running, ready>>

\* ... and exchanged, or loaded again.
CommitExchange ==
  /\ rt = "cas"
  /\ Exchange(rtWord, Committed(rtWord))
  /\ checkedOut' = FALSE
  /\ rt' = "ready"
  /\ UNCHANGED <<slotVars, slot, rtWord, updates, pubVars, life, since, running, ready>>

CommitRetry ==
  /\ rt = "cas"
  /\ rtWord' = state
  /\ UNCHANGED <<bufferVars, slotVars, rt, slot, updates, pubVars, life, since, running, ready>>

UpdateReady ==
  /\ rt = "ready"
  /\ ready' = TRUE
  /\ rt' = "idle"
  /\ UNCHANGED <<bufferVars, slotVars, slot, rtWord, updates, pubVars, life, since, running>>

Update ==
  \/ UpdateBegin \/ UpdateFails \/ UpdateFill
  \/ CommitLoad \/ CommitExchange \/ CommitRetry \/ UpdateReady

-----------------------------------------------------------------------------
(* publishRunner.                                                           *)

PubGoto(pc) == pub' = pc /\ UNCHANGED <<pubWord, published>>

PubCheck ==
  /\ pub = "check"
  /\ PubGoto(IF running THEN "test" ELSE "ended")
  /\ UNCHANGED <<bufferVars, slotVars, rtVars, life, since, running, ready>>

PubTest ==
  /\ pub = "test"
  /\ PubGoto(IF ready THEN "reset" ELSE "check")
  /\ UNCHANGED <<bufferVars, slotVars, rtVars, life, since, running, ready>>

PubReset ==
  /\ pub = "reset"
  /\ ready' = FALSE
  /\ PubGoto("load")
  /\ UNCHANGED <<bufferVars, slotVars, rtVars, life, since, running>>

\* get_active_buffer: the word is loaded ...
FetchLoad ==
  /\ pub = "load"
  /\ pubWord' = state
  /\ pub' = "cas"
  /\ UNCHANGED <<bufferVars, slotVars, rtVars, published, life, since, running, ready>>

\* ... and exchanged; has_new_data is the flag that was loaded.
FetchExchange ==
  /\ pub = "cas"
  /\ Exchange(pubWord, Fetched(pubWord))
  /\ pub' = IF pubWord.full THEN "publish" ELSE "check"
  /\ UNCHANGED <<checkedOut, slotVars, rtVars, pubWord, published, life, since,
                 running, ready>>

FetchRetry ==
  /\ pub = "cas"
  /\ pubWord' = state
  /\ UNCHANGED <<bufferVars, slotVars, rtVars, pub, published, life, since, running, ready>>

\* Mutant of PubPublish: data_ready_ is reset when the state is published.
PubPublishResets ==
  /\ pub = "publish"
  /\ published' = data[state.active]
  /\ pub' = "check"
  /\ ready' = FALSE
  /\ UNCHANGED <<bufferVars, slotVars, rtVars, pubWord, life, since, running>>

PubPublish ==
  /\ pub = "publish"
  /\ published' = data[state.active]
  /\ pub' = "check"
  /\ UNCHANGED <<bufferVars, slotVars, rtVars, pubWord, life, since, running, ready>>

Publisher ==
  \/ PubCheck \/ PubTest \/ PubReset
  \/ FetchLoad \/ FetchExchange \/ FetchRetry \/ PubPublish

Next ==
  \/ Configure \/ Cleanup \/ Activate \/ Deactivate \/ Join
  \/ Update \/ Publisher

\* Both threads go on, and a compare_exchange_weak that is tried again and
\* again succeeds.  Nobody has to call update again.
Fairness ==
  /\ WF_vars(Update /\ rt # "idle") /\ SF_vars(CommitExchange)
  /\ WF_vars(Publisher) /\ SF_vars(FetchExchange)

Spec == Init /\ [][Next]_vars /\ Fairness

-----------------------------------------------------------------------------
(* Properties.                                                              *)

\* Every variable has its type, and every word is consistent, as the code
\* asserts.
TypeOK ==
  /\ IsConsistent(state) /\ IsConsistent(rtWord) /\ IsConsistent(pubWord)
  /\ checkedOut \in BOOLEAN /\ running \in BOOLEAN /\ ready \in BOOLEAN
  /\ life \in {"unconfigured", "inactive", "active"}
  /\ data \in [Slots -> Nat] /\ torn \in SUBSET Slots /\ sized \in SUBSET Slots
  /\ updates \in Nat /\ since \in Nat /\ published \in Nat
  /\ rt \in {"idle", "write", "load", "cas", "ready", "join"} /\ slot \in Slots
  /\ pub \in {"none", "check", "test", "reset", "load", "cas", "publish", "ended"}

\* update writes only to slots whose vectors on_configure has sized (the three
\* rounds of its loop reach all of them, whatever the word was), and never to
\* the one that is published, which is whole and no older than the activation
\* (comment in startPublishThread).
SlotsSafe ==
  /\ rt = "write" => slot \in sized
  /\ pub = "publish" => /\ state.active \notin torn
                        /\ rt = "write" => slot # state.active
                        /\ data[state.active] > since

\* The promise of LatestState: a state is published at most once, whole, and
\* after every older one.
Latest == INSTANCE LatestState WITH
  box <- IF state.full THEN data[state.mailbox] ELSE 0,
  taken <- IF pub = "publish" THEN data[state.active] ELSE published

ImplementsLatestState == Latest!Spec

\* A state that was handed over is published, or a newer one is, unless the
\* controller is deactivated: the publish thread never sleeps on it.
StateIsPublished ==
  \A n \in 1..MaxUpdates :
    state.full /\ data[state.mailbox] = n ~> published >= n \/ ~running

-----------------------------------------------------------------------------
(* The inductive invariant of the proofs.                                   *)

\* Each side's word is right about the slot the side owns.
OwnSlot ==
  /\ rt \in {"write", "load", "cas"} => slot = state.free
  /\ rt = "cas" => rtWord.free = state.free
  /\ pub = "cas" => pubWord.active = state.active
  /\ rt \in {"load", "cas"} => slot \notin torn /\ data[slot] = updates /\ since < updates

\* What is in the mailbox, or was taken out of it, is whole, newer than the
\* activation and not newer than the last update.
Newer ==
  /\ since <= updates /\ published <= updates
  /\ state.full =>
       /\ state.mailbox \notin torn
       /\ published < data[state.mailbox]
       /\ data[state.mailbox] <= updates
       /\ rt \in {"load", "cas"} => data[state.mailbox] < updates
       /\ running \/ pub # "none" => since < data[state.mailbox]
  /\ pub = "publish" =>
       /\ state.active \notin torn
       /\ since < data[state.active]
       /\ published < data[state.active] /\ data[state.active] <= updates
       /\ state.full => data[state.active] < data[state.mailbox]
       /\ rt \in {"load", "cas"} => data[state.active] < updates
  /\ rt \in {"load", "cas"} => published < updates

\* Who may run: update only while the publish thread runs, which is joined
\* before anything else happens.
Lifecycle ==
  /\ running <=> life = "active" /\ rt # "join"
  /\ life # "active" => rt = "idle" /\ pub = "none"
  /\ life = "active" => pub # "none"
  /\ life # "unconfigured" => sized = Slots

BroadcasterInv == OwnSlot /\ Newer /\ Lifecycle
=============================================================================
