----------------------- MODULE StateBroadcasterProofs -----------------------
(***************************************************************************)
(* What StateBroadcaster satisfies for any number of updates: the type     *)
(* invariant, exclusive and fresh slots, and that it implements            *)
(* LatestState.                                                            *)
(***************************************************************************)
EXTENDS StateBroadcaster, TLAPS

-----------------------------------------------------------------------------
(* The operations on the word.                                              *)

\* commit_free_buffer swaps the producer's slot with the mailbox and keeps the
\* word consistent.
LEMMA CommittedSwaps ==
  ASSUME NEW s, IsConsistent(s)
  PROVE  /\ IsConsistent(Committed(s))
         /\ Committed(s).active = s.active /\ Committed(s).mailbox = s.free
         /\ Committed(s).free = s.mailbox /\ Committed(s).full
  BY DEF IsConsistent, Words, Committed

\* get_active_buffer swaps the consumer's slot with a full mailbox and keeps
\* the word consistent.
LEMMA FetchedSwaps ==
  ASSUME NEW s, IsConsistent(s)
  PROVE  /\ IsConsistent(Fetched(s))
         /\ ~Fetched(s).full
         /\ Fetched(s).free = s.free
         /\ s.full => /\ Fetched(s).active = s.mailbox
                      /\ Fetched(s).mailbox = s.active
         /\ ~s.full => Fetched(s) = s
  BY DEF IsConsistent, Words, Fetched

\* A round of the loop in on_configure rotates the slots.
LEMMA RoundRotates ==
  ASSUME NEW s, IsConsistent(s)
  PROVE  /\ IsConsistent(Round(s))
         /\ ~Round(s).full
         /\ Round(s).free = s.mailbox
         /\ Round(s).active = s.free
         /\ Round(s).mailbox = s.active
  <1>1. IsConsistent(Committed(s))
    BY CommittedSwaps
  <1> QED
    BY <1>1, CommittedSwaps, FetchedSwaps DEF Round

\* Three rounds reach every slot (on_configure).
LEMMA RoundsReachAll ==
  ASSUME NEW s, IsConsistent(s)
  PROVE  /\ IsConsistent(Round(Round(Round(s))))
         /\ ~Round(Round(Round(s))).full
         /\ {s.free, Round(s).free, Round(Round(s)).free} = Slots
  <1>1. IsConsistent(Round(s)) /\ IsConsistent(Round(Round(s)))
    BY RoundRotates
  <1>2. Round(s).free = s.mailbox /\ Round(Round(s)).free = s.active
    BY <1>1, RoundRotates
  <1>3. {s.free, s.mailbox, s.active} = Slots
    BY DEF IsConsistent, Words, Slots
  <1> QED
    BY <1>1, <1>2, <1>3, RoundRotates

-----------------------------------------------------------------------------
(* Types.                                                                   *)

\* Every step keeps the types and the consistency of the words.
LEMMA TypeStep == TypeOK /\ [Next]_vars => TypeOK'
  <1> SUFFICES ASSUME TypeOK, [Next]_vars PROVE TypeOK'
    OBVIOUS
  <1> USE DEF TypeOK
  <1> state.free \in Slots /\ state.full \in BOOLEAN
    BY DEF IsConsistent, Words
  <1>1. CASE Configure
    <2>1. IsConsistent(state') /\ sized' = sized \cup Slots
      BY <1>1, RoundsReachAll DEF Configure
    <2> QED
      BY <1>1, <2>1 DEF Configure, rtVars, pubVars
  <1>2. CASE Cleanup
    BY <1>2 DEF Cleanup, bufferVars, slotVars, rtVars, pubVars
  <1>3. CASE Activate
    <2>1. IsConsistent(state')
      BY <1>3, FetchedSwaps DEF Activate
    <2> QED
      BY <1>3, <2>1 DEF Activate, slotVars, rtVars
  <1>4. CASE Deactivate
    BY <1>4 DEF Deactivate, bufferVars, slotVars, pubVars
  <1>5. CASE Join
    BY <1>5 DEF Join, bufferVars, slotVars
  <1>6. CASE UpdateBegin
    BY <1>6 DEF UpdateBegin, pubVars
  <1>7. CASE UpdateFails
    BY <1>7 DEF UpdateFails, bufferVars, slotVars, pubVars
  <1>8. CASE UpdateFill
    BY <1>8 DEF UpdateFill, bufferVars, pubVars
  <1>9. CASE CommitLoad
    BY <1>9 DEF CommitLoad, bufferVars, slotVars, pubVars
  <1>10. CASE CommitExchange
    <2>1. IsConsistent(state')
      BY <1>10, CommittedSwaps DEF CommitExchange, Exchange
    <2> QED
      BY <1>10, <2>1 DEF CommitExchange, slotVars, pubVars
  <1>11. CASE CommitRetry
    BY <1>11 DEF CommitRetry, bufferVars, slotVars, pubVars
  <1>12. CASE UpdateReady
    BY <1>12 DEF UpdateReady, bufferVars, slotVars, pubVars
  <1>13. CASE PubCheck \/ PubTest \/ PubReset
    BY <1>13 DEF PubCheck, PubTest, PubReset, PubGoto, bufferVars, slotVars, rtVars
  <1>14. CASE FetchLoad \/ FetchRetry
    BY <1>14 DEF FetchLoad, FetchRetry, bufferVars, slotVars, rtVars
  <1>15. CASE FetchExchange
    <2>1. IsConsistent(state')
      BY <1>15, FetchedSwaps DEF FetchExchange, Exchange
    <2> QED
      BY <1>15, <2>1 DEF FetchExchange, slotVars, rtVars
  <1>16. CASE PubPublish
    <2>1. data[state.active] \in Nat
      BY DEF IsConsistent, Words
    <2> QED
      BY <1>16, <2>1 DEF PubPublish, bufferVars, slotVars, rtVars
  <1>17. CASE UNCHANGED vars
    BY <1>17 DEF vars, bufferVars, slotVars, rtVars, pubVars
  <1> QED
    BY <1>1, <1>2, <1>3, <1>4, <1>5, <1>6, <1>7, <1>8, <1>9, <1>10, <1>11, <1>12,
       <1>13, <1>14, <1>15, <1>16, <1>17 DEF Next, Update, Publisher

\* The initial word is consistent, and everything has its type.
LEMMA TypeInit == Init => TypeOK
  <1> SUFFICES ASSUME Init PROVE TypeOK
    OBVIOUS
  <1>1. IsConsistent(state)
    BY DEF Init, BufferInit, IsConsistent, Words, Slots
  <1>2. rtWord = state /\ pubWord = state /\ checkedOut = FALSE
    BY DEF Init, BufferInit
  <1>3. IsConsistent(rtWord) /\ IsConsistent(pubWord)
    BY <1>1, <1>2
  <1>4. slot \in Slots
    BY DEF Init, Slots
  <1> QED
    BY <1>1, <1>2, <1>3, <1>4 DEF Init, TypeOK

\* Every variable keeps its type, and the three indices of the word stay
\* distinct, as the assertions in AsyncBuffer say.
THEOREM BroadcasterTypes == Spec => []TypeOK
  BY TypeInit, TypeStep, PTL DEF Spec

-----------------------------------------------------------------------------
(* The inductive invariant.                                                 *)

\* Nothing is torn or full at first.
LEMMA BroadcasterInit == Init => BroadcasterInv
  BY DEF Init, BufferInit, BroadcasterInv, OwnSlot, Newer, Lifecycle

\* The lifecycle callbacks keep the invariant: nothing is under way in either
\* thread, and on_activate drains what is older than the activation.
LEMMA LifecycleStep ==
  ASSUME TypeOK, BroadcasterInv,
         Configure \/ Cleanup \/ Activate \/ Deactivate \/ Join
  PROVE  BroadcasterInv'
  <1> USE DEF BroadcasterInv
  <1>1. CASE Configure
    <2>1. IsConsistent(state') /\ ~state'.full /\ sized' = Slots
      BY <1>1, RoundsReachAll DEF Configure, TypeOK
    <2> QED
      BY <1>1, <2>1 DEF Configure, rtVars, pubVars, OwnSlot, Newer, Lifecycle
  <1>2. CASE Cleanup
    BY <1>2 DEF Cleanup, bufferVars, slotVars, rtVars, pubVars, OwnSlot, Newer, Lifecycle
  <1>3. CASE Activate
    <2>1. IsConsistent(state') /\ ~state'.full
      BY <1>3, FetchedSwaps DEF Activate, TypeOK
    <2> QED
      BY <1>3, <2>1 DEF Activate, slotVars, rtVars, TypeOK, OwnSlot, Newer, Lifecycle
  <1>4. CASE Deactivate
    BY <1>4 DEF Deactivate, bufferVars, slotVars, pubVars, OwnSlot, Newer, Lifecycle
  <1>5. CASE Join
    BY <1>5 DEF Join, bufferVars, slotVars, OwnSlot, Newer, Lifecycle
  <1> QED
    BY <1>1, <1>2, <1>3, <1>4, <1>5

\* update writes only to the slot nobody else can reach until it commits it.
LEMMA UpdateStep ==
  ASSUME TypeOK, BroadcasterInv, Update
  PROVE  BroadcasterInv'
  <1> USE DEF BroadcasterInv
  <1>0. IsConsistent(state) /\ IsConsistent(rtWord)
    BY DEF TypeOK
  <1>1. CASE UpdateBegin
    BY <1>0, <1>1 DEF UpdateBegin, pubVars, IsConsistent, OwnSlot, Newer, Lifecycle
  <1>2. CASE UpdateFails
    BY <1>2 DEF UpdateFails, bufferVars, slotVars, pubVars, OwnSlot, Newer, Lifecycle
  <1>3. CASE UpdateFill
    <2>1. slot = state.free /\ data'[slot] = updates + 1
      BY <1>3 DEF UpdateFill, OwnSlot, TypeOK
    <2>2. \A s \in Slots : s # slot => data'[s] = data[s]
      BY <1>3 DEF UpdateFill, TypeOK
    <2>3. state.mailbox \in Slots \ {slot} /\ state.active \in Slots \ {slot}
      BY <1>0, <2>1 DEF IsConsistent, Words
    <2>4. OwnSlot'
      BY <1>3, <2>1 DEF UpdateFill, bufferVars, pubVars, OwnSlot, Newer, TypeOK
    <2>5. Newer'
      BY <1>3, <2>2, <2>3 DEF UpdateFill, bufferVars, pubVars, Newer, TypeOK
    <2>6. Lifecycle'
      BY <1>3 DEF UpdateFill, pubVars, Lifecycle
    <2> QED
      BY <2>4, <2>5, <2>6
  <1>4. CASE CommitLoad
    BY <1>4 DEF CommitLoad, bufferVars, slotVars, pubVars, OwnSlot, Newer, Lifecycle
  <1>5. CASE CommitExchange
    <2>1. /\ state'.active = state.active /\ state'.mailbox = slot
          /\ state'.full
      BY <1>0, <1>5, CommittedSwaps DEF CommitExchange, Exchange, OwnSlot
    <2>2. rt = "cas" /\ rt' = "ready" /\ UNCHANGED <<slotVars, slot, updates, pubVars, life, since, running>>
      BY <1>5 DEF CommitExchange
    <2>3. OwnSlot'
      BY <2>1, <2>2 DEF OwnSlot, pubVars
    <2>4. Newer'
      BY <2>1, <2>2 DEF OwnSlot, Newer, pubVars, slotVars, TypeOK
    <2>5. Lifecycle'
      BY <2>2 DEF Lifecycle, slotVars, pubVars
    <2> QED
      BY <2>3, <2>4, <2>5
  <1>6. CASE CommitRetry
    BY <1>6 DEF CommitRetry, bufferVars, slotVars, pubVars, OwnSlot, Newer, Lifecycle
  <1>7. CASE UpdateReady
    BY <1>7 DEF UpdateReady, bufferVars, slotVars, pubVars, OwnSlot, Newer, Lifecycle
  <1> QED
    BY <1>1, <1>2, <1>3, <1>4, <1>5, <1>6, <1>7 DEF Update

\* The publish thread takes only what is in a full mailbox.
LEMMA PublisherStep ==
  ASSUME TypeOK, BroadcasterInv, Publisher
  PROVE  BroadcasterInv'
  <1> USE DEF BroadcasterInv
  <1>0. IsConsistent(state) /\ IsConsistent(pubWord)
    BY DEF TypeOK
  <1>1. CASE PubCheck \/ PubTest \/ PubReset
    BY <1>1 DEF PubCheck, PubTest, PubReset, PubGoto, bufferVars, slotVars, rtVars,
                OwnSlot, Newer, Lifecycle
  <1>2. CASE FetchLoad \/ FetchRetry
    BY <1>2 DEF FetchLoad, FetchRetry, bufferVars, slotVars, rtVars,
                OwnSlot, Newer, Lifecycle
  <1>3. CASE FetchExchange
    <2>1. /\ ~state'.full /\ state'.free = state.free
          /\ state.full => state'.active = state.mailbox
      BY <1>0, <1>3, FetchedSwaps DEF FetchExchange, Exchange
    <2>2. /\ pub = "cas" /\ pub' = IF state.full THEN "publish" ELSE "check"
          /\ UNCHANGED <<slotVars, rtVars, published, life, since, running>>
      BY <1>3 DEF FetchExchange, Exchange
    <2> QED
      BY <2>1, <2>2 DEF slotVars, rtVars, OwnSlot, Newer, Lifecycle
  <1>4. CASE PubPublish
    BY <1>4 DEF PubPublish, bufferVars, slotVars, rtVars, OwnSlot, Newer, Lifecycle
  <1> QED
    BY <1>1, <1>2, <1>3, <1>4 DEF Publisher

\* Every step keeps the inductive invariant.
LEMMA BroadcasterStep ==
  TypeOK /\ BroadcasterInv /\ [Next]_vars => BroadcasterInv'
  <1>1. ASSUME BroadcasterInv, UNCHANGED vars PROVE BroadcasterInv'
    BY <1>1 DEF vars, bufferVars, slotVars, rtVars, pubVars,
                BroadcasterInv, OwnSlot, Newer, Lifecycle
  <1> QED
    BY <1>1, LifecycleStep, UpdateStep, PublisherStep DEF Next

\* The inductive invariant holds throughout.
LEMMA Invariance == Spec => [](TypeOK /\ BroadcasterInv)
  BY TypeInit, TypeStep, BroadcasterInit, BroadcasterStep, PTL DEF Spec

-----------------------------------------------------------------------------
(* The theorems.                                                            *)

\* For any number of updates: the slot that is published is nobody else's and
\* was written whole, update writes only to sized slots, and nothing measured
\* before the activation is published after it.
THEOREM SlotSafety == Spec => []SlotsSafe
  <1>1. TypeOK /\ BroadcasterInv => SlotsSafe
    BY DEF TypeOK, IsConsistent, BroadcasterInv, OwnSlot, Newer, Lifecycle,
           SlotsSafe
  <1> QED
    BY <1>1, Invariance, PTL

\* The broadcaster starts as LatestState does ...
LEMMA LatestInit == Init => Latest!Init
  BY DEF Init, BufferInit, Latest!Init

\* ... and each of its steps is one of LatestState or changes nothing there.
LEMMA LatestStep ==
  TypeOK /\ BroadcasterInv /\ [Next]_vars => [Latest!Next]_(Latest!vars)
  <1> SUFFICES ASSUME TypeOK, BroadcasterInv, [Next]_vars
               PROVE  [Latest!Next]_(Latest!vars)
    OBVIOUS
  <1> USE DEF BroadcasterInv, Latest!vars
  <1>0. IsConsistent(state) /\ IsConsistent(rtWord)
    BY DEF TypeOK
  <1>1. CASE Configure
    <2>1. ~state'.full /\ pub # "publish" /\ UNCHANGED <<data, pub, published>>
      BY <1>0, <1>1, RoundsReachAll DEF Configure, Lifecycle, pubVars
    <2> QED
      BY <2>1 DEF Latest!Next, Latest!Drop
  <1>2. CASE Activate
    <2>1. ~state'.full /\ pub # "publish" /\ pub' # "publish" /\ published' = published
      BY <1>0, <1>2, FetchedSwaps DEF Activate, Lifecycle
    <2> QED
      BY <2>1 DEF Latest!Next, Latest!Drop
  <1>3. CASE UpdateFill
    <2>1. slot = state.free
      BY <1>3 DEF UpdateFill, OwnSlot
    <2>2. state.mailbox # slot /\ state.active # slot
      BY <1>0, <2>1 DEF IsConsistent
    <2>3. state.mailbox \in Slots /\ state.active \in Slots
      BY <1>0 DEF IsConsistent, Words
    <2>4. data'[state.mailbox] = data[state.mailbox] /\ data'[state.active] = data[state.active]
      BY <1>3, <2>2, <2>3 DEF UpdateFill, TypeOK
    <2> QED
      BY <1>3, <2>4 DEF UpdateFill, bufferVars, pubVars
  <1>4. CASE CommitExchange
    <2>1. /\ state'.active = state.active /\ state'.mailbox = slot
          /\ state'.full
      BY <1>0, <1>4, CommittedSwaps DEF CommitExchange, Exchange, OwnSlot
    <2>2. rt = "cas" /\ UNCHANGED <<data, pub, published>>
      BY <1>4 DEF CommitExchange, slotVars, pubVars
    <2>3. data[slot] = updates /\ updates \in Nat /\ published \in Nat /\ since \in Nat
      BY <2>2 DEF OwnSlot, TypeOK
    <2>4. /\ published < updates
          /\ 0 < updates
          /\ state.full => data[state.mailbox] < updates
          /\ pub = "publish" => data[state.active] < updates
      BY <2>2, <2>3 DEF Newer, OwnSlot
    <2> QED
      BY <2>1, <2>2, <2>3, <2>4 DEF Latest!Next, Latest!Put
  <1>5. CASE FetchExchange
    <2>1. /\ ~state'.full
          /\ state.full => state'.active = state.mailbox
      BY <1>0, <1>5, FetchedSwaps DEF FetchExchange, Exchange
    <2>2. /\ pub = "cas" /\ pub' = IF state.full THEN "publish" ELSE "check"
          /\ UNCHANGED <<data, published>>
      BY <1>5 DEF FetchExchange, Exchange, slotVars
    <2>3. state.full => data[state.mailbox] # 0
      <3>1. state.mailbox \in Slots
        BY <1>0 DEF IsConsistent, Words
      <3> QED
        BY <3>1 DEF Newer, TypeOK
    <2> QED
      BY <2>1, <2>2, <2>3 DEF Latest!Next, Latest!Take
  <1>6. CASE PubPublish
    BY <1>6 DEF PubPublish, bufferVars, slotVars
  <1>7. CASE \/ Cleanup \/ Deactivate \/ Join \/ UpdateBegin \/ UpdateFails
             \/ CommitLoad \/ CommitRetry \/ UpdateReady
             \/ PubCheck \/ PubTest \/ PubReset \/ FetchLoad \/ FetchRetry
             \/ UNCHANGED vars
    BY <1>7 DEF Cleanup, Deactivate, Join, UpdateBegin, UpdateFails, CommitLoad,
                CommitRetry, UpdateReady, PubCheck, PubTest, PubReset, PubGoto,
                FetchLoad, FetchRetry, vars, bufferVars, slotVars, rtVars, pubVars
  <1> QED
    BY <1>1, <1>2, <1>3, <1>4, <1>5, <1>6, <1>7 DEF Next, Update, Publisher

\* Whatever the interleaving of update, the publish thread and the lifecycle
\* callbacks, the hand-over is one of LatestState: whole states, in order,
\* each at most once.
THEOREM Refinement == Spec => ImplementsLatestState
  BY LatestInit, LatestStep, Invariance, PTL DEF Spec, ImplementsLatestState, Latest!Spec
=============================================================================
