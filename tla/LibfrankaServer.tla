--------------------------- MODULE LibfrankaServer ---------------------------
(***************************************************************************)
(* LibfrankaHTTPServer: every request runs on a thread of its own, and     *)
(* most of them as a helper process with a connection to the robot of its  *)
(* own.  Helpers are run one at a time under helper_lock; the thresholds   *)
(* they get through their environment are kept without a lock.             *)
(*                                                                         *)
(* The thresholds are one value.  Requests that are refused, or answered   *)
(* from memory (health, get_collision), change nothing and are left out.   *)
(* External: the helper libfranka_http_tool and the robot.                 *)
(***************************************************************************)
EXTENDS Naturals, FiniteSets

CONSTANTS
  Clients,    \* threads of ThreadingHTTPServer
  Thresholds, \* values of the collision thresholds
  MaxRequests \* bound on the requests

ASSUME LibfrankaAssumption == Thresholds # {} /\ MaxRequests \in Nat

VARIABLES
  helperLock, \* the threads in the block under helper_lock
  thresholds, \* collision_thresholds
  request,    \* what each thread was asked
  at,         \* where it is
  env,        \* the thresholds in the environment of its helper, if it has one
  applied,    \* those the robot uses (external)
  unsure,     \* did the last helper that was to apply them fail?
  asked       \* number of requests so far

libfrankaVars == <<helperLock, thresholds, request, at, env, applied, unsure, asked>>

\* get_pose, get_state and clear_error are one.
Helpers == {"get_state", "set_collision", "move_pose"}
Applying == {"set_collision", "move_pose"}
Places == {"idle", "waiting", "running"}

InitialThresholds == CHOOSE v \in Thresholds : TRUE  \* the defaults

LibfrankaInit ==
  /\ helperLock = {}
  /\ thresholds = InitialThresholds
  /\ request = [t \in Clients |-> "get_state"] /\ at = [t \in Clients |-> "idle"]
  /\ env = [t \in Clients |-> InitialThresholds]
  /\ applied \in Thresholds /\ unsure = TRUE
  /\ asked = 0

\* A valid set_collision changes the memory first, without the lock.
Receive(t, helper, values) ==
  /\ at[t] = "idle" /\ asked < MaxRequests
  /\ asked' = asked + 1
  /\ request' = [request EXCEPT ![t] = helper]
  /\ thresholds' = IF helper = "set_collision" THEN values ELSE thresholds
  /\ at' = [at EXCEPT ![t] = "waiting"]
  /\ UNCHANGED <<helperLock, env, applied, unsure>>

\* Mutant of RunHelper: there is no lock.
RunHelperUnlocked(t) ==
  /\ at[t] = "waiting"
  /\ helperLock' = helperLock \cup {t}
  /\ env' = [env EXCEPT ![t] = thresholds]
  /\ at' = [at EXCEPT ![t] = "running"]
  /\ UNCHANGED <<thresholds, request, applied, unsure, asked>>

\* The environment is made under the lock.
RunHelper(t) ==
  /\ at[t] = "waiting" /\ helperLock = {}
  /\ helperLock' = {t}
  /\ env' = [env EXCEPT ![t] = thresholds]
  /\ at' = [at EXCEPT ![t] = "running"]
  /\ UNCHANGED <<thresholds, request, applied, unsure, asked>>

\* A helper that fails may have applied the thresholds before.
HelperEnds(t) ==
  /\ at[t] = "running"
  /\ helperLock' = helperLock \ {t}
  /\ at' = [at EXCEPT ![t] = "idle"]
  /\ IF request[t] \in Applying
       THEN \/ applied' = env[t] /\ unsure' = FALSE
            \/ applied' \in {applied, env[t]} /\ unsure' = TRUE
       ELSE UNCHANGED <<applied, unsure>>
  /\ request' = [request EXCEPT ![t] = "get_state"]
  /\ env' = [env EXCEPT ![t] = InitialThresholds]
  /\ UNCHANGED <<thresholds, asked>>

LibfrankaNext ==
  \E t \in Clients :
    \/ \E helper \in Helpers, values \in Thresholds : Receive(t, helper, values)
    \/ RunHelper(t)
    \/ HelperEnds(t)

-----------------------------------------------------------------------------
(* Properties.                                                              *)

LibfrankaTypeOK ==
  /\ helperLock \subseteq Clients /\ thresholds \in Thresholds
  /\ request \in [Clients -> Helpers] /\ at \in [Clients -> Places]
  /\ env \in [Clients -> Thresholds]
  /\ applied \in Thresholds /\ unsure \in BOOLEAN
  /\ asked \in 0..MaxRequests

\* Two set_collision requests at once, whichever helper comes first: when none
\* is under way and the last motion or set_collision succeeded, the robot uses
\* the thresholds that get_collision answers.
ThresholdsApplied ==
  (\A t \in Clients : at[t] = "idle" \/ request[t] # "set_collision") /\ ~unsure
    => applied = thresholds
=============================================================================
