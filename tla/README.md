# franka_ros2_ws in TLA+

TLA+ models of the concurrent and stateful parts of this workspace: the ROS 2 stack for
Franka robots (`franka_hardware`, `franka_robot_state_broadcaster`, `franka_gripper`), the
HTTP servers and the recovery watchdog beside it, and the teleoperation nodes built on it.
TLC checks the models on small instances; TLAPS proves the main results for every value of
the constants.

## 1. Inventory

Paths are relative to `src/`. *State* is what the component keeps between calls.

### franka_hardware

**Robot** (`franka_hardware/src/robot.cpp`). State: the libfranka control session
`active_control_` and five `*_interface_active_` flags. Operations: `readOnce`, `writeOnce`
(dispatches a vector by the flags and the vector's length), `stopRobot`, five
`initialize*Interface`, setters. `control_mutex_` is held by reads and writes but not by
`stopRobot` and `initialize*Interface`. Correct when: the flags are those of the session;
a session is replaced only after it was dropped.

**FrankaHardwareInterface** (`franka_hardware/src/franka_hardware_interface.cpp`). State: the
command vectors, the `*_claimed_` flags, `active_mode_`, `needs_initial_command_`.
Operations: `on_activate`, `on_deactivate`, `read`, `write`, `prepare_` and
`perform_command_mode_switch`, called by the controller manager. None of its members is
atomic or locked. Hard: a mode switch beside or between read and write, partial claims,
sessions that fail to start or are aborted, vectors left over from an earlier session.
Correct when: a command goes only to a session of its kind, never carries a vector from
before the session, and the mode is the one the active controllers claim.

**PTPMotionHandler and ActionServer** (`franka_hardware/src/actions_helper/ptp_motion_handler.cpp`,
`franka_action_server.cpp`). State: a control handler, a map of futures, `last_feedback_`,
`running_`, `motion_id_`; one `std::async` task per motion. Operations: start, poll, cancel.
Hard: the task and the poller share the feedback and the handler; a goal may end before its
task. Correct when: a result is the motion's own, a moving arm is followed, two tasks never
command the arm, each goal ends.

**FrankaExecutor, FrankaParamServiceServer** (`franka_executor.cpp`,
`franka_param_service_server.cpp`). A spinning thread, and seven services that forward to the
setters of Robot.

### franka_robot_state_broadcaster

**AsyncBuffer** and **FrankaRobotStateBroadcaster**. State: one atomic word with three slot
indices and `mailbox_full`, three messages, `data_ready_`, `is_publish_thread_running_`.
Operations: `update` (realtime thread), `publishRunner` (its own thread), lifecycle callbacks.
Hard: lock-free exchange, two signals for one event, state left over between activations.
Correct when: whole states are published, in order, none twice, none from before the
activation, and none is slept on.

### franka_gripper

**GripperActionServer** (`franka_gripper/src/gripper_action_server.cpp`). State: one gripper, its
last state under a mutex. Operations: four actions, each in a detached thread with an
asynchronous command, a stop service, a publishing timer. Hard: goals beside each other, a
width read under the mutex and used after it, `stop()` before the command has begun, exceptions
in detached threads.

### Recovery and impedance teleoperation

**Error recovery watchdog** (`serl_franka_controllers_ros2/scripts/franka_error_recovery_watchdog.py`).
State: running flag and time of the last recovery under a lock, the signature of the last
error, read positions of log files. Triggers: `/rosout`, log files, the robot state. A recovery thread
announces itself on `recovering`, deactivates controllers, calls `error_recovery` with
retries, restarts the impedance controller, announces the end. Hard: a trigger dropped
during a recovery or its cooldown, goals and requests served after their time-out. Correct
when: one recovery at a time, a reflex that it is told of is answered, nothing but the restart
comes after the restart, an end is announced for each begin.

**Impedance teleoperation** (`quest3_oculus_rviz`, `simple_quest_impedance_teleop_node.py`). State: the
target pose, the anchor of the grip, the robot's error and recovery flags, a cached Quest
pose, the reader and its restart time. Operations: subscriptions, and a timer that reads the
Quest and publishes a target. Hard: announcements that arrive late, a Quest that falls
silent, a reader that dies. Correct when: no increments during a recovery it was told of,
nothing is sent that was never measured, silence does not turn into a jump, the reader comes
back.

### HTTP servers

**serl HTTP server** (`serl_franka_controllers_ros2/scripts/serl_franka_http_server.py`). State: the
controller manager's (by service calls), a cache of topics under `_state_lock`, flags of the
auto start and of the default collision behavior. Operations: endpoints that load, start,
stop and switch controllers, joint and PTP resets; an auto-start thread; an executor thread.
Nothing serialises the switching sequences. Hard: sequences beside each other, waits that
fail half-way, requests served late. Correct when: one arm controller at a time, impedance is
restored after a PTP reset, every request is answered, what is answered from the cache
belongs together.

**libfranka HTTP server and tool** (`libfranka_http_server.py`, `libfranka_http_tool.cpp`). State: the
thresholds that helpers get through their environment, `helper_lock`. Operations: a helper
process per request. Correct when: the robot has the thresholds the server remembers.

**franky HTTP server** (`franky_franka_control/franky_franka_control/franky_http_server.py`). State: the
robot under a reentrant lock, its factor, thresholds, a lazily made gripper. Correct when:
memory and robot agree wherever a call throws, no request waits for ever.

### franky and hand teleoperation (`quest3_oculus_rviz`)

**franky Cartesian pose node** (`franky_cartesian_pose_node.py`, `franky_control_modes.py`). State: target,
enabled flag and their ages, the robot, `motion_active`, hold time, the current command and
its velocity; a control thread, an executor, gripper threads, three locks. Operations:
enable/disable and target messages, the state timer (which also reconnects), one command per
cycle, automatic recovery in either thread. Hard: a disable while a command is on its way, a
hold or a recovery that forgets the motion, cycles held up, a velocity kept from before the
target jumped. Correct when: a disabled teleoperation has stopped the robot, silence stops it, a
command goes gently and never away from the target, and the robot gets there although a
command may pass it.

**Headset node** (`oculus_tf_node.py`). State: the headset's reader. A timer publishes poses and
buttons. **Hand teleoperation** (`right_hand_teleop_sim_node.py`, `teleop_motion_modes.py`). State: target,
anchors, filter, stationary and paused state, measured pose and its age, gripper buttons.
Operations: pose, button and measured-pose callbacks, a timer that publishes target, twist
and enabled. Hard: lost samples, measured poses that come and expire at any time,
re-anchoring. Correct when: motion begins where the arm is, moves by bounded displacements,
stops on release, one gripper command per press.

**Dual-arm launch** (`launch/franka_dual_real_teleop.launch.py`), **realtime plot**
(`teleop_realtime_plot_node.py`), **simulated arm** (`franka_sim_ik_node.py`). Which node is given which
topics, triggers and buttons; traces with an origin per grip. Correct when: each arm
follows its own hand; what is drawn belongs to one grip and one origin.

**quest3 libfranka pose node** (`libfranka_cartesian_pose_node.cpp`): the same task with one
control thread on libfranka.

### The rest

**serl controllers** (`cartesian_impedance_controller.cpp`, `cartesian_pose_command_controller.cpp`,
`joint_position_controller.cpp`): a target handed over from a subscription to `update`.
`franka_example_controllers`, `franka_semantic_components`, `franka_mobile` (swerve kinematics and
odometry), descriptions and message definitions: control laws on reals and configuration.
They have no protocol of their own; what the controllers claim is used in
`MCHardwareInterface`.

### How they interact

```
 controllers --claims, command vectors--> FrankaHardwareInterface --> Robot --> libfranka
      ^                                             |  state pointer
      | switch requests                             v
 serl HTTP server, watchdog            FrankaRobotStateBroadcaster --> topics
      ^        |  error_recovery, ptp_motion             |
      |        +--> ActionServer --> PTPMotionHandler     +--> watchdog, teleoperation
 impedance teleoperation <--- recovering --- watchdog

 headset node --poses, buttons--> hand teleoperation --target, enabled--> franky pose node --> franky
      (one per hand, wired by the dual launch)   ^--- measured pose ---------+--> realtime plot
```

## 2. Modules

| module | models | role |
|---|---|---|
| `Robot` | `Robot`: session and flags | operators of `HardwareInterface` |
| `HardwareInterface` | the ros2_control plugin, realtime thread and switch thread | state machine, implements `ControlSession` |
| `MCHardwareInterface` | claims of the controllers | instance |
| `ControlSession` | what the plugin promises to libfranka | abstract specification |
| `HardwareInterfaceProofs` | | theorems |
| `PTPMotion` | `PTPMotionHandler`, the `ptp_motion` action | state machine |
| `PTPMotionProofs` | | theorems |
| `LatestState` | what the broadcaster's hand-over promises | abstract specification |
| `AsyncBuffer` | the triple buffer's word | operators of `StateBroadcaster` |
| `StateBroadcaster` | the broadcaster | state machine, implements `LatestState` |
| `StateBroadcasterProofs` | | theorems |
| `RecoveryWatchdog` | the watchdog, with robot and controller manager around it | state machine |
| `ImpedanceTeleop` | subscriptions and timer of the impedance teleoperation | state machine |
| `QuestInput` | its source of poses, cache and reader | state machine |
| `RecoveryTeleop` | the three together, over the `recovering` topic | composition |
| `RecoveryTeleopProofs` | | theorems |
| `SerlSwitching` | the switching sequences of the serl HTTP server | state machine |
| `SerlSwitchingProofs` | | theorems |
| `SerlState` | its state cache and default collision behavior | state machine |
| `LibfrankaServer`, `FrankyServer` | the two servers without ROS | state machines |
| `HttpServers` | `SerlState` and the two servers | composition |
| `HttpServersProofs` | | theorems |
| `FrankyPose` | the threads of the franky pose node | state machine |
| `FrankySteps` | its command per cycle | state machine |
| `DualTeleop` | the wiring of the dual-arm launch, with the simulated arm | state machine |
| `TrajectoryPlot` | the plotted traces | state machine |
| `FrankyNode` | the four together | composition |
| `FrankyNodeProofs` | | theorems |
| `OculusTf` | the headset node | state machine |
| `HandTeleop` | the hand teleoperation, both motion modes | state machine |
| `QuestTeleop` | the two together | composition |
| `QuestTeleopProofs` | | theorems |

Definitions named as mutants in a comment are faulty variants of the definition that follows
them. No specification uses them; each shows that a property notices that fault.

In `RecoveryTeleop`, `HttpServers`, `FrankyNode` and `QuestTeleop` a constant variable `part` picks what
a behavior is about. The parts of `HttpServers` and `FrankyNode` share no variable (they are
separate programs, or a program and what it leaves out of another view of itself), so that
interleaving them would multiply the states and add nothing. The parts of `RecoveryTeleop` and
`QuestTeleop` do share a node; a part there keeps one of the node's inputs simple while the other
varies, where the code of one half does not read what the other writes. For `RecoveryTeleop`
what varies is the Quest (`quest`), the recoveries with both nodes in full (`recovery`), or how the
watchdog learns of a reflex (`reflex`, where the teleoperation only receives announcements).

### Robot and HardwareInterface

`session` and `flags` are `active_control_` and the flags. The realtime thread's counter `rt`
goes through `readOnce` (test, then use of the session), `initializePositionCommands` (test,
then copy), the controllers' update, and `write` (non-finite test, `needs_initial_command_`, the
switch over the mode, the dispatch on the flags, the use of the session). The switch
thread's counter `sw` goes through `prepare` and the statements of `perform`. A value is
abstracted to whether it was written since the session was started (`fresh`) and whether it
is finite (`nan`). `frame` is the command handed to libfranka in this cycle.

- With `Overlap = FALSE` the manager performs a switch between a cycle's read and its
  controllers' update, as the manager of the target distribution does. With
  `Overlap = TRUE` every statement of the two threads interleaves, as comments
  and tests of the source expect.
- With `Faults = TRUE` sessions are aborted, fail to start, and controllers write non-finite
  numbers.
- `RTSend` accepts no other session kind than its own: another one's exception is
  logged as a warning, so the cycle ends the same way and `frame` shows the mismatch.

`ControlSession` is what libfranka is promised: one session at a time, opened when there is none;
at most one command a control cycle, of the kind of the open session, and only once every vector
it is made of was written for that session. The refinement maps the open session to `session`, a
complete command to a mode whose `Vectors` are all `fresh`, the command of the cycle to `frame.kind`.
`SWStart` is Open; `SWPublish`, `RTInitCopy` or `RTUpdate` is Complete, whichever writes the last vector;
`SWLeaveMode` is Withdraw, `RTSend` is Send, `RTReadCheck` is NextCycle; every end of a session,
also one the robot aborts, is Close.

External: the manager and the controllers (`Request`, `RTUpdate`, `RTError`, `SWFinish`), and
libfranka. Abstracted: rate limiting, filters, the second test in `writeOnceCartesian*`
(merged with the first), exceptions of `read` other than `ControlException`, the URDF checks
of `on_init`. Adjacent assignments that nothing else reads in between are one step.

### PTPMotion

`pc` is the caller: `startNewPTPMotion`, then polls of `getFeedback`, each split at
`wait_for(0)` and the lock. `task[m]` is the thread of motion m. Handlers are named by the motion
they were configured for, a feedback by its motion and status, an exception in a future is
`Threw`. `arm` is the motion the robot executes (external). `Cancels` lets the caller call
`cancelMotion` between two polls, as the tests do; in `ActionServer` the cancel callback shares
a mutually exclusive group with the action and cannot interrupt it.
Exceptions are modelled where the code can meet them in the task: setting the target and
stopping control.

### AsyncBuffer, StateBroadcaster, LatestState

`state` is the word; `rtWord` and `pubWord` are the loaded copies `current`. A message is the
number of the measured robot state; `torn` slots were written in part, `sized` slots
prepared by `initialize_robot_state_msg`. Each access to an atomic is a step; an exchange
succeeds if the word is the one loaded (which includes a word that has come back), and
may fail at any time. `since` remembers the number at activation.
The refinement to `LatestState`: `box` is the mailbox's state when it is full, `taken` is the state
being published or the last published. `CommitExchange` is Put, a fetch of a full mailbox is Take,
`Configure` and `Activate` are Drop. The model is sequentially consistent: the release-only
exchange in `get_active_buffer` after a word has returned to an earlier value (ABA) is not examined
for weakly ordered machines.

### RecoveryWatchdog, ImpedanceTeleop, QuestInput, RecoveryTeleop

`running` and `cooled` are `_recovery_running` and the cooldown; `rec` is the program counter of the
recovery thread, one step per wait. Each wait may end with its response, its failure or its
deadline; what timed out stays in `goals` or `requests` and is served later, so a controller can
be deactivated or an error cleared when nobody waits any more. `enabled`, deactivation before
and restart after a recovery have their defaults (TRUE); delays take any time. Which line of
a log is a trigger is left out: a log line may come at any time. `inbox` is the `recovering`
topic between the two nodes: in order, late.

A reflex may take controllers down, and the state broadcaster with them: `read()` returns
ERROR (`franka_hardware_interface.cpp:233-236`), after which, as its comment at 297-300 says, the
controller manager deactivates them. So robot states are only received while `streaming`, which
another client may bring back; otherwise the line that was logged is all the watchdog has.
`report` says whether it was read and, during a recovery or its cooldown, dropped: the offset
is behind it then, and it is not read again.

`ImpedanceTeleop` keeps where the target comes from (`zeros`, `pose`, `steps`), not its value.
`QuestInput` counts ages in timer cycles: `gap` is the longest silence an increment spans. The
restart of the reader is one step (creating the new one, stopping the old).

### SerlSwitching

`job[t]` is what a thread does: the request, the call it waits for, and the controllers it saw
active. The response of a service and what the thread does with it is one step; any wait may
fail, and a request that timed out stays in `late` and is served later or never. `ctrl` is the
controller manager. `mode` is how requests come: one after the other (`orderly` without the
joint reset by controller and the IK fallback, `serial` with them), with some served late, or
all threads at once (`overlap`). With one handler thread and the auto start two sequences overlap.
The spawner, MoveIt, the action servers and the manager are external.

### SerlState, LibfrankaServer, FrankyServer

A message is its number, so that a velocity is the pair of messages it was computed
from. `LibfrankaServer` holds `helper_lock` from the start of a helper to its end; `env[t]` are the
remembered thresholds as they were when the helper's environment was made. The helper program is external.
`FrankyServer` has the reentrant lock with its depth, and a robot that may throw at each call;
the values of the factor and of the thresholds are compared with the robot's.

### FrankyPose, FrankySteps, DualTeleop, TrajectoryPlot

`FrankyPose`: `ctl` is the control thread, `ex` the executor; blocks under a lock that do not wait
inside are one step, `command_send_lock` is explicit. `sent` is the last motion asked of the
robot. `seen` is what the control thread's snapshot said. Automatic recovery, stop on disable
and the gripper have their defaults. `FrankySteps`: the position, as a vector of a plane; a cycle
is atomic, a velocity is what it covers in the lookahead, a quotient is rounded to zero, and a
limited vector to any nearest one of whole numbers inside the limit. The plane has what matters
to `_step_toward`: a velocity kept from before a change of target is off the line to the new one.
Then the alignment (`Aligned`, in squares of whole numbers) decides: 0 or less, the command stays
where the robot is; above 0.98 (line 867), one that leads past the target is cut at it; in
between, it goes out as it is, past the target and, as `next_position` (870) is not clipped, possibly
out of the workspace. `velocity` stays kept in that case. The rotation (872-900) takes the same
branches on a rotation vector.

`DualTeleop`: a message is the set of hands, or triggers, it depends on; each node is a function
from what it subscribes to to what it publishes, with the names the launch file gives it. Both
hands' nodes get the same gripper button names; the launch file enables the buttons for one side by
default, so they are left out. `TrajectoryPlot`: a sample is the grip it was taken in and the
origin it is drawn from.

### OculusTf, HandTeleop, QuestTeleop

Poses are one coordinate, chosen when they are read. A topic keeps its newest message, so a
slow subscriber loses samples. `external` and `fresh` are the measured pose and whether it is young
enough; it arrives and expires at any time. The filter is any value between the old and the
new displacement, whatever its coefficient; the stationary time passes at any moment.
`presses` and `commands` count what the user did and what the gripper was told.

## 3. Runs

| run | properties | shows | bounds |
|---|---|---|---|
| `hw_serial` | `ModeServesControllers`, `CommandsFlow` | the served mode is the one claimed; a mode that is entered gets its commands out | five controllers covering every family and both elbow modes, no faults |
| `hw_faults` | `FrameMatchesSession`, `FrameInitialized`, `RTSurvives`, `ImplementsControlSession` | kinds match, no old vectors, no uncaught exception or null session in the RT thread; implements `ControlSession` | joint and Cartesian position controllers (the modes that wait for measured commands), a lone elbow, a partial claim; aborts, failed starts, non-finite numbers |
| `hw_overlap_faults` | `SessionsDoNotOverlap` | a session starts only after the one before was dropped, with aborts beside the switch | two controllers |
| `ptp` | `SuccessIsReal`, `ArmFollowed`, `OneTask`, `GoalEnds` | results are the motion's own and a moving arm is followed until the first cancel; tasks never overlap; goals end | three motions, cancels |
| `broadcaster` | `SlotsSafe`, `ImplementsLatestState`, `StateIsPublished` | slots are exclusive, sized and fresh; implements `LatestState`; every state gets out | four states, unlimited activations |
| `recovery` | `TypeOK`, `NoStepUnderRecovery`, `Disarmed`, `RestartIsLast`, `GapBounded`, `TeleopResumes`, `ReflexAnswered` | watchdog and teleoperation around a reflex, with a broadcaster that may go down; the Quest's silence | two retries, two requests and one goal left behind, two announcements on the way; grace 2, topic time-out 1, restart 4 cycles |
| `serl_switching` | `OneArmController`, `ImpedanceRestored`, `RequestsAnswered` | the sequences one after the other, beside the auto start, and served late | one handler thread and the auto start with two retries, one late request |
| `http_servers` | `VelocityConsistent`, `ThresholdsApplied`, `MemoryKept`, `RequestsAnswered` | what the servers keep between requests | two threads and three requests per server, two values of each setting, two messages per topic |
| `franky_pose` | `NodeTypeOK`, `DisabledMeansStopped`, `SilenceStops`, `SteppedGently`, `TargetReached`, `OwnHand`, `TraceCoherent` | threads, commands, wiring and plot of the franky node | workspace 0..2 in both axes with targets outside, velocity 2, lookahead 2, cycles of 1 and 4 ticks; traces of two points, two grips |
| `quest_teleop` | `TypeOK`, `AnchoredTarget`, `OneCommandPerPress`, `NoJump`, `ReleaseStops` | headset and hand teleoperation | three places of the hand, measured poses inside and outside the workspace, three presses of each button |
| `hw_overlap_stale`, `ptp_stale` | `AcceptedFrameInitialized`, `AbortIsReal` | violations, see Findings | three controllers; three motions |

Why the bounds are enough. The hardware interface keeps no history beyond one switch, its modes
differ only in family, elbow and initial command, and every pair of families occurs. Requests
may start and stop any sets of controllers. PTPMotion's state about past motions is one handler,
one map entry and one feedback, so three motions show what a first one leaves to a second and a
second to a third. `MaxUpdates = 4` lets a word return to its value (two commits), with a state
before and after. In `recovery` a request left behind by one recovery meets the next one, and
the number of recoveries is not bounded. In `serl_switching` the number of requests is not
bounded either: `OneArmController` and `ImpedanceRestored` are about any sequence of them. Three
requests on two threads let a third find what two concurrent ones left. In `franky_pose` a cycle
of four ticks is twice the lookahead, a velocity of two takes two cycles to gather and to lose,
and is cut, kept off the line, and sent over a wall of the workspace (with `command \in
Workspace` as an invariant this instance fails). `TargetReached` is shown for a velocity limit
of two accelerations only. With three, TLC finds a robot that is led around the target for ever:
velocities of whole numbers, changed along the axes, are too coarse there to lose the part
across the way. In the code's floating point the wanted velocity has no such part, so it decays;
a simulation of `_step_toward` (outside this project) ended at the target with the limits of the
launch files, and circled only where the limits allow many more cycles of acceleration and the
robot lags some twenty cycles behind its commands. `SteppedGently` is proved for all limits. In
`quest_teleop` 3 is outside the workspace, a hand can move by less than, exactly and more than
every threshold.

Deadlock is checked except where the system rests by itself: `PTPMotion` when no goal is
sent and `HttpServers` when no request comes (the bounds on motions and requests).

### Fairness

- `HardwareInterface`: weak fairness of the realtime thread (the loop is periodic) and of a
  prepared switch (the manager performs it). No request is assumed.
- `PTPMotion`: weak fairness of a busy caller and of each task; strong fairness of polling
  against endless cancels (a cancel comes from somebody else) and of
  the end of a motion that is followed for ever (libfranka reports an end).
- `StateBroadcaster`: weak fairness of both threads, strong fairness of an exchange (a weak
  compare-and-swap repeated does succeed). No call of `update` is assumed, so
  the last state before a pause must get out by itself.
- `RecoveryTeleop`: weak fairness of the recovery thread (every wait has a deadline), of the end
  of the cooldown, of the robot-state callback when no recovery runs and the broadcaster is
  active (it publishes periodically), of the poll that reads the line of a reflex, of delivery
  of `recovering`, and of the timer; strong fairness of creating a reader that works (it is
  tried again and again; with a headset that can never be reached nothing resumes).
- `SerlSwitching`: weak fairness of each thread and of the auto start: every wait has a deadline.
- `HttpServers`: weak fairness of handler threads, helpers and the timer; strong fairness of a
  service that answers with success (it does not fail for ever).
- `FrankyNode`: weak fairness of the control thread and of what the executor has begun; in
  `FrankySteps` also of the cycle, and strong fairness of the robot moving toward its command.
  No message is assumed.
- `QuestTeleop`: weak fairness of both nodes and of a headset that goes on tracking a hand: without
  tracking a release is never seen, which is a listed hazard.

## 4. Proofs

All theorems hold for every value of the constants, from the named ASSUMEs and the hypotheses
they state. Every safety property that a passing run checks, invariant, action property or
refinement, is a theorem.

- `HardwareInterfaceProofs!TypeCorrect`: types, for any controllers, `Overlap` and `Faults`.
- `HardwareInterfaceProofs!OneSession`: `SessionsDoNotOverlap`, for any `Overlap` and `Faults`. The switch
  thread drops the session before it starts one (`StartInv`), and nobody else starts any.
- `HardwareInterfaceProofs!SerialSafety`, `SerialInitialized`, `SerialSurvives`: with `Overlap = FALSE`,
  `FrameMatchesSession`, `FrameInitialized` and `RTSurvives`, with or without faults. None is
  inductive: `SerialInv` adds what each statement of a switch has established (`SwitchInv`), that an
  active mode has its session, flags and initialized vectors (`ModeInv`), and that what the
  realtime thread sampled is still so (`RTInv`). The last is what overlap destroys.
- `HardwareInterfaceProofs!Refinement`: with `Overlap = FALSE`, every step is one of `ControlSession` or
  changes nothing there. On top of `SerialInv` it needs that a command is only there between the
  end of a cycle and the next (`FrameInv`).
- `HardwareInterfaceProofs!ModeServed`: `ModeServesControllers`, with `Overlap = FALSE`, `Faults = FALSE` and
  `WellFormedClaims`: no partial claim, no elbow without its Cartesian interface. `ServeInv`: the
  claim flags are what the active controllers hold, or those that will be after the prepared
  switch (`Claimants`), and these share no interface. Each hypothesis is needed: a refused request
  and a failed session leave flags of controllers that are not active (see Findings). The run
  `hw_serial` is an instance.
- `PTPMotionProofs!MotionTypes`, `OneTaskAtATime`: types; no two tasks alive, with cancels. `TaskInv`
  says that only the last motion has an entry and only its task can be alive: a future's
  destructor waits.
- `PTPMotionProofs!MotionResults`, `MotionFollowed`: until the first cancel, `SuccessIsReal` and `ArmFollowed`.
  `ResultInv` says that a task returns only what it found out itself, because `running_` stays true.
- `RecoveryTeleopProofs!TypeCorrect`, `PausedUnderRecovery`, `DisarmedInError`, `RestartLast`, `SilenceBounded`: the five
  invariants of `recovery`, from `IInv`, the conjunction of one invariant per concern. `WatchdogInv`:
  types, and how many attempts the recovery thread has made at each of its steps. `TopicInv`: when no
  announcement is on its way, what the watchdog announced last is what the teleoperation believes,
  otherwise it is the newest one on its way; and the controller manager serves requests in order,
  so that none is left once the restart was answered. `TeleopInv` (with `DisarmInv`): an increment is
  only sent from an armed, anchored target, and an error or a recovery has disarmed it. `GapInv`: the
  age of the cached pose is within the grace period while anchored, and bounds the silence so far,
  on a topic with its time-out added.
- `SerlSwitchingProofs!TypeCorrect`: types, and `auto_start_retry_count` attempts at most. `JobsInv`: each
  operation is only at its own steps (`Places`), and a thread follows what it was asked for. A
  thread's steps are reduced to three facts, with which the other proofs work: how its job moves
  (`Moved`), what it read (`Read`), what it asked the controller manager for (`Asked`).
- `SerlSwitchingProofs!ImpedanceBack`: `ImpedanceRestored`, in every mode, also with overlapping and late
  requests. `SeenInv`: what a thread saw active is still configured, because nobody unloads a
  controller; so the restoring switch, when it is answered, has activated impedance.
- `SerlSwitchingProofs!OneArm`: `OneArmController`. `ArmInv`: requests that do not overlap leave one
  thread busy and nothing to be served late (`Quiet`); then what it read is still so when it asks
  for a switch, and a PTP reset has stopped all but the precise controller (`Fresh`); and what is
  active, like what a reset is to restore, is one controller at most (`Orderly`). The run's
  instance has one handler thread, the theorem any number.
- `StateBroadcasterProofs!BroadcasterTypes`, `SlotSafety`, `Refinement`: the word stays consistent,
  slots are exclusive, sized and fresh (`SlotsSafe`), and every step is a step of `LatestState` or
  changes nothing there. `BroadcasterInv`: each side's copy of the word is right about the slot it
  owns (`OwnSlot`), contents are ordered by age (`Newer`), and who runs when (`Lifecycle`).
- `HttpServersProofs!TypeCorrect`, `VelocityIsConsistent`, `ThresholdsAreApplied`, `MemoryIsKept`. `StateInv`: a
  velocity is that of the last pair of messages. `HelpersInv`: a helper runs only under the lock
  and with the thresholds that are remembered, or a `set_collision` waits for it. `LockInv`, `CallInv`,
  `MemoryInv`: who holds the reentrant lock and how deep, and that memory and robot differ only
  while its holder is applying thresholds, or after the robot refused some.
- `FrankyNodeProofs!NodeTypes`, `DisabledIsStopped`, `StepsAreGentle`, `HandsKeepToTheirArms`, `TracesAreCoherent`.
  `SendInv`: the control thread holds
  `command_send_lock` just while it sends, so the handler of a disable waits for a motion that is
  on its way; and a robot that was dropped does not move. `StepsInv`: the velocity that is kept is within
  its limit; nothing is claimed of where the robot and its command are, except from rest. The
  lemmas before it are about vectors of whole numbers: squares and the order of what is squared,
  the sum of two vectors (`Triangle`, `DiscSum`), a nearest vector of a set that holds all smaller ones is
  between zero and what it is near to (`NearestBetween`), and what is left of a velocity that is cut
  at the target is no larger (`QuotientSlower`). `HandsInv`: every topic of a side
  depends on that side only. `GripInv`: without a pending reset the controller's
  trace is of the present grip.
- `QuestTeleopProofs!QuestTypes`, `TargetsAreAnchored`, `MotionsDoNotJump`, `PressesCommandOnce`. `NodeOK`: the
  filter has seen nothing larger than the limit, and the position mode's target was made by it
  from the anchor, within the workspace, which is convex: clamping does not lead away from
  where one came from. `Counted`: a button that is down and not seen yet, or seen up
  before it went down, has a press without a command.

Types that no run lists (of `HardwareInterface`, `PTPMotion`, `StateBroadcaster`, `SerlSwitching`, `HttpServers`)
are proved.

Only model-checked: liveness (`CommandsFlow`, `GoalEnds`, `StateIsPublished`, `TeleopResumes`,
`ReflexAnswered`, `RequestsAnswered`, `SilenceStops`, `TargetReached`, `ReleaseStops`), which needs
fairness and ENABLED, out of the provers' reach. `ReflexAnswered` has one exception, which the code
has too: a reflex that takes the broadcaster down, and whose line in the log is read while the
watchdog is busy or in its cooldown, is dropped, and nothing tells the watchdog again. The README
of `quest3_oculus_rviz` describes automatic recovery without it; it is listed as a hazard.

## 5. Findings

- **A mode switch beside write().** `write()` samples the mode, `Robot::writeOnce` the flags.
  If a switch runs in between (`hw_overlap_stale`), a vector of the old mode, written before the
  session, is accepted by the new session.
- **Feedback left over.** `getFeedback` answers from `last_feedback_`, which no new motion resets:
  after an aborted motion the next goal is aborted at its first poll while its task
  moves the arm (`ptp_stale`).

Of the same origin, and seen when the runs' restrictions are lifted: with overlap
`std::invalid_argument` can leave `write()`, which catches only `std::runtime_error`, and with faults
too `read()`'s `stopRobot` can destroy the session a switch has just started and leave its flag;
with faults claim flags of controllers that went down stay set; an aborted goal leaves its
handler, already stopped, to the motion after it; `cancelMotion` sets `running_` to false for
good, so later motions set their target and nobody follows them. No document says
otherwise, so these are hazards, not findings.

Hazards that the list of `PROJECT.json` leaves out, all of parts that are not modelled: the
start-up race of `FrankaExecutor` with a context that is shut down (`franka_executor.cpp:21`), the callback group that
lets `error_recovery` wait for a motion (`franka_action_server.cpp:53`), the gripper's width used
after its mutex (`gripper_action_server.cpp:188`), and the target of `libfranka_cartesian_pose_node.cpp`
and of `cartesian_pose_command_controller.cpp`, handed from a subscription to the control thread.

## 6. Not modelled

- Control laws, kinematics (also the simulated arm's), odometry and rotations: reals and
  trigonometry. Positions are two coordinates in `FrankySteps`, where their direction decides, and
  one where only their distance does.
- `franka_gripper`, the serl controllers' and the libfranka node's hand-over of targets, Robot's
  parameter setters with `FrankaParamServiceServer`, `FrankaExecutor`: planned.
- Parsing and formatting: HTTP payloads, log lines, URDF, parameters; an invalid one is a
  refused request or no trigger.
- Parameters that switch a part of a node off, where the model has the default (named in
  the header of the module).
- Shut-down of nodes (`destroy_node`, signal handlers), drawing and RViz markers.
- Example controllers, semantic components, descriptions, messages, the remaining launch
  files: no state of their own.

## 7. Plan

1. `GripperServer`: goals, cancels and the stop service on one gripper; which command a
   stop ends; every goal ends.
2. What the theorems assume: `SerialSafety` for the overlaps that do no harm (a switch beside the
   controllers' update only), and how far the claim flags can be off after a refused request.
3. An abstract specification of the arm controllers (one owner at a time) that the orderly
   requests of `SerlSwitching` implement.
4. The hand-over of a target to a control thread (`CartesianPoseCommand`, the libfranka node):
   a target received is served or superseded.
5. Robot's setters under `write_mutex_` with `FrankaParamServiceServer`; `FrankaExecutor`.
