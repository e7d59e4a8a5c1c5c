------------------------------- MODULE Ev3Ports -------------------------------
(***************************************************************************)
(* Motors and sensors of the EV3 (ports/ev3/motors.c, sensors.c, utils.c). *)
(* They are directories that the kernel makes and removes as plugs come    *)
(* and go, numbered in the order in which they came.  Which one is at a    *)
(* port is remembered, and looked for again when that one has gone.        *)
(*                                                                         *)
(* Each access to a file is a step, and plugs come and go between any two. *)
(* The kernel and the devices are external; the directories of the two     *)
(* classes are there.                                                      *)
(***************************************************************************)
EXTENDS Integers, Sequences, FiniteSets

CONSTANTS
  MotorPorts, SensorPorts,
  Durations,  \* arguments of onfor and setposition; the kernel takes no negative time
  Uses        \* the situations to look at: a class of devices, how many of which
              \* kinds are plugged in at most, and which calls are made

ASSUME PortsAssumption ==
  Durations \subseteq Int /\ MotorPorts \cap SensorPorts = {}

VARIABLES
  devs,         \* of each class, all that were ever plugged in; number n is the (n+1)st
  motors, selected_motor,
  sensor_kind, sensor_num,
  doing,        \* "idle", "open", "list", "entry" or "act"
  call,         \* the builtin that runs, or ran last
  left,         \* entries of the directory that readdir has still to return
  use

found == <<motors, sensor_kind, sensor_num>>
portVars == <<devs, found, selected_motor, doing, call, left, use>>

None == "none"
Ports == [motor |-> MotorPorts, sensor |-> SensorPorts]
Class == use.class
AllOf(c) == 0..(Len(devs[c]) - 1)
Dev(c, n) == devs[c][n + 1]
Attached(c, n) == n \in AllOf(c) /\ Dev(c, n).here
Present == {n \in AllOf(Class) : Attached(Class, n)}
At(p) == {n \in Present : Dev(Class, n).port = p}

\* The code knows every motor, and four kinds of sensors.
Supported == {"touch", "us", "light", "gyro"}
Known(kind) == Class = "motor" \/ kind \in Supported
IsSupported(n) == Known(Dev(Class, n).kind)

PortsInit ==
  /\ devs = [c \in {"motor", "sensor"} |-> << >>]
  /\ motors = [p \in MotorPorts |-> 0] /\ selected_motor = None
  /\ sensor_kind = [p \in SensorPorts |-> None]
  /\ sensor_num = [p \in SensorPorts |-> 0]
  /\ doing = "idle" /\ left = {} /\ use \in Uses
  /\ call = [op |-> None]

----------------------------------------------------------------------------
(***************************************************************************)
(* The kernel                                                              *)
(***************************************************************************)
\* Files that are looked at later
NewAttr == [time_sp |-> 0, position_sp |-> 0, command |-> "stop", mode |-> "COL-REFLECT"]

\* Of a call that runs it is noted whether the device that was at its port is
\* steady there, and whether the search is disturbed: by a device of no known
\* kind, or by one that goes just while its entry is looked at.

\* A directory that is being read may show what is added to it or not.
Plug ==
  \E p \in Ports[Class], kind \in use.kinds :
    /\ At(p) = {} /\ Len(devs[Class]) < use.plugs
    /\ devs' = [devs EXCEPT ![Class] =
                  Append(@, [port |-> p, kind |-> kind, here |-> TRUE, attr |-> NewAttr])]
    /\ left' \in IF doing \in {"list", "entry"} THEN {left, left \cup {Len(devs[Class])}} ELSE {left}
    /\ call' = IF doing = "idle" THEN call ELSE [call EXCEPT !.disturbed = @ \/ ~Known(kind)]
    /\ UNCHANGED <<found, selected_motor, doing, use>>

Unplug ==
  \E n \in Present :
    /\ devs' = [devs EXCEPT ![Class][n + 1].here = FALSE, ![Class][n + 1].attr = NewAttr]
    /\ call' = IF doing = "idle" THEN call
               ELSE [call EXCEPT !.steady = IF n = @ THEN -1 ELSE @,
                                 !.disturbed = @ \/ (doing = "entry" /\ n = call.fd)]
    /\ UNCHANGED <<found, selected_motor, doing, left, use>>

----------------------------------------------------------------------------
(***************************************************************************)
(* What the builtins do to the files of their device                       *)
(***************************************************************************)
ReadOf(file) == [does |-> "read", file |-> file]
WriteOf(file, value) == [does |-> "write", file |-> file, value |-> value]

Settings ==
  [setpower |-> <<WriteOf("speed_sp", 0)>>,
   setleft  |-> <<WriteOf("polarity", "inversed")>>,
   setright |-> <<WriteOf("polarity", "normal")>>]

Commands(arg) ==
  [on          |-> <<WriteOf("command", "run-forever")>>,
   off         |-> <<WriteOf("command", "stop")>>,
   onfor       |-> <<WriteOf("time_sp", arg), WriteOf("command", "run-timed")>>,
   setposition |-> <<WriteOf("position_sp", arg), WriteOf("command", "run-to-abs-pos")>>]

\* Of the selected motor, and of the one at a port
Position == [position |-> <<ReadOf("position")>>]
Speed == [read |-> <<ReadOf("speed")>>]

StopActions == [a \in {"coast", "brake", "hold"} |-> <<WriteOf("stop_action", a)>>]

Ramps == [ramp_up |-> <<WriteOf("ramp_up_sp", 0)>>, ramp_down |-> <<WriteOf("ramp_down_sp", 0)>>]

MotorAccesses(arg) == {Settings, Commands(arg), Position, Speed, StopActions, Ramps}

\* A sensor is asked for its kind first, a light sensor for its mode second.
SensorAccesses == <<ReadOf("driver_name")>>

Modes ==
  [light_reflected |-> "COL-REFLECT", light_ambient |-> "COL-AMBIENT",
   light_color |-> "COL-COLOR", light_rgb |-> "RGB-RAW"]

ASSUME UsesAssumption ==
  \A u \in Uses :
    u.class \in {"motor", "sensor"} /\ (u.class = "sensor" => u.ops \subseteq {"read"} \cup DOMAIN Modes)

Value == <<ReadOf("value")>>
RGB == Value \o Value \o Value

\* An error of the builtin's own
Wrong == [does |-> "fail"]

SetMode(op, kind) == IF kind = "light" THEN <<WriteOf("mode", Modes[op])>> ELSE <<Wrong>>

\* After the kind is known
ByKind(kind) ==
  CASE kind \in {"touch", "us"} -> Value
    [] kind = "light"           -> <<ReadOf("mode")>>
    [] OTHER                    -> <<Wrong>>

ByMode(mode) == IF mode = "RGB-RAW" THEN RGB ELSE Value

----------------------------------------------------------------------------
(***************************************************************************)
(* A call                                                                  *)
(***************************************************************************)
\* The call ends with an error or without.
Ends(result) == doing' = "idle" /\ call' = [call EXCEPT !.result = result, !.todo = << >>]

TalkTo ==
  /\ doing = "idle" /\ "talkto" \in use.ops
  /\ \E p \in MotorPorts : selected_motor' = p
  /\ UNCHANGED <<devs, found, doing, call, left, use>>

Called(op, port, arg, accesses) ==
  /\ doing' = "open"
  /\ call' = [op |-> op, port |-> port, arg |-> arg, todo |-> accesses, fd |-> -1, before |-> None,
              again |-> FALSE, result |-> None,
              steady |-> IF At(port) = {} THEN -1 ELSE CHOOSE n \in At(port) : TRUE,
              disturbed |-> \E n \in Present : ~IsSupported(n)]
  /\ UNCHANGED <<devs, found, selected_motor, left, use>>

Timed == {"onfor", "setposition"}
TakeNumber == Timed \cup {"setpower", "ramp_up", "ramp_down"}

\* Whether an argument is a number is looked at when the device is open.
CallMotor ==
  /\ doing = "idle" /\ Class = "motor"
  /\ \E op \in use.ops \ {"talkto"} :
     \E p \in IF op = "read" THEN MotorPorts ELSE {selected_motor} \ {None},
        arg \in IF op \in Timed THEN Durations ELSE {0} :
       \/ \E table \in MotorAccesses(arg) : op \in DOMAIN table /\ Called(op, p, arg, table[op])
       \/ op \in TakeNumber /\ Called(op, p, arg, <<Wrong>>)

CallSensor ==
  /\ doing = "idle" /\ Class = "sensor"
  /\ \E op \in use.ops, p \in SensorPorts : Called(op, p, 0, SensorAccesses)

\* M: without looking at the kind
OpensAny(p) == sensor_num[p]

\* The number of the directory to open, -1 for none.  A motor port that nothing
\* is known of has a 0.
MotorAt(p) == motors[p]

SensorAt(p) == IF sensor_kind[p] = None THEN -1 ELSE sensor_num[p]

NumberAt(p) == IF Class = "motor" THEN MotorAt(p) ELSE SensorAt(p)

Open ==
  /\ doing = "open" /\ Attached(Class, NumberAt(call.port))
  /\ doing' = "act" /\ call' = [call EXCEPT !.fd = NumberAt(call.port),
                                            !.before = Dev(Class, NumberAt(call.port)).attr.command]
  /\ UNCHANGED <<devs, found, selected_motor, left, use>>

ForgetMotors ==
  Class = "motor" /\ motors' = [p \in MotorPorts |-> 0] /\ UNCHANGED <<sensor_kind, sensor_num>>
ForgetSensors ==
  /\ Class = "sensor" /\ UNCHANGED motors
  /\ sensor_kind' = [p \in SensorPorts |-> None] /\ sensor_num' = [p \in SensorPorts |-> 0]

Discover ==
  /\ doing = "open" /\ ~Attached(Class, NumberAt(call.port)) /\ ~call.again
  /\ ForgetMotors \/ ForgetSensors
  /\ doing' = "list" /\ left' = Present
  /\ call' = [call EXCEPT !.again = TRUE]
  /\ UNCHANGED <<devs, selected_motor, use>>

NotAttached ==
  /\ doing = "open" /\ ~Attached(Class, NumberAt(call.port)) /\ call.again
  /\ Ends("no device")
  /\ UNCHANGED <<devs, found, selected_motor, left, use>>

\* M: what has gone since the directory was read is an error
IsAnError(n) == Ends("search") /\ UNCHANGED left
\* ... is passed over (ENOENT).
PassesOver(n) == doing' = "list" /\ left' = left \ {n} /\ UNCHANGED call

List ==
  /\ doing = "list"
  /\ \/ left = {} /\ doing' = "open" /\ UNCHANGED <<call, left>>
     \/ \E n \in left :
          IF Attached(Class, n)
          THEN doing' = "entry" /\ left' = left \ {n} /\ call' = [call EXCEPT !.fd = n]
          ELSE PassesOver(n)
  /\ UNCHANGED <<devs, found, selected_motor, use>>

NotedMotor(n) ==
  /\ Class = "motor" /\ motors' = [motors EXCEPT ![Dev("motor", n).port] = n]
  /\ UNCHANGED <<sensor_kind, sensor_num>>

NotedSensor(n) ==
  /\ Class = "sensor" /\ UNCHANGED motors
  /\ sensor_kind' = [sensor_kind EXCEPT ![Dev("sensor", n).port] = Dev("sensor", n).kind]
  /\ sensor_num' = [sensor_num EXCEPT ![Dev("sensor", n).port] = n]

\* Its files are read; that it has gone by then, or is of no known kind, ends
\* the search and the call.
Entry ==
  /\ doing = "entry"
  /\ IF Attached(Class, call.fd) /\ IsSupported(call.fd)
     THEN (NotedMotor(call.fd) \/ NotedSensor(call.fd)) /\ doing' = "list" /\ UNCHANGED call
     ELSE Ends("search") /\ UNCHANGED found
  /\ UNCHANGED <<devs, selected_motor, left, use>>

----------------------------------------------------------------------------
\* What the driver refuses
Refused(access) ==
  access.does = "write" /\ access.file = "time_sp" /\ access.value < 0

\* M: goes on after a write that failed
GoesOn(todo) == IF Len(todo) > 1 THEN doing' = "act" /\ call' = [call EXCEPT !.todo = Tail(todo)]
                ELSE Ends("argument")
\* An error is reported, and the builtin returns.
GivesUp(todo) == Ends("argument")

Continue(todo) == IF todo = << >> THEN Ends("ok")
                  ELSE doing' = "act" /\ call' = [call EXCEPT !.todo = todo]

Written(n, access) ==
  devs' = IF access.file \in DOMAIN Dev(Class, n).attr
          THEN [devs EXCEPT ![Class][n + 1].attr[access.file] = access.value]
          ELSE devs

\* What follows a read
Follow(n, access) ==
  CASE access.file = "driver_name" ->
         IF call.op = "read" THEN ByKind(Dev(Class, n).kind) ELSE SetMode(call.op, Dev(Class, n).kind)
    [] access.file = "mode"        -> ByMode(Dev(Class, n).attr.mode)
    [] OTHER                       -> Tail(call.todo)

Act ==
  LET access == Head(call.todo)
      n == call.fd
  IN  /\ doing = "act"
      /\ \/ access = Wrong /\ Ends("argument") /\ UNCHANGED devs
         \/ access # Wrong /\ ~Attached(Class, n) /\ Ends("gone") /\ UNCHANGED devs
         \/ /\ access.does = "read" /\ Attached(Class, n)
            /\ Continue(Follow(n, access)) /\ UNCHANGED devs
         \/ /\ access.does = "write" /\ Attached(Class, n)
            /\ IF Refused(access) THEN GivesUp(call.todo) /\ UNCHANGED devs
               ELSE Written(n, access) /\ Continue(Tail(call.todo))
      /\ UNCHANGED <<found, selected_motor, left, use>>

PortsNext ==
  \/ Plug \/ Unplug
  \/ TalkTo \/ CallMotor \/ CallSensor
  \/ Open \/ Discover \/ NotAttached \/ List \/ Entry \/ Act

----------------------------------------------------------------------------
(***************************************************************************)
(* Properties                                                              *)
(***************************************************************************)
\* What a builtin reads and writes is the device at the port it was called for,
\* wherever plugs were moved to before and meanwhile, and the kind remembered of
\* a sensor is the one that is there (sensors.c, "Once sensor is connected").
\* Left out is motor 0, which is taken to be at every port nothing is known of.
RightPort ==
  /\ doing = "act" =>
       \/ Dev(Class, call.fd).port = call.port
       \/ Class = "motor" /\ call.fd = 0
  /\ \A p \in SensorPorts :
       LET n == sensor_num[p]
       IN  sensor_kind[p] # None /\ Class = "sensor" /\ Attached("sensor", n)
             => Dev("sensor", n).port = p /\ Dev("sensor", n).kind = sensor_kind[p]

\* What stays plugged in during a call is found, also when it was moved there
\* before and others come and go meanwhile: one that has gone since the directory
\* was read is passed over.  Only a plug pulled just while its entry is looked at,
\* or a sensor of a kind that is not supported, at any port, spoils the search.
Finds ==
  doing = "idle" /\ call.op # None /\ call.steady # -1 =>
    /\ call.result # "no device"
    /\ call.result = "search" => call.disturbed
    /\ call.result = "gone" => call.fd = 0

\* A motor that runs for a time, or to a position, does so for the one asked
\* for: none is started with what is left from an earlier call.
StartsAsAsked ==
  doing = "idle" /\ call.op \in Timed /\ Attached("motor", call.fd) =>
    LET n == call.fd
        attr == Dev("motor", n).attr
    IN  /\ call.result = "ok" /\ call.op = "onfor"
             => attr.command = "run-timed" /\ attr.time_sp = call.arg
        /\ call.result = "ok" /\ call.op = "setposition"
             => attr.command = "run-to-abs-pos" /\ attr.position_sp = call.arg
        /\ call.result = "argument" => attr.command = call.before
=============================================================================
