--------------------------------- MODULE Ev3 ---------------------------------
(***************************************************************************)
(* The EV3: the server that clients talk to, and the ports of the snek     *)
(* behind it.  They share nothing, so that a behaviour is one of either.   *)
(***************************************************************************)
EXTENDS SnekServer, Ev3Ports

ev3Vars == <<vars, portVars>>

Use(class, plugs, kinds, ops) == [class |-> class, plugs |-> plugs, kinds |-> kinds, ops |-> ops]

NoUse == Use("motor", 0, {}, {})
NoPlan == Plan(0, 0, 0, 0, {}, FALSE)

Ev3Init ==
  /\ Init /\ PortsInit
  /\ plan = NoPlan \/ use = NoUse

Ev3Next ==
  \/ Next /\ UNCHANGED portVars
  \/ PortsNext /\ UNCHANGED vars

Ev3Spec == Ev3Init /\ [][Ev3Next]_ev3Vars /\ Fairness

ServerPlans == EachAlone \cup {NoPlan}

SomeDurations == {-1, 1}

\* Plugs moved from port to port, which takes three of them, and each builtin
PortUses ==
  { NoUse,
    Use("motor", 3, {"motor"}, {"talkto", "off"}),
    Use("motor", 1, {"motor"}, {"talkto", "on", "onfor", "setposition"}),
    Use("motor", 1, {"motor"}, {"talkto", "setpower", "setleft", "setright", "off", "position",
                                "read", "coast", "brake", "hold", "ramp_up", "ramp_down"}),
    Use("sensor", 3, {"touch"}, {"read"}),
    Use("sensor", 2, {"touch", "nxt"}, {"read"}),
    Use("sensor", 1, {"light", "gyro", "us"}, {"read", "light_rgb", "light_color"}),
    Use("sensor", 1, {"light", "touch"}, {"light_reflected", "light_ambient"}) }
=============================================================================
