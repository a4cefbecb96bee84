---------------------------- MODULE AllModules ----------------------------
(***************************************************************************)
(* Loading and unloading every module of the repository that keeps         *)
(* anything between its init and its exit function: the five drivers       *)
(* (DriverLoad), the modules that record tasks (TaskMods), the sockets     *)
(* (SocketMods) and the self-arming timer (DeferredMod).                   *)
(*                                                                         *)
(* Modules of one family compete for device numbers, ports, the heap or    *)
(* TCP ports; modules of two families share nothing, so a behaviour shows  *)
(* one family at work, any of them.                                        *)
(***************************************************************************)
EXTENDS DriverLoad, TaskMods, SocketMods, DeferredMod

VARIABLE family

allVars == <<family, vars, taskVars, sockVars, timerVars>>

AllInit ==
  /\ family \in {"drivers", "tasks", "sockets", "timer"}
  /\ Init /\ TaskInit /\ SocketInit /\ TimerInit

AllNext ==
  /\ UNCHANGED family
  /\ \/ family = "drivers" /\ Next /\ UNCHANGED <<taskVars, sockVars, timerVars>>
     \/ family = "tasks" /\ TaskNext /\ UNCHANGED <<vars, sockVars, timerVars>>
     \/ family = "sockets" /\ SocketNext /\ UNCHANGED <<vars, taskVars, timerVars>>
     \/ family = "timer" /\ TimerNext /\ UNCHANGED <<vars, taskVars, sockVars>>

AllSpec == AllInit /\ [][AllNext]_allVars /\ TimerFairness
=============================================================================
