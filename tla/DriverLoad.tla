---------------------------- MODULE DriverLoad ----------------------------
(***************************************************************************)
(* Loading and unloading the five character drivers: kbd, so2_cdev,        *)
(* deferredTimer, memory and nonConMemory.  All of them register device    *)
(* 42:0, so they compete for it; kbd also asks for the two I/O ports of    *)
(* the keyboard controller, which another driver (Other) may hold.         *)
(*                                                                         *)
(* An init or exit function is the sequence of its kernel calls (todo);    *)
(* the functions of different drivers interleave.                          *)
(***************************************************************************)
EXTENDS Naturals, Sequences

CONSTANTS Other, Free

Drivers == {"kbd", "so2", "timer", "mem", "nonmem"}
Ports   == {"data", "status"}

ASSUME DriverLoadAssumption == Free \notin Drivers \cup {Other}

VARIABLES
  phase,    \* out, coming, live, going; failed: init returned an error
  todo,     \* the calls that init or exit has yet to make
  ok,       \* res = 0 so far
  region,   \* the driver that holds 42:0, or Free
  cdevs,    \* drivers whose cdev the kernel knows
  irqs,     \* drivers whose interrupt handler is installed
  procs,    \* drivers with an entry under /proc
  areas,    \* drivers that hold reserved pages
  ports     \* the holder of each I/O port, or Free

vars == <<phase, todo, ok, region, cdevs, irqs, procs, areas, ports>>

-----------------------------------------------------------------------------
(* The init and exit functions *)

\* kbd_init: without a failure it runs on into the labels that release the ports.
kbd_init == <<"region", "data", "status", "cdev", "irq", "-status", "-data">>
kbd_exit == <<"-irq", "-cdev", "-status", "-data", "-region">>

so2_cdev_init == <<"region", "cdev">>
so2_cdev_exit == <<"-cdev", "-region">>

deferred_init == <<"region", "cdev">>
deferred_exit == <<"-cdev", "-region">>

mydriver_init == <<"region", "cdev", "kmalloc">>

\* Seeded fault: the device is given back while its cdev is still there.
RegionFirst == <<"-region", "-cdev", "-area">>

mydriver_exit == <<"-cdev", "-region", "-area">>

driver_initt == <<"proc", "region", "cdev", "vmalloc">>

\* Seeded fault: the /proc entry stays.
ProcStays == <<"-cdev", "-region", "-area">>

driver_exit == <<"-proc", "-cdev", "-region", "-area">>

InitCalls(d) ==
  CASE d = "kbd"    -> kbd_init
    [] d = "so2"    -> so2_cdev_init
    [] d = "timer"  -> deferred_init
    [] d = "mem"    -> mydriver_init
    [] d = "nonmem" -> driver_initt

ExitCalls(d) ==
  CASE d = "kbd"    -> kbd_exit
    [] d = "so2"    -> so2_cdev_exit
    [] d = "timer"  -> deferred_exit
    [] d = "mem"    -> mydriver_exit
    [] d = "nonmem" -> driver_exit

-----------------------------------------------------------------------------
(* Control *)

Insmod(d) ==
  /\ phase[d] \in {"out", "failed"}
  /\ phase' = [phase EXCEPT ![d] = "coming"]
  /\ todo'  = [todo EXCEPT ![d] = InitCalls(d)]
  /\ ok'    = [ok EXCEPT ![d] = TRUE]
  /\ UNCHANGED <<region, cdevs, irqs, procs, areas, ports>>

Rmmod(d) ==
  /\ phase[d] = "live"
  /\ phase' = [phase EXCEPT ![d] = "going"]
  /\ todo'  = [todo EXCEPT ![d] = ExitCalls(d)]
  /\ UNCHANGED <<ok, region, cdevs, irqs, procs, areas, ports>>

Return(d) ==
  /\ phase[d] \in {"coming", "going"}
  /\ todo[d] = <<>>
  /\ phase' = [phase EXCEPT ![d] = IF @ = "going" THEN "out"
                                   ELSE IF ok[d] THEN "live" ELSE "failed"]
  /\ UNCHANGED <<todo, ok, region, cdevs, irqs, procs, areas, ports>>

Calls(d, call) == todo[d] # <<>> /\ Head(todo[d]) = call

Continue(d) == todo' = [todo EXCEPT ![d] = Tail(@)] /\ UNCHANGED <<phase, ok>>

\* res becomes an error and control goes on at a label.
Fail(d, label) ==
  /\ ok'   = [ok EXCEPT ![d] = FALSE]
  /\ todo' = [todo EXCEPT ![d] = label]
  /\ UNCHANGED phase

-----------------------------------------------------------------------------
(* The kernel calls *)

RegisterRegion(d) ==
  /\ Calls(d, "region")
  /\ region = Free
  /\ region' = d
  /\ Continue(d)
  /\ UNCHANGED <<cdevs, irqs, procs, areas, ports>>

RegionBusy(d) ==
  /\ Calls(d, "region")
  /\ region # Free
  /\ Fail(d, <<>>)
  /\ UNCHANGED <<region, cdevs, irqs, procs, areas, ports>>

\* unregister_chrdev_region does not ask who holds the number.
UnregisterRegion(d) ==
  /\ Calls(d, "-region")
  /\ region' = Free
  /\ Continue(d)
  /\ UNCHANGED <<cdevs, irqs, procs, areas, ports>>

CdevAdd(d) ==
  /\ Calls(d, "cdev")
  /\ cdevs' = cdevs \cup {d}
  /\ Continue(d)
  /\ UNCHANGED <<region, irqs, procs, areas, ports>>

\* cdev_add fails; no init function looks at its result.
CdevAddFails(d) ==
  /\ Calls(d, "cdev")
  /\ Continue(d)
  /\ UNCHANGED <<region, cdevs, irqs, procs, areas, ports>>

CdevDel(d) ==
  /\ Calls(d, "-cdev")
  /\ cdevs' = cdevs \ {d}
  /\ Continue(d)
  /\ UNCHANGED <<region, irqs, procs, areas, ports>>

ProcCreate(d) ==
  /\ Calls(d, "proc")
  /\ procs' = procs \cup {d}
  /\ Continue(d)
  /\ UNCHANGED <<region, cdevs, irqs, areas, ports>>

\* proc_create fails, which driver_initt does not notice.
ProcCreateFails(d) ==
  /\ Calls(d, "proc")
  /\ Continue(d)
  /\ UNCHANGED <<region, cdevs, irqs, procs, areas, ports>>

ProcRemove(d) ==
  /\ Calls(d, "-proc")
  /\ procs' = procs \ {d}
  /\ Continue(d)
  /\ UNCHANGED <<region, cdevs, irqs, areas, ports>>

\* request_region for one port.
RequestPort(d, x) ==
  /\ Calls(d, x)
  /\ ports[x] = Free
  /\ ports' = [ports EXCEPT ![x] = d]
  /\ Continue(d)
  /\ UNCHANGED <<region, cdevs, irqs, procs, areas>>

\* -EBUSY: the label of the data port comes after that of the status port.
PortBusy(d, x) ==
  /\ Calls(d, x)
  /\ ports[x] # Free
  /\ Fail(d, IF x = "data" THEN <<"-data">> ELSE <<"-status", "-data">>)
  /\ UNCHANGED <<region, cdevs, irqs, procs, areas, ports>>

\* release_region looks for the address, not for the holder.
ReleasePort(d, x) ==
  /\ Calls(d, IF x = "data" THEN "-data" ELSE "-status")
  /\ ports' = [ports EXCEPT ![x] = Free]
  /\ Continue(d)
  /\ UNCHANGED <<region, cdevs, irqs, procs, areas>>

\* Seeded fault: the result of request_irq is not kept in res.
IrqResultLost(d) ==
  /\ Calls(d, "irq")
  /\ Continue(d)
  /\ UNCHANGED <<region, cdevs, irqs, procs, areas, ports>>

\* request_irq fails: res is an error, and the loop goes on.
IrqBusy(d) ==
  /\ Calls(d, "irq")
  /\ Fail(d, Tail(todo[d]))
  /\ UNCHANGED <<region, cdevs, irqs, procs, areas, ports>>

RequestIrq(d) ==
  /\ Calls(d, "irq")
  /\ irqs' = irqs \cup {d}
  /\ Continue(d)
  /\ UNCHANGED <<region, cdevs, procs, areas, ports>>

FreeIrq(d) ==
  /\ Calls(d, "-irq")
  /\ irqs' = irqs \ {d}
  /\ Continue(d)
  /\ UNCHANGED <<region, cdevs, procs, areas, ports>>

\* The pages are allocated, reserved and filled.
AllocArea(d) ==
  /\ Calls(d, "kmalloc") \/ Calls(d, "vmalloc")
  /\ areas' = areas \cup {d}
  /\ Continue(d)
  /\ UNCHANGED <<region, cdevs, irqs, procs, ports>>

\* kmalloc fails: the memory driver returns -ENOMEM there and then.
KmallocFails(d) ==
  /\ Calls(d, "kmalloc")
  /\ Fail(d, <<>>)
  /\ UNCHANGED <<region, cdevs, irqs, procs, areas, ports>>

\* vmalloc fails and nobody looks: reserving page 0 kills the thread, and
\* the module stays half loaded.
VmallocFails(d) ==
  /\ Calls(d, "vmalloc")
  /\ Fail(d, <<"dead">>)
  /\ UNCHANGED <<region, cdevs, irqs, procs, areas, ports>>

FreeArea(d) ==
  /\ Calls(d, "-area")
  /\ areas' = areas \ {d}
  /\ Continue(d)
  /\ UNCHANGED <<region, cdevs, irqs, procs, ports>>

\* The other driver of the keyboard controller comes and goes.
OtherRequests(x) ==
  /\ ports[x] = Free
  /\ ports' = [ports EXCEPT ![x] = Other]
  /\ UNCHANGED <<phase, todo, ok, region, cdevs, irqs, procs, areas>>

OtherReleases(x) ==
  /\ ports[x] = Other
  /\ ports' = [ports EXCEPT ![x] = Free]
  /\ UNCHANGED <<phase, todo, ok, region, cdevs, irqs, procs, areas>>

-----------------------------------------------------------------------------
Init ==
  /\ phase  = [d \in Drivers |-> "out"]
  /\ todo   = [d \in Drivers |-> <<>>]
  /\ ok     = [d \in Drivers |-> TRUE]
  /\ region = Free
  /\ cdevs  = {}
  /\ irqs   = {}
  /\ procs  = {}
  /\ areas  = {}
  /\ ports  = [x \in Ports |-> Free]

Step(d) ==
  \/ RegisterRegion(d) \/ RegionBusy(d) \/ UnregisterRegion(d)
  \/ CdevAdd(d) \/ CdevAddFails(d) \/ CdevDel(d)
  \/ ProcCreate(d) \/ ProcCreateFails(d) \/ ProcRemove(d)
  \/ IrqBusy(d) \/ RequestIrq(d) \/ FreeIrq(d)
  \/ AllocArea(d) \/ KmallocFails(d) \/ VmallocFails(d) \/ FreeArea(d)
  \/ \E x \in Ports : RequestPort(d, x) \/ PortBusy(d, x) \/ ReleasePort(d, x)
  \/ Return(d)

Next ==
  \/ \E d \in Drivers : Insmod(d) \/ Rmmod(d) \/ Step(d)
  \/ \E x \in Ports : OtherRequests(x) \/ OtherReleases(x)

Spec == Init /\ [][Next]_vars

-----------------------------------------------------------------------------
(* Properties *)

\* Whoever opens 42:0 gets the driver that holds the number: no driver's cdev
\* outlives its claim, not even that of an init function which failed.
CdevOwned == cdevs \subseteq {region}

\* A driver whose exit function has run has left nothing in the kernel that
\* points into its unloaded code.
ExitClean ==
  \A d \in Drivers : phase[d] = "out" =>
    region # d /\ d \notin cdevs \cup irqs \cup procs \cup areas

\* A driver that loaded successfully holds the device number, so that no two
\* drivers are loaded at a time, kbd its interrupt and the memory drivers their
\* pages, however loading, failing and unloading the others interleave.  This
\* does not say that the driver can be opened: the result of cdev_add is
\* ignored, and kbd_init has given its ports back.
LiveHolds ==
  \A d \in Drivers : phase[d] = "live" =>
    /\ region = d
    /\ d = "kbd" => d \in irqs
    /\ d \in {"mem", "nonmem"} => d \in areas
=============================================================================
