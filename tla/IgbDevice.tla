------------------------------- MODULE IgbDevice -------------------------------
(****************************************************************************)
(* The life of one NIC in the driver, modules/igb/igb_main.c and            *)
(* igb_ethtool.c: between probe and removal it is opened, closed, reset     *)
(* with new settings, put to sleep and woken, while interrupts, a timer,    *)
(* two work items and the recovery from PCI errors do the same to it.       *)
(*                                                                          *)
(* A call is a sequence of steps, `todo', which its thread takes one by     *)
(* one: "user" is whoever holds the rtnl lock, one call after another;      *)
(* "task" is igb_reset_task(); "device" is the driver core and the PCI      *)
(* layer: power management, removal and the recovery from errors, one at a  *)
(* time and without the rtnl lock.  All vectors are enabled and disabled in the  *)
(* same loops and in the same order, so that one ring stands for all, beside *)
(* the vector of "other" causes.  Its NAPI instance is "busy" from the      *)
(* first interrupt on, since igb_poll() returns without napi_complete(),    *)
(* and no transmission ever times out, since igb_xmit_frame_adv_fake()      *)
(* begins none.  VFs and what the settings are about are left out; MSI-X    *)
(* is available, without its fallback to MSI; the NIC is copper.            *)
(*                                                                          *)
(* Bound: no call is made once `raced' is set, see the properties.          *)
(****************************************************************************)
EXTENDS Naturals, Sequences

VARIABLES
  todo,   \* for every thread, the steps it has left
  net,    \* the net device and the adapter's flags, see NetType
  ints,   \* the interrupts, see IntsType
  jobs,   \* timer and work items, see JobsType
  raced   \* history: something was started under a removal or a suspend

vars == <<todo, net, ints, jobs, raced>>

Threads == {"user", "task", "device"}
Works == {"watchdog", "reset"}
Causes == {"ring", "other"}

NetType ==
  [present : BOOLEAN,    \* FALSE once it was unregistered
   rings : BOOLEAN,      \* rings are allocated
   running : BOOLEAN,    \* __LINK_STATE_START: netif_running()
   attached : BOOLEAN,   \* __LINK_STATE_PRESENT: netif_device_present()
   asleep : BOOLEAN,     \* suspended
   down : BOOLEAN,       \* __IGB_DOWN
   resetting : BOOLEAN]  \* __IGB_RESETTING

IntsType ==
  [napi : {"none", "off", "on", "busy"},  \* "none": there are no vectors
   irq : BOOLEAN,                         \* the handlers are registered
   masked : SUBSET Causes,                \* the interrupts the NIC does not raise
   dma : BOOLEAN,                         \* the NIC serves the rings it was told of
   isr : {"idle", "arm", "end"}]          \* igb_msix_other(): "arm" if it arms the timer

JobsType ==
  [armed : BOOLEAN,                       \* watchdog_timer
   work : SUBSET Works,                   \* what schedule_work() has queued
   wd : {"idle", "arm"}]   \* igb_watchdog_task()

(****************************************************************************)
(* What the calls do, step by step.                                         *)
(****************************************************************************)
Down == <<"stop", "napi_disable", "quiesce", "reset">>
Up == <<"configure", "clear_down", "napi_enable", "start">>

\* Mutant of Close: the rings are freed under the running NIC
CloseFreesFirst == <<"free_rings">> \o Down \o <<"free_irq">>

Close == Down \o <<"free_irq", "free_rings">>

\* "From here on the code is the same as igb_up()", except for the interrupts
Open == <<"setup_rings", "configure", "request_irq", "clear_down",
          "napi_enable", "start_masked">>

\* Calls under __IGB_RESETTING.  Without autonegotiation igb_set_pauseparam()
\* resets nothing; igb_set_settings() may be asked for the impossible, and
\* igb_set_ringparam() may run out of memory.
Locked(steps) == <<"take">> \o steps \o <<"give">>
ChangeMtu == Locked(IF net.running THEN Down \o Up ELSE <<"reset">>)
SetSettings == {ChangeMtu, Locked(<<>>)}
SetPauseparam == {ChangeMtu, Locked(<<>>)}

\* Mutant of SetRingparam: without memory it returns before igb_up()
SetRingparamGivesUp ==
  {Locked(<<>>)} \union (IF net.running THEN {Locked(Down)} ELSE {})

SetRingparam ==
  {Locked(<<>>)} \union (IF net.running THEN {Locked(Down \o <<"resize">> \o Up)} ELSE {})

ReinitLocked == Locked(Down \o Up)
NwayReset == IF net.running THEN {ReinitLocked} ELSE {}

DiagTest ==
  (IF net.running THEN <<"not_open">> \o Close ELSE <<>>) \o <<"reset">>
    \o (IF net.running THEN <<"dev_open">> ELSE <<>>)

Suspend == <<"detach">> \o (IF net.running THEN Close ELSE <<>>) \o <<"clear_scheme">>
Resume == <<"init_scheme", "attach", "thaw">>

\* Mutant of Remove: the timer is stopped after the work was flushed
RemoveFlushesFirst == <<"set_down", "flush", "del_timer", "unregister">>

Remove == <<"set_down", "del_timer", "flush", "unregister">>
PciRecovery == <<"error_down", "slot_reset", "io_resume">>

Steps ==
  {"stop", "napi_disable", "quiesce", "reset", "configure", "clear_down",
   "napi_enable", "start", "start_masked", "dev_open", "setup_rings", "request_irq",
   "not_open", "free_irq", "free_rings", "resize", "take", "give",
   "vlan_mask", "vlan_unmask", "detach", "attach", "clear_scheme", "init_scheme", "thaw",
   "set_down", "del_timer", "flush", "unregister", "free_netdev",
   "error_down", "slot_reset", "io_resume"}

Idle(t) == todo[t] = <<>>
At(t, step) == ~Idle(t) /\ Head(todo[t]) = step
Done(t) == todo' = [todo EXCEPT ![t] = Tail(@)]
Become(t, steps) == todo' = [todo EXCEPT ![t] = steps]

Last(t) == todo[t][Len(todo[t])]
Removing == ~Idle("device") /\ Last("device") \in {"unregister", "free_netdev"}
Frozen == net.asleep \/ (~Idle("device") /\ Last("device") = "clear_scheme")

\* The step becomes several
Expand(t, steps) == Become(t, steps \o Tail(todo[t]))

(****************************************************************************)
(* igb_probe() has ended: no vector is enabled, and nothing is known of the *)
(* link.                                                                    *)
(****************************************************************************)
NewNet ==
  [present |-> TRUE, rings |-> FALSE, running |-> FALSE, attached |-> TRUE, asleep |-> FALSE,
   down |-> TRUE, resetting |-> FALSE]
NewInts == [napi |-> "off", irq |-> FALSE, masked |-> Causes, dma |-> FALSE, isr |-> "idle"]

Init ==
  /\ todo = [t \in Threads |-> <<>>]
  /\ net = NewNet /\ ints = NewInts
  /\ jobs = [armed |-> FALSE, work |-> {}, wd |-> "idle"]
  /\ raced = FALSE

(****************************************************************************)
(* igb_down()                                                               *)
(****************************************************************************)
Stop(t) ==
  /\ At(t, "stop")
  /\ net' = [net EXCEPT !.down = TRUE]
  /\ ints' = [ints EXCEPT !.dma = FALSE]
  /\ Done(t)
  /\ UNCHANGED <<jobs, raced>>

\* napi_disable() waits for whoever has disabled or scheduled the instance
NapiDisable(t) ==
  /\ At(t, "napi_disable")
  /\ ints.napi \in {"none", "on"}
  /\ ints' = [ints EXCEPT !.napi = IF @ = "on" THEN "off" ELSE @]
  /\ Done(t)
  /\ UNCHANGED <<net, jobs, raced>>

\* igb_irq_disable(), del_timer_sync(), netif_carrier_off()
Quiesce(t) ==
  /\ At(t, "quiesce")
  /\ ints' = [ints EXCEPT !.masked = Causes]
  /\ jobs' = [jobs EXCEPT !.armed = FALSE]
  /\ Done(t)
  /\ UNCHANGED <<net, raced>>

\* igb_reset() masks the interrupts and has the link negotiated anew
ResetHw ==
  /\ ints' = [ints EXCEPT !.masked = Causes, !.dma = FALSE]
  /\ UNCHANGED <<net, jobs, raced>>

Reset(t) == At(t, "reset") /\ ResetHw /\ Done(t)

(****************************************************************************)
(* igb_up().  igb_configure() ends in igb_vlan_rx_register(), which unmasks *)
(* the interrupts unless the device is down.                                *)
(****************************************************************************)
Configure(t) ==
  /\ At(t, "configure")
  /\ ints' = [ints EXCEPT !.masked = IF net.down THEN Causes ELSE {}, !.dma = TRUE]
  /\ Done(t)
  /\ UNCHANGED <<net, jobs, raced>>

ClearDown(t) ==
  /\ At(t, "clear_down")
  /\ net' = [net EXCEPT !.down = FALSE]
  /\ raced' = (raced \/ Removing)
  /\ Done(t)
  /\ UNCHANGED <<ints, jobs>>

\* BUG_ON() unless the instance is disabled
NapiEnable(t) ==
  /\ At(t, "napi_enable")
  /\ ints' = [ints EXCEPT !.napi = IF @ = "none" THEN @ ELSE "on"]
  /\ Done(t)
  /\ UNCHANGED <<net, jobs, raced>>

\* Reading ICR clears what is pending.  igb_irq_enable() is commented out in
\* igb_open(): there the link is looked after by the watchdog alone.
StartWith(t, mask) ==
  /\ ints' = [ints EXCEPT !.masked = mask]
  /\ jobs' = [jobs EXCEPT !.work = @ \union {"watchdog"}]
  /\ raced' = (raced \/ Removing)
  /\ Done(t)
  /\ UNCHANGED net

Start(t) == At(t, "start") /\ StartWith(t, {})
StartMasked(t) == At(t, "start_masked") /\ StartWith(t, Causes)

(****************************************************************************)
(* igb_open() and igb_close().  When the former fails dev_open() takes back *)
(* the state of the net device, igb_resume() does not.                      *)
(****************************************************************************)
DevOpen(t) ==
  /\ At(t, "dev_open")
  /\ IF net.attached
     THEN net' = [net EXCEPT !.running = TRUE] /\ Expand(t, Open)
     ELSE net' = net /\ Done(t)
  /\ UNCHANGED <<ints, jobs, raced>>

Fail(t) == Become(t, <<"reset", IF Last(t) = "thaw" THEN "thaw" ELSE "not_open">>)

\* igb_setup_all_tx_resources(), igb_setup_all_rx_resources()
SetupRings(t) ==
  /\ At(t, "setup_rings")
  /\ \/ Done(t) /\ net' = [net EXCEPT !.rings = TRUE]
     \/ Fail(t) /\ net' = net
  /\ UNCHANGED <<ints, jobs, raced>>

\* On failure the rings are freed before the NIC is reset; what keeps it
\* quiet is that the link is powered down first
RequestIrq(t) ==
  /\ At(t, "request_irq")
  /\ \/ /\ Done(t)
        /\ ints' = [ints EXCEPT !.irq = TRUE]
        /\ UNCHANGED net
     \/ /\ Fail(t)
        /\ ints' = [ints EXCEPT !.dma = FALSE]
        /\ net' = [net EXCEPT !.rings = FALSE]
  /\ UNCHANGED <<jobs, raced>>

NotOpen(t) ==
  /\ At(t, "not_open")
  /\ net' = [net EXCEPT !.running = FALSE]
  /\ Done(t)
  /\ UNCHANGED <<ints, jobs, raced>>

\* free_irq() waits for the handler
FreeIrq(t) ==
  /\ At(t, "free_irq")
  /\ ints.isr = "idle"
  /\ ints' = [ints EXCEPT !.irq = FALSE]
  /\ Done(t)
  /\ UNCHANGED <<net, jobs, raced>>

FreeRings(t) ==
  /\ At(t, "free_rings")
  /\ net' = [net EXCEPT !.rings = FALSE]
  /\ Done(t)
  /\ UNCHANGED <<ints, jobs, raced>>

(****************************************************************************)
(* Changes of settings, tests and questions.                                *)
(****************************************************************************)
Take(t) ==
  /\ At(t, "take")
  /\ ~net.resetting
  /\ net' = [net EXCEPT !.resetting = TRUE]
  /\ Done(t)
  /\ UNCHANGED <<ints, jobs, raced>>

\* igb_set_ringparam() exchanges the rings, or cannot
Resize(t) ==
  /\ At(t, "resize")
  /\ Done(t)
  /\ UNCHANGED <<net, ints, jobs, raced>>

Give(t) ==
  /\ At(t, "give")
  /\ net' = [net EXCEPT !.resetting = FALSE]
  /\ Done(t)
  /\ UNCHANGED <<ints, jobs, raced>>

\* igb_vlan_rx_register(), igb_vlan_rx_kill_vid()
VlanMask(t) ==
  /\ At(t, "vlan_mask")
  /\ ints' = [ints EXCEPT !.masked = Causes]
  /\ Done(t)
  /\ UNCHANGED <<net, jobs, raced>>

VlanUnmask(t) ==
  /\ At(t, "vlan_unmask")
  /\ ints' = [ints EXCEPT !.masked = IF net.down THEN @ ELSE {}]
  /\ Done(t)
  /\ UNCHANGED <<net, jobs, raced>>

(****************************************************************************)
(* Power management.  The vectors are freed, and allocated anew.            *)
(****************************************************************************)
Detach(t) ==
  /\ At(t, "detach")
  /\ net' = [net EXCEPT !.attached = FALSE]
  /\ Done(t)
  /\ UNCHANGED <<ints, jobs, raced>>

\* The link stays powered when it may wake the system
ClearScheme(t) ==
  /\ At(t, "clear_scheme")
  /\ ints' = [ints EXCEPT !.napi = "none"]
  /\ net' = [net EXCEPT !.asleep = TRUE]
  /\ raced' = (raced \/ ~Idle("task") \/ "reset" \in jobs.work)
  /\ Done(t)
  /\ UNCHANGED jobs

InitScheme(t) ==
  /\ At(t, "init_scheme")
  /\ \/ /\ ints' = [ints EXCEPT !.napi = "off"]
        /\ Expand(t, <<"reset">> \o (IF net.running THEN Open ELSE <<>>))
     \/ UNCHANGED ints /\ Become(t, <<"thaw">>)
  /\ UNCHANGED <<net, jobs, raced>>

\* The system is awake, whatever has become of the device
Thaw(t) ==
  /\ At(t, "thaw")
  /\ net' = [net EXCEPT !.asleep = FALSE]
  /\ Done(t)
  /\ UNCHANGED <<ints, jobs, raced>>

Attach(t) ==
  /\ At(t, "attach")
  /\ net' = [net EXCEPT !.attached = TRUE]
  /\ Done(t)
  /\ UNCHANGED <<ints, jobs, raced>>

(****************************************************************************)
(* igb_remove()                                                             *)
(****************************************************************************)
SetDown(t) ==
  /\ At(t, "set_down")
  /\ net' = [net EXCEPT !.down = TRUE]
  /\ Done(t)
  /\ UNCHANGED <<ints, jobs, raced>>

DelTimer(t) ==
  /\ At(t, "del_timer")
  /\ jobs' = [jobs EXCEPT !.armed = FALSE]
  /\ Done(t)
  /\ UNCHANGED <<net, ints, raced>>

\* flush_scheduled_work()
Flush(t) ==
  /\ At(t, "flush")
  /\ jobs.work = {} /\ jobs.wd = "idle" /\ Idle("task")
  /\ Done(t)
  /\ UNCHANGED <<net, ints, jobs, raced>>

Unregister(t) ==
  /\ At(t, "unregister") /\ Idle("user")
  /\ net' = [net EXCEPT !.running = FALSE, !.present = FALSE]
  /\ Become(t, (IF net.running THEN Close ELSE <<>>) \o <<"free_netdev">>)
  /\ UNCHANGED <<ints, jobs, raced>>

FreeNetdev(t) ==
  /\ At(t, "free_netdev")
  /\ ints' = [ints EXCEPT !.napi = "none"]
  /\ Done(t)
  /\ UNCHANGED <<net, jobs, raced>>

Freed == ~net.present /\ Idle("device")

(****************************************************************************)
(* Recovery from PCI errors: igb_io_error_detected(), igb_io_slot_reset()   *)
(* and igb_io_resume().  The first and the last test whether the device is  *)
(* running; between them it may have been closed.                           *)
(****************************************************************************)
ErrorDown(t) ==
  /\ At(t, "error_down")
  /\ Expand(t, IF net.running THEN Down ELSE <<>>)
  /\ UNCHANGED <<net, ints, jobs, raced>>

SlotReset(t) ==
  /\ At(t, "slot_reset")
  /\ Expand(t, <<"reset">>) \/ Become(t, <<>>)
  /\ UNCHANGED <<net, ints, jobs, raced>>

\* Mutant of IoResume: it does not ask whether the device is running
IoResumeAlways(t) ==
  /\ At(t, "io_resume")
  /\ Expand(t, Up \o <<"attach">>)
  /\ UNCHANGED <<net, ints, jobs, raced>>

IoResume(t) ==
  /\ At(t, "io_resume")
  /\ Expand(t, (IF net.running THEN Up ELSE <<>>) \o <<"attach">>)
  /\ UNCHANGED <<net, ints, jobs, raced>>

(****************************************************************************)
(* What users and the kernel call.  The net core opens, and ethtool asks    *)
(* for, attached devices only.                                              *)
(****************************************************************************)
Calls ==
  (IF net.running THEN {<<"not_open">> \o Close} ELSE {<<"dev_open">>})
    \union (IF net.attached THEN {ChangeMtu, DiagTest} \union SetSettings \union SetPauseparam
                                \union SetRingparam \union NwayReset ELSE {})
    \union {<<"vlan_mask", "vlan_unmask">>}

Call ==
  /\ net.present /\ Idle("user") /\ ~Frozen /\ ~raced
  /\ \E call \in Calls : Become("user", call)
  /\ UNCHANGED <<net, ints, jobs, raced>>

\* Processes are frozen first
Sleep ==
  /\ net.present /\ Idle("device") /\ Idle("user") /\ ~raced
  /\ Become("device", IF net.asleep THEN Resume ELSE Suspend)
  /\ UNCHANGED <<net, ints, jobs, raced>>

Detached ==
  /\ net.present /\ Idle("device") /\ ~raced
  /\ Become("device", Remove)
  /\ UNCHANGED <<net, ints, jobs, raced>>

\* A permanent failure leaves the device detached
PciError ==
  /\ net.present /\ net.attached /\ Idle("device") /\ ~raced
  /\ net' = [net EXCEPT !.attached = FALSE]
  /\ UNCHANGED todo \/ Become("device", PciRecovery)
  /\ UNCHANGED <<ints, jobs, raced>>

(****************************************************************************)
(* igb_reset_task()                                                         *)
(****************************************************************************)
ResetTask ==
  /\ "reset" \in jobs.work /\ Idle("task")
  /\ jobs' = [jobs EXCEPT !.work = @ \ {"reset"}]
  /\ Become("task", ReinitLocked)
  /\ UNCHANGED <<net, ints, raced>>

(****************************************************************************)
(* igb_watchdog_task() and its timer.  What it has learned of the link is   *)
(* told to the kernel later, and the timer is armed after __IGB_DOWN was    *)
(* tested.                                                                  *)
(****************************************************************************)
WatchdogTests ==
  /\ jobs.wd = "idle" /\ "watchdog" \in jobs.work
  /\ jobs' = [jobs EXCEPT !.work = @ \ {"watchdog"}, !.wd = IF net.down THEN "idle" ELSE "arm"]
  /\ UNCHANGED <<todo, net, ints, raced>>

WatchdogArms ==
  /\ jobs.wd = "arm"
  /\ jobs' = [jobs EXCEPT !.wd = "idle", !.armed = TRUE]
  /\ raced' = (raced \/ net.down)
  /\ UNCHANGED <<todo, net, ints>>

TimerFires ==
  /\ jobs.armed
  /\ jobs' = [jobs EXCEPT !.armed = FALSE, !.work = @ \union {"watchdog"}]
  /\ UNCHANGED <<todo, net, ints, raced>>

(****************************************************************************)
(* The NIC and its interrupts.  With the change of the link some NICs       *)
(* report that they were reset by somebody else.                            *)
(****************************************************************************)
Raised(cause) == ints.irq /\ cause \notin ints.masked

\* It reads the causes: another function's reset of an 82580, the link
MsixOther ==
  /\ Raised("other") /\ ints.isr = "idle"
  /\ \E reset \in BOOLEAN, link \in BOOLEAN :
       /\ jobs' = IF reset THEN [jobs EXCEPT !.work = @ \union {"reset"}] ELSE jobs
       /\ ints' = [ints EXCEPT !.isr = IF link /\ ~net.down THEN "arm" ELSE "end"]
       /\ raced' = (raced \/ (reset /\ net.down))
  /\ UNCHANGED <<todo, net>>

\* The timer is armed after the test, and the cause enabled whatever happened
MsixOtherEnds ==
  /\ ints.isr # "idle"
  /\ ints' = [ints EXCEPT !.isr = "idle", !.masked = @ \ {"other"}]
  /\ IF ints.isr = "arm"
     THEN jobs' = [jobs EXCEPT !.armed = TRUE] /\ raced' = (raced \/ net.down)
     ELSE UNCHANGED <<jobs, raced>>
  /\ UNCHANGED <<todo, net>>

\* A ring has something to report, or the watchdog makes it do so
MsixRing ==
  /\ Raised("ring") /\ ints.napi = "on"
  /\ ints' = [ints EXCEPT !.napi = "busy"]
  /\ UNCHANGED <<todo, net, jobs, raced>>

\* A NIC that was removed is found again
Probe ==
  /\ ~net.present /\ \A t \in Threads : Idle(t)
  /\ ~jobs.armed /\ jobs.work = {} /\ jobs.wd = "idle"
  /\ net' = NewNet /\ ints' = NewInts /\ raced' = FALSE
  /\ UNCHANGED <<todo, jobs>>

Step(t) ==
  \/ Stop(t) \/ NapiDisable(t) \/ Quiesce(t) \/ Reset(t)
  \/ Configure(t) \/ ClearDown(t) \/ NapiEnable(t) \/ Start(t) \/ StartMasked(t)
  \/ DevOpen(t) \/ SetupRings(t) \/ RequestIrq(t) \/ NotOpen(t) \/ FreeIrq(t) \/ FreeRings(t)
  \/ Take(t) \/ Resize(t) \/ Give(t)
  \/ VlanMask(t) \/ VlanUnmask(t)
  \/ Detach(t) \/ ClearScheme(t) \/ InitScheme(t) \/ Thaw(t) \/ Attach(t)
  \/ SetDown(t) \/ DelTimer(t) \/ Flush(t) \/ Unregister(t) \/ FreeNetdev(t)
  \/ ErrorDown(t) \/ SlotReset(t) \/ IoResume(t)

Watchdog == WatchdogTests \/ WatchdogArms

Next ==
  \/ \E t \in Threads : Step(t)
  \/ Call \/ Sleep \/ Detached \/ PciError
  \/ ResetTask \/ Watchdog \/ TimerFires
  \/ MsixOther \/ MsixOtherEnds \/ MsixRing
  \/ Probe

Spec == Init /\ [][Next]_vars

(****************************************************************************)
(* Properties.  `raced' sets aside the behaviours in which the driver has   *)
(* already lost a race it does not guard against: the timer armed after     *)
(* __IGB_DOWN was set, a reset task queued while the device is down or      *)
(* while its vectors are freed, a reset that ends under igb_remove().       *)
(****************************************************************************)
\* Every value is one the code gives it.
TypeOK ==
  /\ todo \in [Threads -> Seq(Steps)]
  /\ net \in NetType /\ ints \in IntsType /\ jobs \in JobsType
  /\ raced \in BOOLEAN

\* napi_enable() stops the kernel with BUG_ON() when it is called twice:
\* whatever opens, resets, wakes and repairs the device in whatever order,
\* igb_up() and igb_open() find the instances that igb_down() left disabled.
NapiPaired ==
  ~raced => \A t \in Threads : At(t, "napi_enable") => ints.napi \in {"none", "off"}

\* Whenever nobody is at work on a device that the kernel believes to be
\* running, attached and awake, it is: __IGB_DOWN is clear, the instances are
\* enabled and the handlers registered, whichever path led there and failed.
UpWorks ==
  (\A t \in Threads : Idle(t)) /\ net.present /\ net.attached /\ net.running /\ ~net.asleep
    => ~net.down /\ ints.napi \in {"on", "busy"} /\ ints.irq

\* The NIC reads and writes the memory of the rings it was told of only while
\* they are allocated, and igb_set_ringparam() exchanges the rings of a NIC
\* that has stopped.
RingsQuiet ==
  ~raced => /\ ints.dma => net.rings
            /\ \A t \in Threads : At(t, "resize") => ~ints.dma

\* After igb_remove() has freed the adapter no timer, work item, handler or
\* reset is left to use it, as the comment at its head intends.
NoLateWork ==
  Freed /\ ~raced =>
    ~jobs.armed /\ jobs.work = {} /\ jobs.wd = "idle" /\ ints.isr = "idle" /\ Idle("task")
================================================================================
