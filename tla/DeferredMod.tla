---------------------------- MODULE DeferredMod ----------------------------
(***************************************************************************)
(* The self-arming timer, KernelModules/deferred-mod/deferred.c: the       *)
(* callback, in softirq context, arms the timer again, and timer_exit      *)
(* deletes it in process context on another CPU.                           *)
(***************************************************************************)

VARIABLES
  module,     \* out, live, or going: timer_exit has been called
  pending,    \* is the timer on a timer wheel?
  callback    \* idle, entered, or rearmed: about to return

timerVars == <<module, pending, callback>>

timer_init ==
  /\ module = "out"
  /\ module' = "live"
  /\ pending' = TRUE      \* mod_timer
  /\ UNCHANGED callback

\* Two seconds later.  A timer that is armed while its callback runs stays on
\* that CPU, so it does not expire before the callback has returned.
Expire ==
  /\ pending
  /\ callback = "idle"
  /\ pending' = FALSE
  /\ callback' = "entered"
  /\ UNCHANGED module

\* Seeded fault: the callback prints and does not arm the timer again.
FireOnce ==
  /\ callback = "entered"
  /\ callback' = "rearmed"
  /\ UNCHANGED <<module, pending>>

timer_callback ==
  /\ callback = "entered"
  /\ callback' = "rearmed"
  /\ pending' = TRUE      \* mod_timer
  /\ UNCHANGED module

CallbackReturns ==
  /\ callback = "rearmed"
  /\ callback' = "idle"
  /\ UNCHANGED <<module, pending>>

timer_exit ==
  /\ module = "live"
  /\ module' = "going"
  /\ UNCHANGED <<pending, callback>>

\* Seeded fault: del_timer, which does not wait for the callback.
DelTimer ==
  /\ module = "going"
  /\ module' = "out"
  /\ pending' = FALSE
  /\ UNCHANGED callback

\* del_timer_sync retries until it finds the callback not running; then it
\* takes the timer off the wheel and timer_exit returns.
DelTimerSync ==
  /\ module = "going"
  /\ callback = "idle"
  /\ module' = "out"
  /\ pending' = FALSE
  /\ UNCHANGED callback

TimerInit ==
  /\ module = "out"
  /\ pending = FALSE
  /\ callback = "idle"

TimerNext ==
  \/ timer_init \/ timer_exit \/ DelTimerSync
  \/ Expire \/ timer_callback \/ CallbackReturns

\* Timers expire and callbacks run.  Between two callbacks lie two seconds, in
\* which the retries of del_timer_sync find the callback idle.
TimerFairness ==
  /\ WF_timerVars(Expire)
  /\ WF_timerVars(timer_callback \/ CallbackReturns)
  /\ SF_timerVars(DelTimerSync)

-----------------------------------------------------------------------------
\* Once timer_exit has returned, and the module's code and its timer_list are
\* freed, no callback is running or will run, although the callback arms the
\* timer again behind every deletion that does not wait for it.
NoLateCallback == module = "out" => ~pending /\ callback = "idle"

\* A loaded module prints again and again, and it can always be unloaded.
TimerLives ==
  /\ module = "live" ~> (callback = "entered" \/ module # "live")
  /\ module = "going" ~> module = "out"
=============================================================================
