---------------------------- MODULE MCTimerQueue ----------------------------
(* A loop with its timers and other threads.  A behaviour looks either at   *)
(* functors, with all the threads and few of the timers at one instant, or  *)
(* at timers, with few of the threads and no functors of the user over all  *)
(* instants, when nobody quits and few of the timers are cancelled.  What   *)
(* is left out are calls that nobody has to make.                           *)
EXTENDS TimerQueue

CONSTANTS FewThreads, FewTimers

VARIABLE focus

InitMC ==
    /\ Init
    /\ \/ focus = "functors" /\ clock = MaxTime
       \/ focus = "timers" /\ clock = 1

InFocus ==
    /\ focus = "functors" => \A t \in Timer \ FewTimers : life[t] = "none"
    /\ focus = "timers" =>
          /\ waking \subseteq FewThreads /\ asked \subseteq FewTimers
          /\ ~isQuit /\ Queued \cup Range(ran) = {}

NextMC == Next /\ UNCHANGED focus /\ InFocus'

SpecMC == InitMC /\ [][NextMC]_<<focus, vars>> /\ Fairness
=============================================================================
