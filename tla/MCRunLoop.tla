------------------------------- MODULE MCRunLoop -------------------------------
(***************************************************************************)
(* RunLoop, for TLC, in either build: that of the configuration, or on the *)
(* Pico, where the worker beside worker 0 polls, stores become visible in  *)
(* any order, a thread or a wait group may be refused, and all shutdowns   *)
(* ask for one exit value.                                                 *)
(***************************************************************************)
EXTENDS RunLoop

VARIABLE pico

Pico == INSTANCE RunLoop WITH Polling <- TRUE, Relaxed <- TRUE, MayFail <- TRUE,
                            ExitValues <- {1}

EitherInit == Init /\ pico \in BOOLEAN
EitherNext ==
    /\ pico' = pico
    /\ \/ ~pico /\ Next
       \/ pico /\ Pico!Next

Either(A, B) == (IF pico THEN B ELSE A) /\ UNCHANGED pico
EitherFairness ==
    /\ \A r \in Runners :
         WF_<<vars, pico>>(pc[r] # "start" /\ Either(RunnerStep(r), Pico!RunnerStep(r)))
    /\ \A t \in Runners \cup Workers : WF_<<vars, pico>>(Either(WorkerStep(t), Pico!WorkerStep(t)))
    /\ \A t \in Threads : WF_<<vars, pico>>(Either(CallStep(t), Pico!CallStep(t)))

EitherSpec == EitherInit /\ [][EitherNext]_<<vars, pico>> /\ EitherFairness
=============================================================================
