----------------------------- MODULE MCCommandPath -----------------------------
(* Commands due in the first two blocks of two samples, at their start and in  *)
(* their middle; and one producer alone, whatever becomes of the others.       *)
EXTENDS CommandPath

Commands == [due : {0, 1, 3}]

CONSTANT Host      \* the producer that is scheduled

\* The others may be preempted anywhere, also for ever.
HostFairSpec ==
    /\ Spec
    /\ WF_vars(AudioStep)
    /\ WF_vars(Pushing(Host))
    /\ SF_vars(Claim(Host) /\ UNCHANGED kernelVars)

\* MpscRingBuffer is documented as lock-free: a thread in push() comes out of it
\* without the help of another one.
PushReturnsAlone == push[Host] # "idle" ~> push[Host] = "idle"
=============================================================================
