----------------------------- MODULE ClientModes -----------------------------
(***************************************************************************)
(* The two modes of the client for model checking.  main (baseclient.cpp)  *)
(* reads the mode from the configuration, once, and runs either the pool   *)
(* session or solo mining, where the main thread only sleeps.  The         *)
(* variables of the other mode keep their initial values.                  *)
(***************************************************************************)
EXTENDS PoolSession, SoloMining

VARIABLE gMode

clientVars == <<gMode, vars, soloVars>>

PoolMode == gMode = "pool" /\ UNCHANGED <<gMode, soloVars>>
SoloMode == gMode = "solo" /\ UNCHANGED <<gMode, vars>>

ClientInit == gMode \in {"pool", "solo"} /\ Init /\ SoloInit

ClientNext == (PoolMode /\ Next) \/ (SoloMode /\ SoloNext)

\* The fairness of PoolSession!FairSpec and of SoloMining!SoloFairSpec.
ClientSpec ==
    /\ ClientInit /\ [][ClientNext]_clientVars
    /\ WF_clientVars(PoolMode /\ Loop)
    /\ SF_clientVars(PoolMode /\ MinuteTimer)
    /\ WF_clientVars(SoloMode /\ QueryAnswered)
    /\ WF_clientVars(SoloMode /\ UpdateWork)
    /\ WF_clientVars(SoloMode /\ (GetCrashes \/ GetSame \/ GetNew))
    /\ WF_clientVars(SoloMode /\ Iterate)

=============================================================================
