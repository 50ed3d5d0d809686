------------------------------- MODULE MCExec -------------------------------
(***************************************************************************)
(* Instances of Exec for TLC: the scenarios that the configurations choose *)
(* from.  One with every fault and every command grows too fast, so each   *)
(* has the commands and the faults whose interplay a property is about.    *)
(***************************************************************************)
EXTENDS Exec

Scenario(faults, commands, starts, runs) ==
    [faults |-> faults, commands |-> commands, starts |-> starts, runs |-> runs]

KernelScenario  == Scenario({"kernel", "launch"}, {"run", "stop", "restart"}, 4, 3)
CrashScenario   == Scenario({"backend", "kernel"}, {"run", "stop", "restart"}, 3, 2)
SpawnScenario   == Scenario({"backend", "spawn", "launch"}, AllCommands, 2, 1)

FaultFree      == Scenario({}, {"run", "start", "restart"}, 5, 3)
ExitsInStops   == Scenario({"backend", "kernel"}, {"run", "stop"}, 3, 2)
ExitsInRestart == Scenario({"kernel"}, {"run", "restart"}, 3, 2)
CrashInRestart == Scenario({"backend"}, {"run", "restart"}, 3, 1)

RestartScenario == Scenario({"kernel"}, {"run", "restart"}, 4, 2)
ExitScenario    == Scenario({"kernel"}, {"run", "start", "restart"}, 3, 2)

AnyExit      == {KernelScenario, CrashScenario}
AnyCommand   == {SpawnScenario}
Settling     == {FaultFree, ExitsInStops, ExitsInRestart, CrashInRestart}
OnlyRestarts == {RestartScenario}
OnlyExits    == {ExitScenario}
=============================================================================
