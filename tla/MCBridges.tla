------------------------------ MODULE MCBridges ------------------------------
(* The bridges between sessions and cycles, in two parts: two sessions on the *)
(* PRO stream and a SHARED port while the cycle loops run (SessionLifecycle), *)
(* and what a bridge plays and counts when a block is missing                 *)
(* (PlaybackFallback).                                                        *)
EXTENDS SessionLifecycle, TLC

CONSTANTS pro, port, a, b,
          Bridges, MaxSessions, MaxGeneration, MaxHardware, MaxRepeats

VARIABLE part    \* the one that runs
VARIABLES bridge, session, shown, live, lifecycle, lifecycleHw, alert, outage, spc, startHw,
          drains, regions, hardware, hpc, held, visited, id, blocked, got, offered,
          lastValid, repeated, observed, scratch, heard

fallbackVars == <<bridge, session, shown, live, lifecycle, lifecycleHw, alert, outage, spc,
                  startHw, drains, regions, hardware, hpc, held, visited, id, blocked, got,
                  offered, lastValid, repeated, observed, scratch, heard>>
allVars == <<part, vars, fallbackVars>>

F == INSTANCE PlaybackFallback WITH
    cell <- shown, active <- live, generation <- lifecycle, armed <- alert, pc <- spc,
    guard <- held, seen <- visited, prepared <- offered

ASSUME BridgesAssumption == F!FallbackAssumption

BridgesInit ==
    /\ part \in {"lifecycle", "fallback"}
    /\ Init /\ F!Init
    /\ part # "lifecycle" => mode = "direct"
    /\ part # "fallback" => bridge = "pro"

LifecycleNext == part = "lifecycle" /\ UNCHANGED <<part, fallbackVars>> /\ Next
FallbackNext == part = "fallback" /\ UNCHANGED <<part, vars>> /\ F!Next
BridgesNext == LifecycleNext \/ FallbackNext

\* Nothing tells one session of the lifecycle from the other.
Alike == Permutations({a, b})

BridgesSpec == BridgesInit /\ [][BridgesNext]_allVars

-----------------------------------------------------------------------------
\* A bridge repeats only what was heard last, in the same lifecycle.
RepeatsWhatWasHeard == part = "fallback" => F!TypeOK /\ F!RepeatsWhatWasHeard

\* Every miss of a stream that was heard is counted, and once.
MissesAreCounted == part = "fallback" => F!CountedOnce /\ F!MissesAreTracked
=============================================================================
