------------------------------ MODULE MCWorkers ------------------------------
(* The engine's two ways to run the streams, one at a time: a thread for each *)
(* PCM (SplitWorkers) with buffers of two periods and one restart, and one    *)
(* thread for both (LinkedEngine) in each of its loops, with buffers of four  *)
(* hardware periods.                                                          *)
EXTENDS SplitWorkers

CONSTANTS Modes, LinkedBuffer, Chunks, QueuePeriods, Guard, Handoff, MaxAttempts, Warmup,
          Target, Paths, MaxTries, Limit, MaxXruns

VARIABLE part    \* the one that runs
VARIABLES loop, lpc, outcome, lstop, lstarted, streamsLinked, lpcm, lwired, lqueue, lbacklog,
          path, trip, stage, attempt, tries, qualified, ready, wasReady, shown, sequence,
          periods, chunk, scratch, pending, xruns

linkedVars == <<loop, lpc, outcome, lstop, lstarted, streamsLinked, lpcm, lwired, lqueue,
                lbacklog, path, trip, stage, attempt, tries, qualified, ready, wasReady, shown,
                sequence, periods, chunk, scratch, pending, xruns>>
allVars == <<part, vars, linkedVars>>

Linked == INSTANCE LinkedEngine WITH
    Buffer <- LinkedBuffer, mode <- loop, pc <- lpc, result <- outcome, stop <- lstop,
    started <- lstarted, pcm <- lpcm, wired <- lwired, queue <- lqueue, backlog <- lbacklog

ASSUME WorkersAssumption == Linked!LinkedAssumption

WorkersInit ==
    /\ part \in {"split", "linked"}
    /\ Init /\ Linked!Init
    /\ part # "split" => mode = "linked"
    /\ part # "linked" => loop = "direct" /\ \A p \in Paths : path <= p

SplitRuns == part = "split" /\ UNCHANGED <<part, linkedVars>>
LinkedRuns == part = "linked" /\ UNCHANGED <<part, vars>>

SplitNext == SplitRuns /\ Next
LinkedNext == LinkedRuns /\ Linked!Next
WorkersNext == SplitNext \/ LinkedNext

\* The Fairness of each module, while its part runs.
WorkersFairness ==
    /\ WF_allVars(SplitRuns /\ EngineStep)
    /\ \A w \in Workers : WF_allVars(SplitRuns /\ WorkerStep(w) /\ result'[w] # "error")
    /\ WF_allVars(LinkedRuns /\ Linked!Step)
    /\ WF_allVars(LinkedRuns /\ Linked!Tick)

WorkersSpec == WorkersInit /\ [][WorkersNext]_allVars /\ WorkersFairness

-----------------------------------------------------------------------------
(* The hardware is ready only after a whole period of a start that counts.    *)
ReadyIsEarned ==
    IF part = "split" THEN ReadyIsFresh
                      ELSE Linked!TypeOK /\ Linked!ReadyIsQualified

(* Capture and playback stay together and leave nothing behind.               *)
StreamsAgree == IF part = "split" THEN WorkersAgree ELSE Linked!LinkedAgree

(* An engine that is told to stop or fails returns (WorkersEnd of             *)
(* SplitWorkers); one with a limit always does (LinkedEnds of LinkedEngine).  *)
Ending == IF part = "split" THEN stop \/ failed \/ \E w \in Workers : pc[w] = "ended" ELSE TRUE
Ended == IF part = "split" THEN run = "returned" ELSE lpc = "closed"
EnginesEnd == Ending ~> Ended
=============================================================================
