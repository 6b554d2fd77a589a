--------------------------- MODULE TimedRotation ---------------------------
(***************************************************************************)
(* KeyRotation with time: does the rotation finish before the active key   *)
(* expires, and does the prover get attested at all?                       *)
(*                                                                         *)
(* Time passes only where monitor_attested waits: in a sleep between two   *)
(* iterations and while a transaction is being mined, at most MaxPause     *)
(* units in each such wait (the sleeps are min(60, validity/2), 5 and 1    *)
(* seconds; an RPC is fast against them).  Both clocks agree, and the      *)
(* owner leaves the validity period alone.                                 *)
(***************************************************************************)
EXTENDS KeyRotation

CONSTANT MaxPause   \* the longest sleep, and the longest a transaction takes to be mined

ASSUME PauseAssumption == MaxPause \in Nat \ {0}

VARIABLE paused     \* how long the monitor has been in its current wait

timedVars == <<vars, paused>>

\* A unit of time passes while the monitor waits; a monitor that has ended waits forever.
Pause ==
    /\ mpc \in {"loop", "await", "done"}
    /\ paused < MaxPause \/ mpc = "done"
    /\ clock < MaxTime
    /\ clock' = clock + 1
    /\ NewBlock
    /\ paused' = IF mpc = "done" THEN paused ELSE paused + 1
    /\ UNCHANGED <<alive, keyVars, monitorVars, txVars, workerVars, disruptions>>

TimedMonitor == MonitorStep /\ paused' = 0

TimedWorker(w) == WorkerStep(w) /\ UNCHANGED paused

Mined == \E k \in Key : MineAttest(k) /\ UNCHANGED paused

Bystanders ==
    /\ \/ \E k \in Key : Replay(k)
       \/ \E id \in BatchId, poe \in poes : Commit(id, poe)
       \/ Shutdown
       \/ Ended
    /\ UNCHANGED paused

TimedInit == Init /\ paused = 0

TimedNext ==
    \/ TimedMonitor
    \/ \E w \in Worker : TimedWorker(w)
    \/ Mined
    \/ Bystanders
    \/ Pause

TimedSpec == TimedInit /\ [][TimedNext]_timedVars

\* Threads are scheduled, a sent transaction is mined, and every sleep takes time; a
\* request need not come.
Fairness ==
    /\ WF_timedVars(TimedMonitor)
    /\ \A w \in Worker : WF_timedVars(TimedWorker(w) /\ wpc[w] # "idle")
    /\ \A w \in Worker : WF_timedVars(W_Stop(w) /\ UNCHANGED paused)
    /\ WF_timedVars(Mined)
    /\ SF_timedVars(Pause)

FairTimedSpec == TimedSpec /\ Fairness

Half == DefaultValidity \div 2

\* What one failure costs at most: waiting for the receipt, a sleep, and the cooldown.
Retry == 2 * MaxPause + SubmitCooldown

\* A rotation begins when half of the period has passed; three waits and every failure fit
\* into the rest of it.
RotationFits ==
    /\ GenesisTime <= MaxTime
    /\ MaxTime + DefaultValidity <= MaxUint
    /\ DefaultValidity <= MaxU64
    /\ MaxPause + SubmitCooldown <= Half
    /\ Half + 3 * MaxPause + MaxDisruptions * Retry < DefaultValidity

----------------------------------------------------------------------------
\* While the app runs, an attested flag means that commitBatch would accept a PoE signed
\* with the active key right now: the next key is registered and installed before the
\* old one expires, the flag left alone while a key is staged included.
AttestedMeansAccepted == alive /\ attested => Accepted(prvkey)

\* The prover becomes attested (README: Wait for "prover[..] is attested" to appear),
\* unless it is shut down first.
EventuallyAttested == <>(attested \/ ~alive)

\* A batch task that waits in wait_attested is released: the flag comes up, or the
\* shutdown cancels it.
TaskReleased == (wpc["task"] = "wait") ~> (wpc["task"] # "wait")

\* After App::terminate every thread ends: no sleep, receipt or mutex holds one for ever.
ShutdownCompletes ==
    ~alive ~> ((mpc = "done" \/ OutOfKeys) /\ \A w \in Worker : wpc[w] = "done")
=============================================================================
