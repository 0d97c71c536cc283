---------------------------- MODULE RipJobsProofs ----------------------------
(***************************************************************************)
(* Proofs about RipJobs for every number of jobs and every assignment of   *)
(* targets to them.  EntriesAreLive and OneTerminalEvent are inductive on  *)
(* top of the types; the two statements about outcomes need CancelRecorded *)
(* (a flag that is set was accepted, and what was read of it was set) and  *)
(* RunRecorded (a job past its run has a result).                          *)
(***************************************************************************)
EXTENDS RipJobs, TLAPS

\* What is known of the cancellation flag and its copies.
CancelRecorded ==
    /\ \A j \in Job : cancelled[j] <=> j \in accepted
    /\ \A j \in Job : sawCancel[j] => cancelled[j]

\* A job between the end of run_job and its settlement has a result.
RunRecorded ==
    \A j \in Job : pc[j] \in {"unlink", "notify", "check", "settle"} => result[j] # "none"

\* The inductive invariant.
JobsInv ==
    /\ TypeOK
    /\ EntriesAreLive
    /\ AcceptedCancelWins
    /\ OneTerminalEvent
    /\ OutcomeMatchesRun
    /\ CancelRecorded
    /\ RunRecorded

-----------------------------------------------------------------------------

\* The types hold when the orchestrator is created.
LEMMA InitTypeOK == Init => TypeOK
BY DEF Init, TypeOK, Terminal

\* A terminal state and its event have their types whatever was asked for.
LEMMA TerminalizeType ==
    ASSUME TypeOK, NEW j \in Job, NEW state \in Terminal, Terminalize(j, state)
    PROVE  /\ terminal' \in [Job -> Terminal \cup {"none"}]
           /\ events' \in [Job -> Seq(Terminal)]
<1>1. CASE terminal[j] # "none"
  BY <1>1 DEF Terminalize, TypeOK
<1>2. CASE terminal[j] = "none"
  <2>1. PICK final \in Terminal : /\ terminal' = [terminal EXCEPT ![j] = final]
                                  /\ events' = [events EXCEPT ![j] = Append(@, final)]
    BY <1>2 DEF Terminalize, Terminal
  <2>2. Append(events[j], final) \in Seq(Terminal)
    BY <2>1 DEF TypeOK
  <2> QED  BY <2>1, <2>2 DEF TypeOK
<1> QED  BY <1>1, <1>2

\* No action leaves the types.
LEMMA NextTypeOK == TypeOK /\ [Next]_vars => TypeOK'
<1> SUFFICES ASSUME TypeOK, [Next]_vars PROVE TypeOK'
  OBVIOUS
<1>1. CASE UNCHANGED vars
  BY <1>1 DEF TypeOK, vars
<1>2. ASSUME NEW j \in Job, Create(j) PROVE TypeOK'
  BY <1>2 DEF TypeOK, Create
<1>3. ASSUME NEW j \in Job, Lookup(j) PROVE TypeOK'
  <2>1. CASE UNCHANGED <<waitsFor, woken>> /\ pc' = [pc EXCEPT ![j] = "claim"]
    BY <1>3, <2>1 DEF TypeOK, Lookup
  <2>2. ASSUME NEW n \in 1 .. Len(Targets[j]),
               waitsFor' = [waitsFor EXCEPT ![j] = inflight[Targets[j][n]]],
               woken' = [woken EXCEPT ![j] = FALSE],
               pc' = [pc EXCEPT ![j] = "found"]
        PROVE TypeOK'
    <3>1. Targets[j][n] \in Key
      BY JobsAssumption
    <3> QED  BY <1>3, <2>2, <3>1 DEF TypeOK, Lookup
  <2> QED  BY <1>3, <2>1, <2>2 DEF Lookup
<1>4. ASSUME NEW j \in Job, Claim(j) PROVE TypeOK'
  BY <1>4 DEF TypeOK, Claim
<1>5. ASSUME NEW j \in Job, Register(j) PROVE TypeOK'
  BY <1>5 DEF TypeOK, Register
<1>6. ASSUME NEW j \in Job, WakeUp(j) PROVE TypeOK'
  BY <1>6 DEF TypeOK, WakeUp
<1>7. ASSUME NEW j \in Job, CancelWaiting(j) PROVE TypeOK'
  BY <1>7, TerminalizeType DEF TypeOK, CancelWaiting, Terminal
<1>8. ASSUME NEW j \in Job, Run(j) PROVE TypeOK'
  BY <1>8 DEF TypeOK, Run
<1>9. ASSUME NEW j \in Job, Unlink(j) PROVE TypeOK'
  BY <1>9 DEF TypeOK, Unlink
<1>10. ASSUME NEW j \in Job, NotifyWaiters(j) PROVE TypeOK'
  BY <1>10 DEF TypeOK, NotifyWaiters
<1>11. ASSUME NEW j \in Job, ReadCancelled(j) PROVE TypeOK'
  BY <1>11 DEF TypeOK, ReadCancelled
<1>12. ASSUME NEW j \in Job, Settle(j) PROVE TypeOK'
  <2>1. PICK state \in Terminal : Terminalize(j, state)
    BY <1>12 DEF Settle, Terminal
  <2> QED  BY <1>12, <2>1, TerminalizeType DEF TypeOK, Settle
<1>13. ASSUME NEW j \in Job, Remove(j) PROVE TypeOK'
  BY <1>13 DEF TypeOK, Remove
<1>14. ASSUME NEW j \in Job, CancelTask(j) PROVE TypeOK'
  BY <1>14 DEF TypeOK, CancelTask
<1> QED
  BY <1>1, <1>2, <1>3, <1>4, <1>5, <1>6, <1>7, <1>8, <1>9, <1>10, <1>11, <1>12, <1>13, <1>14
  DEF Next, StartTask

-----------------------------------------------------------------------------

\* The invariant holds when the orchestrator is created.
LEMMA InitJobsInv == Init => JobsInv
<1> SUFFICES ASSUME Init PROVE JobsInv
  OBVIOUS
<1>1. TypeOK
  BY InitTypeOK
<1>2. EntriesAreLive /\ AcceptedCancelWins /\ OneTerminalEvent
  BY DEF Init, EntriesAreLive, AcceptedCancelWins, OneTerminalEvent
<1>3. OutcomeMatchesRun /\ CancelRecorded /\ RunRecorded
  BY DEF Init, OutcomeMatchesRun, CancelRecorded, RunRecorded
<1> QED  BY <1>1, <1>2, <1>3 DEF JobsInv

\* What the first terminal transition of a job does to its outcome, given
\* that the state asked for matches the run.
LEMMA TerminalizeOutcome ==
    ASSUME JobsInv, NEW j \in Job, NEW state \in Terminal, Terminalize(j, state),
           terminal[j] = "none",
           ~cancelled[j] => /\ state = "completed" => result[j] = "ok"
                            /\ state = "failed" => result[j] = "err"
                            /\ state # "cancelled"
                            /\ result[j] # "none"
    PROVE  /\ \A i \in Job : i # j => terminal'[i] = terminal[i] /\ events'[i] = events[i]
           /\ terminal'[j] \in Terminal
           /\ events'[j] = <<terminal'[j]>>
           /\ j \in accepted => terminal'[j] = "cancelled"
           /\ terminal'[j] = "completed" => result[j] = "ok"
           /\ terminal'[j] = "failed" => result[j] = "err"
           /\ result[j] = "none" => j \in accepted
<1>1. TypeOK /\ CancelRecorded /\ events[j] = <<>>
  BY DEF JobsInv, OneTerminalEvent
<1>2. PICK final \in Terminal :
         /\ final = IF cancelled[j] THEN "cancelled" ELSE state
         /\ terminal' = [terminal EXCEPT ![j] = final]
         /\ events' = [events EXCEPT ![j] = Append(@, final)]
  BY DEF Terminalize, Terminal
<1>3. Append(events[j], final) = <<final>>
  BY <1>1
<1>4. /\ terminal'[j] = final
      /\ events'[j] = <<final>>
      /\ \A i \in Job : i # j => terminal'[i] = terminal[i] /\ events'[i] = events[i]
  BY <1>1, <1>2, <1>3 DEF TypeOK
<1> QED  BY <1>1, <1>2, <1>4 DEF CancelRecorded, Terminal, TypeOK

\* A step that settles job j as above and moves it to "remove" keeps the
\* invariant: the two callers of terminalize in start_task.
LEMMA SettlingStep ==
    ASSUME JobsInv, TypeOK', NEW j \in Job, pc[j] \in {"waiting", "settle"},
           NEW state \in Terminal, Terminalize(j, state),
           pc' = [pc EXCEPT ![j] = "remove"],
           UNCHANGED <<inflight, cancelled, accepted, result, sawCancel>>,
           ~cancelled[j] => /\ state = "completed" => result[j] = "ok"
                            /\ state = "failed" => result[j] = "err"
                            /\ state # "cancelled"
                            /\ result[j] # "none"
    PROVE  JobsInv'
<1> USE DEF JobsInv
<1>1. TypeOK /\ terminal[j] = "none"
  BY DEF OneTerminalEvent
<1>2. /\ \A i \in Job : i # j => terminal'[i] = terminal[i] /\ events'[i] = events[i]
      /\ terminal'[j] \in Terminal
      /\ events'[j] = <<terminal'[j]>>
      /\ j \in accepted => terminal'[j] = "cancelled"
      /\ terminal'[j] = "completed" => result[j] = "ok"
      /\ terminal'[j] = "failed" => result[j] = "err"
      /\ result[j] = "none" => j \in accepted
  BY <1>1, TerminalizeOutcome
<1>3. pc'[j] = "remove" /\ \A i \in Job : i # j => pc'[i] = pc[i]
  BY <1>1 DEF TypeOK
<1>4. EntriesAreLive'
  BY <1>1, <1>3 DEF EntriesAreLive, Running, TypeOK
<1>5. AcceptedCancelWins'
  BY <1>1, <1>2 DEF AcceptedCancelWins, TypeOK
<1>6. OneTerminalEvent'
  BY <1>2, <1>3 DEF OneTerminalEvent, Terminal
<1>7. OutcomeMatchesRun'
  BY <1>2 DEF OutcomeMatchesRun
<1>8. CancelRecorded' /\ RunRecorded'
  BY <1>3 DEF CancelRecorded, RunRecorded
<1> QED  BY <1>4, <1>5, <1>6, <1>7, <1>8

\* A step of start_task that only moves job j on, and settles nothing,
\* keeps everything that is said of outcomes.
LEMMA MovingStep ==
    ASSUME JobsInv, TypeOK', NEW j \in Job, NEW next,
           pc[j] \notin {"remove", "returned"}, next \notin {"remove", "returned"},
           pc' = [pc EXCEPT ![j] = next],
           next \in {"unlink", "notify", "check", "settle"} => result'[j] # "none",
           \A i \in Job : i # j => result'[i] = result[i],
           UNCHANGED <<cancelled, accepted, terminal, events>>,
           \A i \in Job : sawCancel'[i] => cancelled[i]
    PROVE  /\ AcceptedCancelWins' /\ OneTerminalEvent' /\ OutcomeMatchesRun'
           /\ CancelRecorded' /\ RunRecorded'
<1> USE DEF JobsInv
<1>1. pc'[j] = next /\ \A i \in Job : i # j => pc'[i] = pc[i]
  BY DEF TypeOK
<1>2. terminal[j] = "none"
  BY DEF OneTerminalEvent
<1>3. AcceptedCancelWins'
  BY DEF AcceptedCancelWins
<1>4. OneTerminalEvent'
  BY <1>1, <1>2 DEF OneTerminalEvent
<1>5. OutcomeMatchesRun'
  BY <1>2 DEF OutcomeMatchesRun
<1>6. CancelRecorded' /\ RunRecorded'
  BY <1>1 DEF CancelRecorded, RunRecorded
<1> QED  BY <1>3, <1>4, <1>5, <1>6

\* Every step preserves the invariant.
LEMMA NextJobsInv == JobsInv /\ [Next]_vars => JobsInv'
<1> SUFFICES ASSUME JobsInv, [Next]_vars PROVE JobsInv'
  OBVIOUS
<1>0. TypeOK /\ TypeOK' /\ JobsInv
  BY NextTypeOK DEF JobsInv
<1>1. CASE UNCHANGED vars
  BY <1>0, <1>1 DEF JobsInv, vars, EntriesAreLive, Running, AcceptedCancelWins, OneTerminalEvent,
     OutcomeMatchesRun, CancelRecorded, RunRecorded
<1>2. ASSUME NEW j \in Job, Create(j) PROVE JobsInv'
  <2>1. EntriesAreLive'
    BY <1>0, <1>2 DEF Create, JobsInv, EntriesAreLive, Running, TypeOK
  <2> QED  BY <1>0, <1>2, <2>1, MovingStep DEF Create, JobsInv, CancelRecorded
<1>3. ASSUME NEW j \in Job, Lookup(j) PROVE JobsInv'
  <2>1. PICK next \in {"claim", "found"} : pc' = [pc EXCEPT ![j] = next]
    BY <1>3 DEF Lookup
  <2>2. EntriesAreLive'
    BY <1>0, <1>3, <2>1 DEF Lookup, JobsInv, EntriesAreLive, Running, TypeOK
  <2>3. pc[j] = "lookup" /\ UNCHANGED <<cancelled, accepted, result, sawCancel, terminal, events>>
    BY <1>3 DEF Lookup
  <2> QED  BY <1>0, <2>1, <2>2, <2>3, MovingStep DEF JobsInv, CancelRecorded
<1>4. ASSUME NEW j \in Job, Claim(j) PROVE JobsInv'
  <2>1. EntriesAreLive'
    BY <1>0, <1>4, JobsAssumption DEF Claim, JobsInv, EntriesAreLive, Running, TypeOK
  <2> QED  BY <1>0, <1>4, <2>1, MovingStep DEF Claim, JobsInv, CancelRecorded
<1>5. ASSUME NEW j \in Job, Register(j) PROVE JobsInv'
  <2>1. EntriesAreLive'
    BY <1>0, <1>5 DEF Register, JobsInv, EntriesAreLive, Running, TypeOK
  <2> QED  BY <1>0, <1>5, <2>1, MovingStep DEF Register, JobsInv, CancelRecorded
<1>6. ASSUME NEW j \in Job, WakeUp(j) PROVE JobsInv'
  <2>1. EntriesAreLive'
    BY <1>0, <1>6 DEF WakeUp, JobsInv, EntriesAreLive, Running, TypeOK
  <2> QED  BY <1>0, <1>6, <2>1, MovingStep DEF WakeUp, JobsInv, CancelRecorded
<1>7. ASSUME NEW j \in Job, CancelWaiting(j) PROVE JobsInv'
  BY <1>0, <1>7, SettlingStep DEF CancelWaiting, Terminal
<1>8. ASSUME NEW j \in Job, Run(j) PROVE JobsInv'
  <2>1. EntriesAreLive'
    BY <1>0, <1>8 DEF Run, JobsInv, EntriesAreLive, Running, TypeOK
  <2>2. result'[j] # "none" /\ \A i \in Job : i # j => result'[i] = result[i]
    BY <1>0, <1>8 DEF Run, TypeOK
  <2> QED  BY <1>0, <1>8, <2>1, <2>2, MovingStep DEF Run, JobsInv, CancelRecorded
<1>9. ASSUME NEW j \in Job, Unlink(j) PROVE JobsInv'
  <2>1. EntriesAreLive'
    BY <1>0, <1>9 DEF Unlink, JobsInv, EntriesAreLive, Running, TypeOK
  <2>2. result[j] # "none"
    BY <1>0, <1>9 DEF Unlink, JobsInv, RunRecorded
  <2> QED  BY <1>0, <1>9, <2>1, <2>2, MovingStep DEF Unlink, JobsInv, CancelRecorded
<1>10. ASSUME NEW j \in Job, NotifyWaiters(j) PROVE JobsInv'
  <2>1. EntriesAreLive'
    BY <1>0, <1>10 DEF NotifyWaiters, JobsInv, EntriesAreLive, Running, TypeOK
  <2>2. result[j] # "none"
    BY <1>0, <1>10 DEF NotifyWaiters, JobsInv, RunRecorded
  <2> QED  BY <1>0, <1>10, <2>1, <2>2, MovingStep DEF NotifyWaiters, JobsInv, CancelRecorded
<1>11. ASSUME NEW j \in Job, ReadCancelled(j) PROVE JobsInv'
  <2>1. EntriesAreLive'
    BY <1>0, <1>11 DEF ReadCancelled, JobsInv, EntriesAreLive, Running, TypeOK
  <2>2. result[j] # "none"
    BY <1>0, <1>11 DEF ReadCancelled, JobsInv, RunRecorded
  <2>3. \A i \in Job : sawCancel'[i] => cancelled[i]
    BY <1>0, <1>11 DEF ReadCancelled, JobsInv, CancelRecorded, TypeOK
  <2> QED  BY <1>0, <1>11, <2>1, <2>2, <2>3, MovingStep DEF ReadCancelled, JobsInv
<1>12. ASSUME NEW j \in Job, Settle(j) PROVE JobsInv'
  <2> DEFINE state == IF sawCancel[j] THEN "cancelled"
                      ELSE IF result[j] = "ok" THEN "completed" ELSE "failed"
  <2>1. /\ pc[j] = "settle" /\ Terminalize(j, state) /\ pc' = [pc EXCEPT ![j] = "remove"]
        /\ UNCHANGED <<inflight, cancelled, accepted, result, sawCancel>>
    BY <1>12 DEF Settle
  <2>2. state \in Terminal
    BY DEF Terminal
  <2>3. result[j] \in {"ok", "err"}
    BY <1>0, <2>1 DEF JobsInv, RunRecorded, TypeOK
  <2>4. sawCancel[j] => cancelled[j]
    BY <1>0 DEF JobsInv, CancelRecorded
  <2>5. ~cancelled[j] => /\ state = "completed" => result[j] = "ok"
                         /\ state = "failed" => result[j] = "err"
                         /\ state # "cancelled"
                         /\ result[j] # "none"
    BY <2>3, <2>4
  <2> HIDE DEF state
  <2> QED  BY <1>0, <2>1, <2>2, <2>5, SettlingStep
<1>13. ASSUME NEW j \in Job, Remove(j) PROVE JobsInv'
  <2>1. EntriesAreLive'
    BY <1>0, <1>13 DEF Remove, JobsInv, EntriesAreLive, Running, TypeOK
  <2>2. OneTerminalEvent'
    BY <1>0, <1>13 DEF Remove, JobsInv, OneTerminalEvent, TypeOK
  <2>3. AcceptedCancelWins' /\ OutcomeMatchesRun' /\ CancelRecorded'
    BY <1>0, <1>13 DEF Remove, JobsInv, AcceptedCancelWins, OutcomeMatchesRun, CancelRecorded
  <2>4. RunRecorded'
    BY <1>0, <1>13 DEF Remove, JobsInv, RunRecorded, TypeOK
  <2> QED  BY <1>0, <2>1, <2>2, <2>3, <2>4 DEF JobsInv
<1>14. ASSUME NEW j \in Job, CancelTask(j) PROVE JobsInv'
  <2>1. EntriesAreLive' /\ OneTerminalEvent' /\ RunRecorded'
    BY <1>0, <1>14 DEF CancelTask, JobsInv, EntriesAreLive, Running, OneTerminalEvent, RunRecorded
  <2>2. AcceptedCancelWins' /\ OutcomeMatchesRun'
    BY <1>0, <1>14 DEF CancelTask, JobsInv, AcceptedCancelWins, OutcomeMatchesRun
  <2>3. CancelRecorded'
    BY <1>0, <1>14 DEF CancelTask, JobsInv, CancelRecorded, TypeOK
  <2> QED  BY <1>0, <2>1, <2>2, <2>3 DEF JobsInv
<1> QED
  BY <1>1, <1>2, <1>3, <1>4, <1>5, <1>6, <1>7, <1>8, <1>9, <1>10, <1>11, <1>12, <1>13, <1>14
  DEF Next, StartTask

\* The invariant holds in every state of start_task and cancel_task.
THEOREM JobsInvariant == Spec => []JobsInv
BY InitJobsInv, NextJobsInv, PTL DEF Spec

\* start_task and cancel_task keep the types of the orchestrator's tables.
THEOREM JobsTypeCorrect == Spec => []TypeOK
BY InitTypeOK, NextTypeOK, PTL DEF Spec

\* The in-flight table never names a job that is past its run, however many
\* jobs overwrite each other's entries.
THEOREM JobsEntriesAreLive == Spec => []EntriesAreLive
<1>1. JobsInv => EntriesAreLive
  BY DEF JobsInv
<1> QED  BY <1>1, JobsInvariant, PTL

\* cancel_task's "true" is binding: the job ends as cancelled or not at all.
THEOREM JobsAcceptedCancelWins == Spec => []AcceptedCancelWins
<1>1. JobsInv => AcceptedCancelWins
  BY DEF JobsInv
<1> QED  BY <1>1, JobsInvariant, PTL

\* terminalize emits one event per job, exactly when the job is settled.
THEOREM JobsOneTerminalEvent == Spec => []OneTerminalEvent
<1>1. JobsInv => OneTerminalEvent
  BY DEF JobsInv
<1> QED  BY <1>1, JobsInvariant, PTL

\* The terminal state is the result of the run, or an accepted cancellation.
THEOREM JobsOutcomeMatchesRun == Spec => []OutcomeMatchesRun
<1>1. JobsInv => OutcomeMatchesRun
  BY DEF JobsInv
<1> QED  BY <1>1, JobsInvariant, PTL

=============================================================================
