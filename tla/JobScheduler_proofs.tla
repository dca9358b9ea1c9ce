------------------------ MODULE JobScheduler_proofs ------------------------
(***************************************************************************)
(* Proofs about JobScheduler, for every set of jobs, every order of them   *)
(* and all intervals, cooldowns and retry limits: the types, the cooldown, *)
(* the backoff and the bound on actions begun under a STOP file.           *)
(***************************************************************************)
EXTENDS JobScheduler, TLAPS

(* The walk is over a list of jobs.                                        *)
LEMMA OrderType == Order \in Seq(Jobs) /\ Len(Order) \in Nat
BY SchedulerAssumption DEF SchedulerAssumption

(* The job the thread is at is one of the jobs.                            *)
LEMMA CurrentJob ==
  ASSUME PlaceOK, next <= Len(Order)
  PROVE  Order[next] \in Jobs
BY OrderType DEF PlaceOK

(* Every job has its limits.                                               *)
LEMMA LimitTypes ==
  /\ Interval \in [Jobs -> Nat] /\ Cooldown \in [Jobs -> Nat]
  /\ MaxRetries \in [Jobs -> Nat] /\ RetryCap \in Nat
BY SchedulerAssumption DEF SchedulerAssumption

(* A backoff never exceeds the cap.                                        *)
LEMMA BackoffType == ASSUME NEW n \in Nat PROVE Backoff(n) \in 0..RetryCap
BY SchedulerAssumption DEF Backoff, SchedulerAssumption

(* The clock stays within the day.                                         *)
LEMMA ClockStep ==
  /\ 0 \in 0..DayLength - 1
  /\ \A n \in Nat : n % DayLength \in 0..DayLength - 1
BY SchedulerAssumption DEF SchedulerAssumption

-----------------------------------------------------------------------------
(* The flags are Boolean.                                                  *)
LEMMA FlagsAlways == Spec => []FlagsOK
<1>1. Init => FlagsOK
  BY Zenon DEF Init, FlagsOK
<1>2. FlagsOK /\ [Next]_vars => FlagsOK'
  <2> SUFFICES ASSUME FlagsOK, [Next]_vars PROVE FlagsOK'
    OBVIOUS
  <2> USE DEF FlagsOK, vars, operator, thread, timers, ghosts
  <2>1. CASE Tick
    BY <2>1, Zenon DEF Tick
  <2>2. CASE Start
    BY <2>2, Zenon DEF Start
  <2>3. CASE Exit
    BY <2>3, Zenon DEF Exit
  <2>4. CASE Wake \/ EndWalk \/ SkipJob \/ ThreadDies
    BY <2>4, Zenon DEF Wake, EndWalk, SkipJob, ThreadDies
  <2>5. CASE FireJob
    BY <2>5, Zenon DEF FireJob
  <2>6. CASE EvaluateRule
    BY <2>6, Zenon DEF EvaluateRule
  <2>7. CASE Succeed \/ Fail
    BY <2>7, Zenon DEF Succeed, Fail
  <2>8. CASE OperatorStep
    BY <2>8, Zenon DEF OperatorStep, CreateStop, RemoveStop, SetRuleEnabled,
                       Approve, FinishApproval, Deny
  <2>9. CASE UNCHANGED vars
    BY <2>9, Zenon
  <2> QED
    BY <2>1, <2>2, <2>3, <2>4, <2>5, <2>6, <2>7, <2>8, <2>9, Zenon
       DEF Next, ThreadStep
<1> QED
  BY <1>1, <1>2, PTL DEF Spec

(* The clock and the position of the thread.                               *)
LEMMA PlaceAlways == Spec => [](FilesOK /\ PlaceOK)
<1>1. Init => FilesOK /\ PlaceOK
  BY OrderType, ClockStep, SchedulerAssumption
     DEF Init, FilesOK, PlaceOK, SchedulerAssumption
<1>2. FilesOK /\ PlaceOK /\ [Next]_vars => FilesOK' /\ PlaceOK'
  <2> SUFFICES ASSUME FilesOK, PlaceOK, [Next]_vars
               PROVE  FilesOK' /\ PlaceOK'
    OBVIOUS
  <2> USE OrderType DEF FilesOK, PlaceOK, operator, thread, timers, ghosts
  <2>1. CASE Tick
    <3>1. clock + 1 \in Nat
      BY SchedulerAssumption DEF SchedulerAssumption
    <3>2. clock' \in 0..DayLength - 1
      BY <2>1, <3>1, ClockStep DEF Tick
    <3> QED
      BY <2>1, <3>2 DEF Tick
  <2>2. CASE Start
    <3>1. starts' \in 0..MaxStarts
      BY <2>2, SchedulerAssumption DEF Start, SchedulerAssumption
    <3> QED
      BY <2>2, <3>1 DEF Start
  <2>3. CASE Exit
    BY <2>3 DEF Exit
  <2>4. CASE Wake \/ EndWalk \/ SkipJob \/ ThreadDies
    BY <2>4 DEF Wake, EndWalk, SkipJob, ThreadDies
  <2>5. CASE FireJob
    BY <2>5 DEF FireJob
  <2>6. CASE EvaluateRule
    <3>1. pending' \subseteq HighRisk
      BY <2>6 DEF EvaluateRule
    <3>2. late' \in 0..2
      BY <2>6 DEF EvaluateRule, Begin
    <3>3. /\ pc' \in {"walk", "acting"} /\ next' \in 1..Len(Order) + 1
          /\ pc' = "acting" => next' <= Len(Order)
      BY <2>6 DEF EvaluateRule
    <3> QED
      BY <2>6, <3>1, <3>2, <3>3 DEF EvaluateRule
  <2>7. CASE Succeed
    BY <2>7 DEF Succeed
  <2>8. CASE Fail
    <3>1. enabled' \subseteq Jobs
      BY <2>8 DEF Fail
    <3> QED
      BY <2>8, <3>1 DEF Fail
  <2>9. CASE OperatorStep
    <3>1. UNCHANGED <<clock, pc, next, loaded, starts>> /\ late' \in {0, late}
      BY <2>9 DEF OperatorStep, CreateStop, RemoveStop, SetRuleEnabled,
                  Approve, FinishApproval, Deny
    <3>2. enabled' \subseteq Jobs
      BY <2>9 DEF OperatorStep, CreateStop, RemoveStop, SetRuleEnabled,
                  Approve, FinishApproval, Deny
    <3>3. pending' \subseteq HighRisk /\ approving' \in HighRisk \union {NoJob}
      BY <2>9 DEF OperatorStep, CreateStop, RemoveStop, SetRuleEnabled,
                  Approve, FinishApproval, Deny
    <3> QED
      BY <3>1, <3>2, <3>3
  <2>10. CASE UNCHANGED vars
    BY <2>10 DEF vars
  <2> QED
    BY <2>1, <2>2, <2>3, <2>4, <2>5, <2>6, <2>7, <2>8, <2>9, <2>10
       DEF Next, ThreadStep
<1> QED
  BY <1>1, <1>2, PTL DEF Spec

(* The timers of the jobs.                                                 *)
LEMMA TimersAlways == Spec => []TimersOK
<1>1. Init => TimersOK
  BY LimitTypes DEF Init, TimersOK
<1>2. TimersOK /\ PlaceOK /\ [Next]_vars => TimersOK'
  <2> SUFFICES ASSUME TimersOK, PlaceOK, [Next]_vars PROVE TimersOK'
    OBVIOUS
  <2> USE LimitTypes DEF TimersOK
  <2>1. CASE Tick
    <3>1. /\ sinceRun' \in [Jobs -> Nat]
          /\ \A j \in Jobs : sinceRun'[j] <= Interval[j]
      BY <2>1 DEF Tick, UpTo
    <3>2. /\ cooling' \in [Jobs -> Nat]
          /\ \A j \in Jobs : cooling'[j] <= Cooldown[j]
      BY <2>1 DEF Tick, Down
    <3>3. retryIn' \in [Jobs -> 0..RetryCap]
      BY <2>1 DEF Tick, Down
    <3>4. quiet' \in [Jobs -> Nat]
      BY <2>1 DEF Tick, UpTo
    <3>5. ranToday' \subseteq Cron
      BY <2>1 DEF Tick
    <3> QED
      BY <2>1, <3>1, <3>2, <3>3, <3>4, <3>5 DEF Tick
  <2>2. CASE Start
    BY <2>2 DEF Start
  <2>3. CASE Exit \/ Wake \/ EndWalk \/ SkipJob \/ ThreadDies
    BY <2>3 DEF Exit, Wake, EndWalk, SkipJob, ThreadDies, timers, ghosts
  <2>4. CASE FireJob
    <3>1. Order[next] \in Jobs
      BY <2>4, CurrentJob DEF FireJob
    <3>2. /\ sinceRun' = [sinceRun EXCEPT ![Order[next]] = 0]
          /\ UNCHANGED <<cooling, retryIn, retryCount, quiet, late>>
      BY <2>4 DEF FireJob, MarkRan, ghosts
    <3>3. /\ sinceRun' \in [Jobs -> Nat]
          /\ \A j \in Jobs : sinceRun'[j] <= Interval[j]
      BY <3>1, <3>2
    <3>4. ranToday' \subseteq Cron /\ retrying' \subseteq Jobs
      BY <2>4 DEF FireJob, MarkRan
    <3> QED
      BY <3>2, <3>3, <3>4
  <2>5. CASE EvaluateRule
    <3>1. Order[next] \in Jobs
      BY <2>5, CurrentJob DEF EvaluateRule, PlaceOK
    <3> QED
      BY <2>5, <3>1 DEF EvaluateRule
  <2>6. CASE Succeed
    <3>1. Order[next] \in Jobs
      BY <2>6, CurrentJob DEF Succeed, PlaceOK
    <3> QED
      BY <2>6, <3>1 DEF Succeed
  <2>7. CASE Fail
    <3> DEFINE j == Order[next]
    <3>1. j \in Jobs
      BY <2>7, CurrentJob DEF Fail, PlaceOK
    <3>2. Backoff(retryCount[j]) \in 0..RetryCap
      BY <3>1, BackoffType
    <3>3. retrying' \subseteq Jobs /\ retryIn' \in [Jobs -> 0..RetryCap]
      BY <2>7, <3>1, <3>2 DEF Fail
    <3>4. /\ retryCount' \in [Jobs -> Nat]
          /\ \A k \in Jobs : retryCount'[k] <= MaxRetries[k]
      BY <2>7, <3>1 DEF Fail
    <3> QED
      BY <2>7, <3>3, <3>4 DEF Fail
  <2>8. CASE OperatorStep
    BY <2>8 DEF OperatorStep, CreateStop, RemoveStop, SetRuleEnabled, Approve,
                FinishApproval, Deny, timers, ghosts
  <2>9. CASE UNCHANGED vars
    BY <2>9 DEF vars, timers, ghosts
  <2> QED
    BY <2>1, <2>2, <2>3, <2>4, <2>5, <2>6, <2>7, <2>8, <2>9
       DEF Next, ThreadStep
<1> QED
  BY <1>1, <1>2, PlaceAlways, PTL DEF Spec

(* The clocks, the timers, the files and the position of the thread stay   *)
(* in their types; no rule is retried more often than its max_retries.     *)
THEOREM TypeCorrect == Spec => []TypeOK
BY FlagsAlways, PlaceAlways, TimersAlways, PTL DEF TypeOK

-----------------------------------------------------------------------------
(* What is over of a cooldown has passed since the last success, and a     *)
(* retry is pending, or a job being evaluated, only when the cooldown is   *)
(* over: a retry follows an action that was allowed to begin.  A backoff   *)
(* runs only for a pending retry.                                          *)
Waited(j) == quiet[j] >= Cooldown[j]

TimingInv ==
  \A j \in Jobs : /\ quiet[j] + cooling[j] >= Cooldown[j]
                  /\ j \in retrying => Waited(j)
                  /\ j \notin retrying => retryIn[j] = 0

(* The job in hand has waited, and its pending retry is cleared.           *)
InHand ==
  pc \in {"context", "acting"} =>
    Waited(Order[next]) /\ Order[next] \notin retrying

(* Waited and left add up, whatever the walk and the clock do.             *)
LEMMA TimingAlways == Spec => [](TimingInv /\ InHand)
<1>1. Init => TimingInv /\ InHand
  BY LimitTypes DEF Init, TimingInv, InHand, Waited
<1>2. /\ TimingInv /\ InHand /\ PlaceOK /\ TimersOK /\ [Next]_vars
      => TimingInv' /\ InHand'
  <2> SUFFICES ASSUME TimingInv, InHand, PlaceOK, TimersOK, [Next]_vars
               PROVE  TimingInv' /\ InHand'
    OBVIOUS
  <2>0. /\ quiet \in [Jobs -> Nat] /\ cooling \in [Jobs -> Nat]
        /\ retrying \subseteq Jobs /\ retryIn \in [Jobs -> 0..RetryCap]
    BY DEF TimersOK
  <2>a. pc \in {"context", "acting"} => Order[next] \in Jobs
    BY CurrentJob DEF PlaceOK
  <2> USE <2>0, <2>a, LimitTypes DEF TimingInv, InHand, Waited
  <2>1. CASE Tick
    <3>1. \A j \in Jobs : quiet'[j] + cooling'[j] >= Cooldown[j]
      BY <2>1 DEF Tick, UpTo, Down
    <3>2. \A j \in Jobs : Waited(j) => Waited(j)'
      BY <2>1 DEF Tick, UpTo
    <3>3. \A j \in Jobs : retryIn[j] = 0 => retryIn'[j] = 0
      BY <2>1 DEF Tick, Down
    <3>4. UNCHANGED <<pc, next, retrying>>
      BY <2>1 DEF Tick
    <3> QED
      BY <3>1, <3>2, <3>3, <3>4
  <2>2. CASE Start
    BY <2>2 DEF Start
  <2>3. CASE Exit \/ Wake \/ EndWalk \/ SkipJob \/ ThreadDies
    BY <2>3 DEF Exit, Wake, EndWalk, SkipJob, ThreadDies, timers, ghosts
  <2>4. CASE FireJob
    <3> DEFINE j == Order[next]
    <3>1. j \in Jobs
      BY <2>4, CurrentJob DEF FireJob
    <3>2. Waited(j)
      BY <2>4, <3>1 DEF FireJob, IsDue
    <3>3. j \notin retrying \/ retryIn[j] = 0
      BY <2>4 DEF FireJob, IsDue
    <3>4. retrying' = retrying \ {j}
      BY <2>4 DEF FireJob, MarkRan
    <3>5. /\ UNCHANGED <<cooling, retryIn, quiet>>
          /\ pc' \in {"context", "walk"} /\ (pc' = "context" => next' = next)
      BY <2>4 DEF FireJob, ghosts
    <3> QED
      BY <3>1, <3>2, <3>3, <3>4, <3>5
  <2>5. CASE EvaluateRule
    <3>1. /\ UNCHANGED <<retrying, retryIn, quiet>>
          /\ cooling' \in {cooling, [cooling EXCEPT ![Order[next]] =
                                       Cooldown[Order[next]]]}
      BY <2>5 DEF EvaluateRule
    <3>2. pc' \in {"walk", "acting"} /\ (pc' = "acting" => next' = next)
      BY <2>5 DEF EvaluateRule
    <3>3. pc = "context"
      BY <2>5 DEF EvaluateRule
    <3>4. TimingInv'
      BY <3>1, <3>3
    <3> QED
      BY <3>1, <3>2, <3>3, <3>4
  <2>6. CASE Succeed
    BY <2>6 DEF Succeed
  <2>7. CASE Fail
    BY <2>7 DEF Fail
  <2>8. CASE OperatorStep
    BY <2>8 DEF OperatorStep, CreateStop, RemoveStop, SetRuleEnabled, Approve,
                FinishApproval, Deny, thread, timers, ghosts
  <2>9. CASE UNCHANGED vars
    BY <2>9 DEF vars, thread, timers, ghosts
  <2> QED
    BY <2>1, <2>2, <2>3, <2>4, <2>5, <2>6, <2>7, <2>8, <2>9
       DEF Next, ThreadStep
<1> QED
  BY <1>1, <1>2, PlaceAlways, TimersAlways, PTL DEF Spec

(* An action begins only when the cooldown after its last success is over. *)
THEOREM CooldownAlways == Spec => CooldownHolds
<1>1. PlaceOK /\ InHand => \A j \in Jobs : Begins(j) => Waited(j)
  BY DEF InHand, Begins
<1> QED
  BY <1>1, PlaceAlways, TimingAlways, PTL DEF CooldownHolds, Waited

(* An action begins only when the backoff after its last failure is over.  *)
THEOREM BackoffAlways == Spec => BackoffHolds
<1>1. TimingInv /\ InHand => \A j \in Jobs : Begins(j) => retryIn[j] = 0
  BY DEF TimingInv, InHand, Begins
<1> QED
  BY <1>1, TimingAlways, PTL DEF BackoffHolds

-----------------------------------------------------------------------------
(* Once an action has begun under the STOP file, none is being evaluated.  *)
LateInv == late <= 1 /\ (stop /\ late = 1 => pc # "context")

(* The daemon begins at most one action after the STOP file was created.   *)
THEOREM OneActionAlways == Spec => []OneActionAfterStop
<1>1. Init => LateInv
  BY DEF Init, LateInv
<1>2. LateInv /\ PlaceOK /\ [Next]_vars => LateInv'
  <2> SUFFICES ASSUME LateInv, late \in 0..2, [Next]_vars PROVE LateInv'
    BY DEF PlaceOK
  <2> USE DEF LateInv
  <2>1. CASE Tick
    BY <2>1 DEF Tick, operator
  <2>2. CASE Start
    BY <2>2 DEF Start, operator
  <2>3. CASE Exit \/ Wake \/ EndWalk \/ SkipJob \/ ThreadDies
    BY <2>3 DEF Exit, Wake, EndWalk, SkipJob, ThreadDies, operator, ghosts
  <2>4. CASE FireJob
    BY <2>4 DEF FireJob, operator, ghosts
  <2>5. CASE EvaluateRule
    BY <2>5 DEF EvaluateRule, Begin
  <2>6. CASE Succeed \/ Fail
    BY <2>6 DEF Succeed, Fail, operator
  <2>7. CASE OperatorStep
    BY <2>7 DEF OperatorStep, CreateStop, RemoveStop, SetRuleEnabled, Approve,
                FinishApproval, Deny, thread, ghosts
  <2>8. CASE UNCHANGED vars
    BY <2>8 DEF vars, operator, thread, ghosts
  <2> QED
    BY <2>1, <2>2, <2>3, <2>4, <2>5, <2>6, <2>7, <2>8 DEF Next, ThreadStep
<1>3. LateInv => OneActionAfterStop
  BY DEF LateInv, OneActionAfterStop
<1> QED
  BY <1>1, <1>2, <1>3, PlaceAlways, PTL DEF Spec

=============================================================================
