---------------------------- MODULE JobScheduler ----------------------------
(***************************************************************************)
(* The automation daemon's scheduler (automation/scheduler.py): one thread *)
(* that walks the jobs serially, and for each job that is due evaluates    *)
(* the rule and runs its action, with retries, backoff, cooldown, the STOP *)
(* file and the approval gate.  The operator creates and removes the STOP  *)
(* file, edits rules.json and approves queued actions from processes of    *)
(* their own, between any two steps of the thread.                         *)
(*                                                                         *)
(* Time is a clock of DayLength ticks a day; a tick is a minute, the unit  *)
(* of a cron trigger.  An idle scheduler wakes several times a minute, so  *)
(* no tick passes while the jobs wait for a walk; ticks do pass while a    *)
(* context is built or an action runs.                                     *)
(***************************************************************************)
EXTENDS Naturals, FiniteSets, Sequences

CONSTANTS
  Jobs,       \* rule ids
  Order,      \* the sequence in which rules.json lists them
  Cron,       \* jobs with a cron trigger, the others have an interval
  At,         \* At[j]: minute of the day of a cron trigger
  Interval,   \* Interval[j]: seconds of an interval trigger, in ticks
  Cooldown,   \* Cooldown[j]: cooldown_seconds
  MaxRetries, \* MaxRetries[j]: max_retries
  HighRisk,   \* jobs with risk_tier "high"
  Broken,     \* jobs with a condition that may raise, as a bad pattern does
  NoJob,      \* "no job"
  DayLength,  \* ticks in a day
  RetryBase,  \* _RETRY_BASE_SECONDS
  RetryCap,   \* _RETRY_CAP_SECONDS
  MaxStarts   \* bound: starts of the daemon

ASSUME SchedulerAssumption ==
  /\ NoJob \notin Jobs
  /\ Order \in Seq(Jobs)
  /\ Cron \subseteq Jobs /\ HighRisk \subseteq Jobs
  /\ Broken \subseteq Jobs
  /\ DayLength \in Nat \ {0}
  /\ At \in [Jobs -> 0..DayLength - 1]
  /\ Interval \in [Jobs -> Nat \ {0}]
  /\ Cooldown \in [Jobs -> Nat]
  /\ MaxRetries \in [Jobs -> Nat]
  /\ RetryBase \in Nat \ {0} /\ RetryCap \in Nat
  /\ MaxStarts \in Nat

VARIABLES
  clock,      \* minute of the day
  stop,       \* logs/automation.STOP exists
  enabled,    \* jobs whose rule is enabled in rules.json
  pending,    \* jobs queued in automation_pending.json
  approving,  \* the job an operator's approve is executing
  pc,         \* where the scheduler thread is
  next,       \* position in Order of the job the walk looks at
  walked,     \* the jobs were walked since the last tick
  loaded,     \* jobs of the running daemon
  dry,        \* AUTOMATION_DRY_RUN of the running daemon
  sinceRun,   \* ticks since _last_run, up to the interval
  ranToday,   \* cron jobs whose _last_cron_day is today
  cooling,    \* ticks left of the cooldown of the last success
  retrying,   \* jobs with _retry_at > 0
  retryIn,    \* ticks until _retry_at
  retryCount, \* _retry_count
  starts,     \* starts of the daemon so far
  quiet,      \* ticks since the last success of each job in this life
  late        \* actions the thread began since the STOP file was created

operator == <<stop, enabled, pending, approving>>
thread   == <<pc, next, walked, loaded, dry, starts>>
timers   == <<sinceRun, ranToday, cooling, retrying, retryIn, retryCount>>
ghosts   == <<quiet, late>>
vars == <<clock, operator, thread, timers, ghosts>>

FlagsOK == stop \in BOOLEAN /\ walked \in BOOLEAN /\ dry \in BOOLEAN

FilesOK ==
  /\ enabled \subseteq Jobs /\ pending \subseteq HighRisk
  /\ approving \in HighRisk \union {NoJob}

PlaceOK ==
  /\ clock \in 0..DayLength - 1
  /\ pc \in {"down", "wait", "walk", "context", "acting", "dead"}
  /\ next \in 1..Len(Order) + 1
  /\ pc \in {"context", "acting"} => next <= Len(Order)
  /\ loaded \subseteq Jobs /\ starts \in 0..MaxStarts /\ late \in 0..2

TimersOK ==
  /\ sinceRun \in [Jobs -> Nat]
  /\ \A j \in Jobs : sinceRun[j] <= Interval[j]
  /\ cooling \in [Jobs -> Nat] /\ \A j \in Jobs : cooling[j] <= Cooldown[j]
  /\ ranToday \subseteq Cron /\ retrying \subseteq Jobs
  /\ retryIn \in [Jobs -> 0..RetryCap]
  /\ retryCount \in [Jobs -> Nat]
  /\ \A j \in Jobs : retryCount[j] <= MaxRetries[j]
  /\ quiet \in [Jobs -> Nat]

TypeOK == FlagsOK /\ FilesOK /\ PlaceOK /\ TimersOK

Init ==
  /\ clock = 0
  /\ stop = FALSE /\ enabled = Jobs /\ pending = {} /\ approving = NoJob
  /\ pc = "down" /\ next = 1 /\ walked = FALSE /\ loaded = {} /\ starts = 0
  /\ dry = FALSE
  /\ sinceRun = Interval
  /\ ranToday = {} /\ retrying = {}
  /\ cooling = [j \in Jobs |-> 0]
  /\ retryIn = [j \in Jobs |-> 0] /\ retryCount = [j \in Jobs |-> 0]
  /\ quiet = Cooldown /\ late = 0

-----------------------------------------------------------------------------
(* Time.                                                                   *)

UpTo(n, limit) == IF n < limit THEN n + 1 ELSE n
Down(n) == IF n > 0 THEN n - 1 ELSE 0

(* time.monotonic() and the UTC clock move on.                             *)
Tick ==
  /\ pc \in {"down", "context", "acting", "dead"} \/ (pc = "wait" /\ walked)
  /\ clock' = (clock + 1) % DayLength
  /\ ranToday' = IF clock' = 0 THEN {} ELSE ranToday
  /\ walked' = FALSE
  /\ sinceRun' = [j \in Jobs |-> UpTo(sinceRun[j], Interval[j])]
  /\ cooling' = [j \in Jobs |-> Down(cooling[j])]
  /\ retryIn' = [j \in Jobs |-> Down(retryIn[j])]
  /\ quiet' = [j \in Jobs |-> UpTo(quiet[j], Cooldown[j])]
  /\ UNCHANGED <<operator, pc, next, loaded, dry, starts, retrying,
                 retryCount, late>>

-----------------------------------------------------------------------------
(* The daemon.                                                             *)

(* main: load_rules keeps the enabled rules; every Job starts from scratch *)
(* and is due immediately.                                                 *)
Start ==
  /\ pc = "down" /\ starts < MaxStarts
  /\ pc' = "walk" /\ next' = 1 /\ walked' = TRUE
  /\ loaded' = enabled
  /\ dry' \in BOOLEAN
  /\ starts' = starts + 1
  /\ sinceRun' = Interval
  /\ ranToday' = {} /\ retrying' = {}
  /\ cooling' = [j \in Jobs |-> 0]
  /\ retryIn' = [j \in Jobs |-> 0] /\ retryCount' = [j \in Jobs |-> 0]
  /\ quiet' = Cooldown
  /\ UNCHANGED <<clock, operator, late>>

(* The process is killed, or told to stop between two walks.               *)
Exit ==
  /\ pc # "down"
  /\ pc' = "down" /\ next' = 1 /\ walked' = FALSE /\ loaded' = {}
  /\ UNCHANGED <<clock, operator, dry, starts, timers, ghosts>>

(* Mutant: the interval is tested before the pending retry.                *)
DueByIntervalFirst(j) ==
  \/ j \notin Cron /\ sinceRun[j] >= Interval[j] /\ cooling[j] = 0
  \/ j \in retrying /\ retryIn[j] = 0
  \/ j \in Cron /\ clock = At[j] /\ j \notin ranToday

(* Job.is_due: a pending retry supersedes cooldown and schedule.           *)
IsDue(j) ==
  IF j \in retrying THEN retryIn[j] = 0
  ELSE /\ cooling[j] = 0
       /\ IF j \in Cron THEN clock = At[j] /\ j \notin ranToday
          ELSE sinceRun[j] >= Interval[j]

(* Mutant: the pending retry is not cleared.                               *)
MarkRanOnly(j) ==
  /\ sinceRun' = [sinceRun EXCEPT ![j] = 0]
  /\ ranToday' = IF j \in Cron THEN ranToday \union {j} ELSE ranToday
  /\ UNCHANGED retrying

(* mark_ran, and the first line of fire.                                   *)
MarkRan(j) ==
  /\ sinceRun' = [sinceRun EXCEPT ![j] = 0]
  /\ ranToday' = IF j \in Cron THEN ranToday \union {j} ELSE ranToday
  /\ retrying' = retrying \ {j}

Wake ==
  /\ pc = "wait" /\ ~walked
  /\ pc' = "walk" /\ next' = 1 /\ walked' = TRUE
  /\ UNCHANGED <<clock, operator, loaded, dry, starts, timers, ghosts>>

EndWalk ==
  /\ pc = "walk" /\ next > Len(Order)
  /\ pc' = "wait" /\ next' = 1
  /\ UNCHANGED <<clock, operator, walked, loaded, dry, starts, timers, ghosts>>

SkipJob ==
  /\ pc = "walk" /\ next <= Len(Order)
  /\ Order[next] \notin loaded \/ ~IsDue(Order[next])
  /\ next' = next + 1
  /\ UNCHANGED <<clock, operator, pc, walked, loaded, dry, starts, timers,
                 ghosts>>

(* Mutant: the STOP gate is missing.                                       *)
FireIgnoringStop ==
  /\ pc = "walk" /\ next <= Len(Order)
  /\ LET j == Order[next] IN
     /\ j \in loaded /\ IsDue(j)
     /\ MarkRan(j)
  /\ pc' = "context"
  /\ UNCHANGED <<clock, operator, next, walked, loaded, dry, starts, cooling,
                 retryIn, retryCount, ghosts>>

(* A due job is marked and fired; the STOP file is looked at here, once.   *)
FireJob ==
  /\ pc = "walk" /\ next <= Len(Order)
  /\ LET j == Order[next] IN
     /\ j \in loaded /\ IsDue(j)
     /\ MarkRan(j)
  /\ IF stop THEN next' = next + 1 /\ UNCHANGED pc
             ELSE pc' = "context" /\ UNCHANGED next
  /\ UNCHANGED <<clock, operator, walked, loaded, dry, starts, cooling,
                 retryIn, retryCount, ghosts>>

Begin == late' = IF stop /\ late < 2 THEN late + 1 ELSE late

(* build_context and evaluate_rule are done: the context failed, a         *)
(* condition does not hold, the action is only logged, queued, or run.     *)
EvaluateRule ==
  /\ pc = "context"
  /\ LET j == Order[next] IN
     \/ /\ pc' = "walk" /\ next' = next + 1             \* context failed
        /\ UNCHANGED <<pending, cooling, retryCount, quiet, late>>
     \/ /\ pc' = "walk" /\ next' = next + 1             \* condition is false
        /\ retryCount' = [retryCount EXCEPT ![j] = 0]
        /\ UNCHANGED <<pending, cooling, quiet, late>>
     \/ /\ dry
        /\ pc' = "walk" /\ next' = next + 1
        /\ cooling' = [cooling EXCEPT ![j] = Cooldown[j]]
        /\ retryCount' = [retryCount EXCEPT ![j] = 0]
        /\ UNCHANGED <<pending, quiet, late>>
     \/ /\ ~dry /\ j \in HighRisk
        /\ pc' = "walk" /\ next' = next + 1
        /\ pending' = pending \union {j}
        /\ UNCHANGED <<cooling, retryCount, quiet, late>>
     \/ /\ ~dry /\ j \notin HighRisk
        /\ pc' = "acting"
        /\ Begin
        /\ UNCHANGED <<next, pending, cooling, retryCount, quiet>>
  /\ UNCHANGED <<clock, stop, enabled, approving, walked, loaded, dry, starts,
                 sinceRun, ranToday, retrying, retryIn>>

(* evaluate_rule raised, outside of the try blocks: the exception ends the *)
(* scheduler thread, while the process lives on.                           *)
ThreadDies ==
  /\ pc = "context" /\ Order[next] \in Broken
  /\ pc' = "dead" /\ next' = 1 /\ walked' = FALSE
  /\ UNCHANGED <<clock, operator, loaded, dry, starts, timers, ghosts>>

(* Mutant: a job is fired as long as it is due (while instead of if).      *)
SucceedAndRecheck ==
  /\ pc = "acting"
  /\ LET j == Order[next] IN
     /\ cooling' = [cooling EXCEPT ![j] = Cooldown[j]]
     /\ retryCount' = [retryCount EXCEPT ![j] = 0]
     /\ quiet' = [quiet EXCEPT ![j] = 0]
  /\ pc' = "walk" /\ UNCHANGED next
  /\ UNCHANGED <<clock, operator, walked, loaded, dry, starts, sinceRun,
                 ranToday, retrying, retryIn, late>>

Succeed ==
  /\ pc = "acting"
  /\ LET j == Order[next] IN
     /\ cooling' = [cooling EXCEPT ![j] = Cooldown[j]]
     /\ retryCount' = [retryCount EXCEPT ![j] = 0]
     /\ quiet' = [quiet EXCEPT ![j] = 0]
  /\ pc' = "walk" /\ next' = next + 1
  /\ UNCHANGED <<clock, operator, walked, loaded, dry, starts, sinceRun,
                 ranToday, retrying, retryIn, late>>

(* min(_RETRY_BASE_SECONDS * 2 ** n, _RETRY_CAP_SECONDS)                   *)
Backoff(n) ==
  LET seconds == RetryBase * 2^n
  IN IF seconds \in 0..RetryCap THEN seconds ELSE RetryCap

(* Mutant: the number of retries is off by one.                            *)
RetryOnceMore ==
  /\ pc = "acting"
  /\ LET j == Order[next] IN
       IF retryCount[j] <= MaxRetries[j]
       THEN /\ retrying' = retrying \union {j}
            /\ retryIn' = [retryIn EXCEPT ![j] = Backoff(retryCount[j])]
            /\ retryCount' = [retryCount EXCEPT ![j] = @ + 1]
            /\ UNCHANGED enabled
       ELSE /\ retryCount' = [retryCount EXCEPT ![j] = 0]
            /\ enabled' = enabled \ {j}
            /\ UNCHANGED <<retrying, retryIn>>
  /\ pc' = "walk" /\ next' = next + 1
  /\ UNCHANGED <<clock, stop, pending, approving, walked, loaded, dry, starts,
                 sinceRun, ranToday, cooling, quiet, late>>

(* The action raised: schedule a retry, or give up and disable the rule in *)
(* rules.json.                                                             *)
Fail ==
  /\ pc = "acting"
  /\ LET j == Order[next] IN
       IF retryCount[j] < MaxRetries[j]
       THEN /\ retrying' = retrying \union {j}
            /\ retryIn' = [retryIn EXCEPT ![j] = Backoff(retryCount[j])]
            /\ retryCount' = [retryCount EXCEPT ![j] = @ + 1]
            /\ UNCHANGED enabled
       ELSE /\ retryCount' = [retryCount EXCEPT ![j] = 0]
            /\ enabled' = IF MaxRetries[j] > 0 THEN enabled \ {j} ELSE enabled
            /\ UNCHANGED <<retrying, retryIn>>
  /\ pc' = "walk" /\ next' = next + 1
  /\ UNCHANGED <<clock, stop, pending, approving, walked, loaded, dry, starts,
                 sinceRun, ranToday, cooling, quiet, late>>

-----------------------------------------------------------------------------
(* The operator.                                                           *)

(* automation disable, automation emergency stop.                          *)
CreateStop ==
  /\ ~stop /\ stop' = TRUE /\ late' = 0
  /\ UNCHANGED <<clock, enabled, pending, approving, thread, timers, quiet>>

(* automation enable.                                                      *)
RemoveStop ==
  /\ stop /\ stop' = FALSE
  /\ UNCHANGED <<clock, enabled, pending, approving, thread, timers, ghosts>>

(* automation rule enable, automation rule disable.                        *)
SetRuleEnabled(j) ==
  /\ \/ enabled' = enabled \union {j}
     \/ enabled' = enabled \ {j}
  /\ UNCHANGED <<clock, stop, pending, approving, thread, timers, ghosts>>

(* automation approve: dispatch the action, then leave the queue.          *)
Approve(j) ==
  /\ approving = NoJob /\ j \in pending
  /\ approving' = j
  /\ UNCHANGED <<clock, stop, enabled, pending, thread, timers, ghosts>>

FinishApproval ==
  /\ approving # NoJob
  /\ pending' = pending \ {approving}
  /\ approving' = NoJob
  /\ UNCHANGED <<clock, stop, enabled, thread, timers, ghosts>>

Deny(j) ==
  /\ approving = NoJob /\ j \in pending
  /\ pending' = pending \ {j}
  /\ UNCHANGED <<clock, stop, enabled, approving, thread, timers, ghosts>>

-----------------------------------------------------------------------------
ThreadStep ==
  Wake \/ EndWalk \/ SkipJob \/ FireJob \/ EvaluateRule \/ ThreadDies
  \/ Succeed \/ Fail

OperatorStep ==
  \/ CreateStop \/ RemoveStop \/ FinishApproval
  \/ \E j \in Jobs : SetRuleEnabled(j) \/ Approve(j) \/ Deny(j)

Next == Tick \/ Start \/ Exit \/ ThreadStep \/ OperatorStep

Spec == Init /\ [][Next]_vars

(* The thread runs, actions and context builds end (they have timeouts of  *)
(* 5 to 60 seconds) and time passes.                                       *)
FairSpec == Spec /\ WF_vars(ThreadStep) /\ WF_vars(Tick)

-----------------------------------------------------------------------------
(* Properties.                                                             *)

Begins(j) == pc = "context" /\ pc' = "acting" /\ Order[next] = j

(* An action that succeeded is not begun again before its cooldown is      *)
(* over, whether the schedule or a retry asks for it, in one life of the   *)
(* daemon.                                                                 *)
CooldownHolds == [][\A j \in Jobs : Begins(j) => quiet[j] >= Cooldown[j]]_vars

(* A failed action is begun again only when its backoff is over: neither   *)
(* the shorter interval nor a STOP that comes and goes brings it forward.  *)
BackoffHolds ==
  [][\A j \in Jobs : Begins(j) => retryIn[j] = 0]_vars

(* After the STOP file was created the daemon begins at most the one       *)
(* action it was evaluating, however many jobs are due.                    *)
OneActionAfterStop == late <= 1

(* The serial loop starves no job: while the scheduler thread lives, a job *)
(* whose interval is over is fired, although other actions take their time *)
(* and although a pending retry defers the job itself.                     *)
IntervalJobsFire ==
  \A j \in Jobs \ Cron :
    j \in loaded /\ sinceRun[j] = Interval[j]
      ~> j \notin loaded \/ sinceRun[j] < Interval[j] \/ pc = "dead"

=============================================================================
