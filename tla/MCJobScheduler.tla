--------------------------- MODULE MCJobScheduler ---------------------------
(* Model-checking instances of JobScheduler: an interval job with retries  *)
(* and a cooldown, one that is due at every tick, and a daily high-risk    *)
(* job.                                                                    *)
EXTENDS JobScheduler

CONSTANTS often, slow, daily

MCOrder == <<slow, often, daily>>

MCAt         == [j \in Jobs |-> DayLength - 1]
MCInterval   == [j \in Jobs |-> IF j = slow THEN 2 ELSE 1]
MCCooldown   == [j \in Jobs |-> IF j = slow THEN 3 ELSE 0]
MCMaxRetries == [j \in Jobs |-> IF j = slow THEN 2 ELSE 0]

=============================================================================
