---------------------------- MODULE MCCronService ----------------------------
(* TLC instances of CronService. *)
EXTENDS CronService

\* A job every two ticks, a one-shot at tick 2 and a cron slot every two ticks.
MCKind == [j \in Jobs |-> CASE j = "every" -> "every" [] j = "once" -> "at" [] j = "slot" -> "cron"]
MCWhen == [j \in Jobs |-> 2]
MCBackoff == <<1, 2>>

\* Every manual run is of the recurring job.
MCJobOf == [m \in Manuals |-> "every"]
=============================================================================
