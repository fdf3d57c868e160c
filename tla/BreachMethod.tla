---------------------------- MODULE BreachMethod ----------------------------
(***************************************************************************)
(* What the breach experiment promises, without saying how: the numbered   *)
(* method of the module comment of src/src/assessment/breach.rs, for a     *)
(* subsystem that has any number of experiments to run.                    *)
(*                                                                         *)
(* A secret is planted and confirmed before the intruder is let loose; a   *)
(* verdict reached without that is Unknown; whatever came of an experiment *)
(* its objects are taken away before the next one plants anything; and an  *)
(* error ends the run once they are.  The one exception is a crash while   *)
(* the intruder is at work.                                                *)
(***************************************************************************)
EXTENDS Naturals

VARIABLES
  step,      \* what the method is at
  left,      \* how many experiments there are still to run, this one included
  level,     \* the verdict of the current experiment, or "open", or "error"
  confirmed  \* whether the secret of the current experiment is confirmed

mvars == <<step, left, level, confirmed>>

MInit ==
  /\ step = "plant"
  /\ left \in Nat \ {0}
  /\ level = "open"
  /\ confirmed = FALSE

\* 1 and 2.  Only a confirmed secret leads on to the attempt.
PlantAndConfirm ==
  /\ step = "plant"
  /\ step' = "attempt"
  /\ confirmed' = TRUE
  /\ UNCHANGED <<left, level>>

NothingPlanted ==
  /\ step = "plant"
  /\ step' = "clean"
  /\ level' = "Unknown"
  /\ UNCHANGED <<left, confirmed>>

\* 3 and 4, a refusal to let the intruder try included.
AttemptAndJudge ==
  /\ step = "attempt"
  /\ confirmed
  /\ step' = "clean"
  /\ level' \in {"None", "Unknown", "Soft", "Hard"}
  /\ UNCHANGED <<left, confirmed>>

RunFails ==
  /\ step \in {"plant", "attempt"}
  /\ step' = "clean"
  /\ level' = "error"
  /\ confirmed' = FALSE
  /\ UNCHANGED left

Cleaned ==
  /\ step = "clean"
  /\ IF level # "error" /\ left > 1
       THEN /\ step' = "plant"
            /\ left' = left - 1
            /\ level' = "open"
            /\ confirmed' = FALSE
       ELSE /\ step' = "over"
            /\ UNCHANGED <<left, level, confirmed>>

Crash ==
  /\ step = "attempt"
  /\ step' = "over"
  /\ UNCHANGED <<left, level, confirmed>>

MNext ==
  \/ PlantAndConfirm \/ NothingPlanted
  \/ AttemptAndJudge
  \/ RunFails
  \/ Cleaned
  \/ Crash

Safety == MInit /\ [][MNext]_mvars

Spec == Safety /\ WF_mvars(MNext)

=============================================================================
