--------------------------- MODULE MCBudgetGuard ---------------------------
(* Two paid jobs at once, which is PAID_FANOUT_CAP.                         *)
EXTENDS BudgetGuard

MCJobs == {"script", "tts"}
=============================================================================
