--------------------------- MODULE MCCronService ---------------------------
(***************************************************************************)
(* A small cron service for TLC: a one-shot reminder that is due, and a    *)
(* recurring report, an agent turn, that may be added.                     *)
(***************************************************************************)
EXTENDS CronService

CONSTANTS reminder, report
=============================================================================
