--------------------------- MODULE MCDailyReports ---------------------------
(***************************************************************************)
(* Instances of DailyReports for TLC.                                      *)
(***************************************************************************)
EXTENDS DailyReports

=============================================================================
