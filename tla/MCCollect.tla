----------------------------- MODULE MCCollect -----------------------------
(* Instances of Collect for TLC: a mandatory and an optional item; a        *)
(* directory of two files, one of which may be a FIFO, and a smaller one    *)
(* whose path has the same sanitised name.                                  *)
EXTENDS Collect

MCItems   == <<"ps", "nft">>
MCSources == {"etc/cron_d", "etc/cron/d"}
MCEntries == [s \in MCSources |-> IF s = "etc/cron_d" THEN {"a", "b"} ELSE {"a"}]
MCDest    == [s \in MCSources |-> "etc_cron_d"]

(* TLC tells states apart by this: no run reads the rows of an earlier      *)
(* run's record, and no property tells of them.                             *)
Current == <<outputs, copies, log, request, control, work, history,
             IF Saved /\ manifest.run # run THEN manifest.run ELSE manifest>>
=============================================================================
