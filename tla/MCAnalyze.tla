----------------------------- MODULE MCAnalyze -----------------------------
(* Instances of Analyze for TLC: two plugins whose names differ by a dot    *)
(* and an underscore and share a file; a list that repeats a third.         *)
EXTENDS Analyze

MCPlugins  == {"linux.lsof", "linux.proc.maps", "linux.proc_maps"}
MCLists    == {<<"linux.proc.maps", "linux.proc_maps">>,
               <<"linux.lsof", "linux.lsof">>}
MCOutputOf == [p \in MCPlugins |-> IF p = "linux.lsof" THEN "linux_lsof"
                                   ELSE "linux_proc_maps"]
=============================================================================
