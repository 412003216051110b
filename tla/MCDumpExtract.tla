---------------------------- MODULE MCDumpExtract ----------------------------
(***************************************************************************)
(* Instances of DumpExtract for TLC: one file of the main thread, one or   *)
(* two of the listener.                                                    *)
(***************************************************************************)
EXTENDS DumpExtract

TwoFiles == <<"stat", "cmdline">>
ThreeFiles == <<"stat", "cmdline", "paternity">>

WriterOfTwo == [f \in {"stat", "cmdline"} |-> IF f = "stat" THEN "main" ELSE "listener"]
WriterOfThree ==
  [f \in {"stat", "cmdline", "paternity"} |-> IF f = "stat" THEN "main" ELSE "listener"]
=============================================================================
