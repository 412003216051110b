------------------------- MODULE MCCollectorProcesses -------------------------
(***************************************************************************)
(* Casts of three for CollectorProcesses, with one dumper at most.         *)
(***************************************************************************)
EXTENDS CollectorProcesses

MCCasts ==
  {<<"collect", "collect", "probe">>, <<"probe", "collect", "collect">>,
   <<"collect", "dump", "collect">>, <<"initrd", "collect", "dump">>,
   <<"dump", "initrd", "usleep">>, <<"usleep", "collect", "dump">>,
   <<"dump", "collect", "usleep">>}

(* A dump started while a script sleeps, without a collector.               *)
MCSleeperCasts == {<<"usleep", "dump">>}
==============================================================================
