--------------------------- MODULE MCCpuScheduler ---------------------------
(* Values for the constants of CpuScheduler. *)
EXTENDS CpuScheduler

Job(t, cpu, io) == [atime |-> t, CPUB |-> cpu, IOB |-> io]

(* Short and long bursts, with an IO burst or two or none, that arrive in  *)
(* any order.                                                              *)
SomeJobs ==
    UNION {{Job(t, <<3>>, <<>>), Job(t, <<1, 2>>, <<2>>), Job(t, <<2, 1, 1>>, <<1, 1>>)}
              : t \in {0, 1, 4}}
SomeInputs == [Processes -> SomeJobs]

(* First come first served, and round robin. *)
SomeQuanta == <<100, 2, 1>>
=============================================================================
