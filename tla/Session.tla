------------------------------ MODULE Session -------------------------------
(* What the two resource managers of Lab A8 have in common: a master, and  *)
(* threads that follow their scripts.                                      *)
EXTENDS Sequences, SequencesExt, ResourceClaims, SafetyCheck

CONSTANTS MaxRequests    (* bound: a script has at most so many R lines    *)

ASSUME SessionAssumption == Threads # {} /\ MaxRequests \in Nat

VARIABLES
    Avoid,       (* compiled with _DLAVOID; never changes                  *)
    mpc, tpc,    (* program counters, of the master and of the threads     *)
    held, sent   (* each thread's place in its script: what it holds by    *)
                 (* it, and how many R lines it has read                   *)

script == <<held, sent>>
=============================================================================
