----------------------------- MODULE FrontEnds -----------------------------
(***************************************************************************)
(* Either of the two solver processes, find_fpga_hash and                  *)
(* perfect_fpga_hash, with what a script that runs them relies on.         *)
(***************************************************************************)
EXTENDS ResultLog

CONSTANT maxTries    \* of perfect_fpga_hash

ASSUME FrontEndsAssumption == maxTries \in Nat

VARIABLES maxTime, limited, handled, result, pc, status,
          method, context,          \* of find_fpga_hash alone
          verbose, tries, closed,   \* of perfect_fpga_hash alone
          tool                      \* the program that runs

findOnly    == <<method, context>>
perfectOnly == <<verbose, tries, closed>>
frontVars   == <<streams, maxTime, limited, handled, result, pc, status,
                 findOnly, perfectOnly, tool>>

Find    == INSTANCE FindFpgaHash
Perfect == INSTANCE PerfectFpgaHash

FrontInit ==
    \/ /\ tool = "find"
       /\ Find!Init
       /\ verbose = FALSE /\ tries = 1 /\ closed = FALSE
    \/ /\ tool = "perfect"
       /\ Perfect!Init
       /\ method = "minisat" /\ context = FALSE

FrontNext ==
    \/ tool = "find" /\ Find!Next /\ UNCHANGED <<perfectOnly, tool>>
    \/ tool = "perfect" /\ Perfect!Next /\ UNCHANGED <<findOnly, tool>>

FrontSpec == FrontInit /\ [][FrontNext]_frontVars

FairFrontSpec == /\ FrontSpec
                 /\ tool = "find" => Find!Fairness
                 /\ tool = "perfect" => Perfect!Fairness

-----------------------------------------------------------------------------
(* find_fpga_hash: a status of 0 promises that hash and problem are on cout, *)
(* whole, and that the log says so, whatever signal or exception came.       *)
ZeroMeansPrinted == tool = "find" => Find!ZeroMeansPrinted

(* find_fpga_hash: the last row of the log is whole and belongs to the exit  *)
(* status, whatever was being written when the signal came.                  *)
LastRowTells == tool = "find" => Find!LastRowTells

(* perfect_fpga_hash: its last row is whole, and a last row of success means *)
(* that hash and problem are on cout.                                        *)
VerdictIsRight == tool = "perfect" => Perfect!VerdictMeansPrinted

Ended == status # -1 \/ pc = "killed"

(* A process with a time limit ends, even if the solver does not return; a   *)
(* quiet perfect_fpga_hash never has one, but if minisat returns then its    *)
(* tries run out.                                                            *)
Ends == /\ maxTime /\ (tool = "find" \/ verbose) ~> Ended
        /\ tool = "perfect" /\ Perfect!Solving => <>Ended
=============================================================================
