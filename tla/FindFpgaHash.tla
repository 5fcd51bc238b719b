---------------------------- MODULE FindFpgaHash ----------------------------
(***************************************************************************)
(* The process around the solvers (tools/find_fpga_hash.cpp with           *)
(* solve_context.hpp): its limits, the row of the csv log, the SIGXCPU     *)
(* handler that may run between any two steps, the printed solution and    *)
(* the exit status.  What the solver does is a choice; it may not return.  *)
(*                                                                         *)
(* A handler that interrupts a stream operation uses the same stream again.*)
(* A flush is two steps, so that it can do so between the two; a piece is  *)
(* one step.                                                               *)
(***************************************************************************)
EXTENDS ResultLog

VARIABLES maxTime,  \* whether --max-time is other than 0
          method,   \* the solver that is asked for
          context,  \* whether solve_context::pSolveContext() is set
          limited,  \* whether RLIMIT_CPU has been set
          handled,  \* whether SIGXCPU has its handler
          result,   \* the result for the log, "none" before there is one
          pc,
          status    \* the exit status, -1 while the process runs

vars == <<streams, maxTime, method, context, limited, handled, result, pc, status>>

Methods == {"minisat", "anneal", "grasp", "other"}

Running == status = -1 /\ pc # "killed"

Init == /\ csv = "none" /\ NothingWritten
        /\ maxTime \in BOOLEAN
        /\ method \in Methods
        /\ context = TRUE /\ limited = FALSE /\ handled = FALSE
        /\ result = "none"
        /\ pc = "arguments"
        /\ status = -1

Goto(p) == pc' = p /\ UNCHANGED <<maxTime, method, context, limited, handled, status>>

\* An exception leaves the try block: a row is to be written.
Throw(r) == result' = r /\ Goto("log") /\ UNCHANGED streams

-----------------------------------------------------------------------------
\* The arguments are read, and the log is opened if there is to be one.
OpenLog ==
    /\ pc = "arguments"
    /\ csv' \in Streams \cup {"none"}
    /\ Goto("limit")
    /\ UNCHANGED <<buf, out, result>>

\* Mutant: the limit is set without a handler.
setTimeLimitOnly ==
    /\ pc = "limit"
    /\ limited' = maxTime
    /\ pc' = "load"
    /\ UNCHANGED <<streams, maxTime, method, context, handled, result, status>>

\* setTimeAndSpaceLimit: the limit first, then the handler.
setTimeLimit ==
    /\ pc = "limit"
    /\ limited' = maxTime
    /\ pc' = "handler"
    /\ UNCHANGED <<streams, maxTime, method, context, handled, result, status>>

setHandler ==
    /\ pc = "handler"
    /\ handled' = TRUE
    /\ pc' = "load"
    /\ UNCHANGED <<streams, maxTime, method, context, limited, result, status>>

\* The problem is read, checked, and the widths chosen.
Load ==
    /\ pc = "load"
    /\ Goto("solve")
    /\ UNCHANGED <<streams, result>>

Solve ==
    /\ pc = "solve"
    /\ method # "other"
    /\ result' \in {"Success", "OutOfAttempts"}
    /\ Goto("log")
    /\ UNCHANGED streams

\* A wrong argument, a file that does not open, a bad problem, an unknown method,
\* a failed check, or no memory, also while the solution is printed.
ThrowException ==
    /\ pc \in {"arguments", "load", "solve", "print", "printProblem"}
    /\ Throw("Exception")

\* Minisat's own exception.
ThrowOutOfMemory ==
    /\ pc = "solve" /\ method = "minisat"
    /\ Throw("OutOfMemory")

-----------------------------------------------------------------------------
\* logCsv: nothing without a log, otherwise a row and a flush.
NoLog ==
    /\ pc = "log" /\ csv = "none"
    /\ Goto("logged")
    /\ UNCHANGED <<streams, result>>

LogFields ==
    /\ pc = "log" /\ csv # "none"
    /\ Put(csv, "fields")
    /\ Goto("logResult")
    /\ UNCHANGED result

LogResult ==
    /\ pc = "logResult"
    /\ Put(csv, result)
    /\ Goto("flush")
    /\ UNCHANGED result

FlushLog ==
    /\ pc = "flush"
    /\ WriteOut(csv)
    /\ Goto("flushed")
    /\ UNCHANGED result

ForgetLog ==
    /\ pc = "flushed"
    /\ Forget(csv)
    /\ Goto("logged")
    /\ UNCHANGED result

\* exit(1) flushes the streams; the _exit of the catch blocks does not.
Exit(r) ==
    /\ pc = "logged" /\ result = r /\ r # "Success"
    /\ status' = (CASE r = "OutOfAttempts" -> 1 [] r = "OutOfMemory" -> 2 [] r = "Exception" -> 3)
    /\ IF r = "OutOfAttempts" THEN FlushAll(Streams) ELSE UNCHANGED streams
    /\ UNCHANGED <<maxTime, method, context, limited, handled, result, pc>>

GoPrint ==
    /\ pc = "logged" /\ result = "Success"
    /\ Goto("print")
    /\ UNCHANGED <<streams, result>>

PrintHash ==
    /\ pc = "print"
    /\ Put("cout", "hash")
    /\ Goto("printProblem")
    /\ UNCHANGED result

PrintProblem ==
    /\ pc = "printProblem"
    /\ Put("cout", "problem")
    /\ Goto("return")
    /\ UNCHANGED result

\* main returns: the context is destroyed, and then the streams are flushed.
Return ==
    /\ pc = "return"
    /\ context' = FALSE
    /\ pc' = "exit"
    /\ UNCHANGED <<streams, maxTime, method, limited, handled, result, status>>

\* Mutant: nobody flushes.
LeaveUnflushed ==
    /\ pc = "exit"
    /\ status' = 0
    /\ UNCHANGED <<streams, maxTime, method, context, limited, handled, result, pc>>

Leave ==
    /\ pc = "exit"
    /\ FlushAll(Streams)
    /\ status' = 0
    /\ UNCHANGED <<maxTime, method, context, limited, handled, result, pc>>

-----------------------------------------------------------------------------
\* Mutant: the handler leaves the buffer alone.
OutOfTimeQuietly ==
    /\ limited /\ handled /\ Running
    /\ status' = 1
    /\ UNCHANGED <<streams, maxTime, method, context, limited, handled, result, pc>>

\* The time is up. The handler logs a row, if there is a context with a log.
signal_outOfTime ==
    /\ limited /\ handled /\ Running
    /\ IF context /\ csv # "none" THEN LogAtOnce("OutOfTime") ELSE UNCHANGED streams
    /\ status' = 1
    /\ UNCHANGED <<maxTime, method, context, limited, handled, result, pc>>

\* Before there is a handler, the signal kills.
Kill ==
    /\ limited /\ ~ handled /\ Running
    /\ pc' = "killed"
    /\ UNCHANGED <<streams, maxTime, method, context, limited, handled, result, status>>

Steps == \/ OpenLog \/ setTimeLimit \/ setHandler \/ Load
         \/ ThrowException \/ ThrowOutOfMemory
         \/ NoLog \/ LogFields \/ LogResult \/ FlushLog \/ ForgetLog
         \/ \E r \in Results : Exit(r)
         \/ GoPrint \/ PrintHash \/ PrintProblem \/ Return \/ Leave

Next == \/ Running /\ (Steps \/ Solve)
        \/ signal_outOfTime
        \/ Kill

(***************************************************************************)
(* The process is scheduled, and its input arrives; a solver may take for  *)
(* ever, and then uses processor time until the signal comes.              *)
(***************************************************************************)
Fairness == WF_vars(Running /\ pc # "solve" /\ Steps) /\ WF_vars(signal_outOfTime)

-----------------------------------------------------------------------------
(* A status of 0 promises everything: hash and problem are on cout, whole    *)
(* and with nothing after them, and the log, if any, has the one row that    *)
(* says so. No signal or exception at any moment leaves a 0 and a half hash. *)
ZeroMeansPrinted ==
    status = 0 =>
        /\ Printed /\ Len(out["cout"]) = IF csv = "cout" THEN 4 ELSE 2
        /\ csv # "none" =>
              /\ LastRow("Success") /\ \E n \in Rows("Success") : Rows("Success") = {n}
              /\ Rows("OutOfTime") = {} /\ Rows("Exception") = {}

(* A process with a log that ends by itself leaves a row at the end of it,   *)
(* whatever rows and parts of rows were being written when the signal came,  *)
(* and that row belongs to the exit status. Only a signal between the end of *)
(* main and the end of the process leaves a row of success and a status of 1.*)
LastRowTells ==
    status # -1 /\ csv # "none" =>
        \E r \in Results :
            /\ LastRow(r)
            /\ <<r, status>> \in {<<"Success", 0>>, <<"OutOfAttempts", 1>>, <<"OutOfTime", 1>>,
                                 <<"OutOfMemory", 2>>, <<"Exception", 3>>}
                                \cup (IF context THEN {} ELSE {<<"Success", 1>>})
=============================================================================
