-------------------------- MODULE PerfectFpgaHash --------------------------
(***************************************************************************)
(* tools/perfect_fpga_hash.cpp: the loop over draws of the taps, and the   *)
(* process around it.  Unlike find_fpga_hash it does not flush the row of  *)
(* its result, it ends with status 0 whenever it has a log, and its log is *)
(* static: it outlives main, and is closed before cout is flushed.         *)
(* A flush is one step here; FindFpgaHash has it interrupted.              *)
(***************************************************************************)
EXTENDS ResultLog

CONSTANT maxTries

VARIABLES verbose,  \* whether --verbose is above 0
          maxTime,  \* whether --max-time is other than 0
          limited, handled,
          tries,
          result,   \* the result for the log, "none" before there is one
          closed,   \* whether csvLogFile has been destroyed
          pc,
          status

vars == <<streams, verbose, maxTime, limited, handled, tries, result, closed, pc, status>>

Running == status = -1 /\ pc # "killed"

Init == /\ csv = "none" /\ NothingWritten
        /\ verbose \in BOOLEAN /\ maxTime \in BOOLEAN
        /\ limited = FALSE /\ handled = FALSE
        /\ tries = 1
        /\ result = "none"
        /\ closed = FALSE
        /\ pc = "arguments"
        /\ status = -1

Goto(p) == pc' = p /\ UNCHANGED <<verbose, maxTime, limited, handled, closed, status>>

\* The status of every end but the return from main.
Failure == IF csv = "none" THEN 1 ELSE 0

-----------------------------------------------------------------------------
OpenLog ==
    /\ pc = "arguments"
    /\ csv' \in Streams \cup {"none"}
    /\ Goto("limit")
    /\ UNCHANGED <<buf, out, tries, result>>

\* A quiet run sets no limits, and no handler.
setTimeLimit ==
    /\ pc = "limit"
    /\ IF verbose
         THEN limited' = maxTime /\ pc' = "handler"
         ELSE limited' = FALSE /\ pc' = "load"
    /\ UNCHANGED <<streams, verbose, maxTime, handled, tries, result, closed, status>>

setHandler ==
    /\ pc = "handler"
    /\ handled' = TRUE
    /\ pc' = "load"
    /\ UNCHANGED <<streams, verbose, maxTime, limited, tries, result, closed, status>>

\* The problem is read, checked, and the widths chosen.
Load ==
    /\ pc = "load"
    /\ Goto("head")
    /\ UNCHANGED <<streams, tries, result>>

\* One more draw of the taps, if there are tries left.
Attempt ==
    /\ pc = "head"
    /\ IF tries < maxTries
         THEN Goto("solve") /\ UNCHANGED result
         ELSE Goto("log") /\ result' = "OutOfAttempts"
    /\ UNCHANGED <<streams, tries>>

NoSolution ==
    /\ pc = "solve"
    /\ tries' = tries + 1
    /\ Goto("head")
    /\ UNCHANGED <<streams, result>>

\* A solution that has passed its check.
Solution ==
    /\ pc = "solve"
    /\ result' = "Success"
    /\ Goto("log")
    /\ UNCHANGED <<streams, tries>>

\* A catch block: a row that is flushed, and _exit.
Catch(r) ==
    /\ pc \in IF r = "OutOfMemory" THEN {"solve"}
              ELSE {"arguments", "load", "head", "solve", "print", "printProblem"}
    /\ IF csv # "none" THEN LogAtOnce(r) ELSE UNCHANGED streams
    /\ status' = Failure
    /\ UNCHANGED <<verbose, maxTime, limited, handled, tries, result, closed, pc>>

-----------------------------------------------------------------------------
NoLog ==
    /\ pc = "log" /\ csv = "none"
    /\ Goto("logged")
    /\ UNCHANGED <<streams, tries, result>>

LogFields ==
    /\ pc = "log" /\ csv # "none"
    /\ Put(csv, "fields")
    /\ Goto("logResult")
    /\ UNCHANGED <<tries, result>>

\* The row of the result, which is not flushed.
LogResult ==
    /\ pc = "logResult"
    /\ Put(csv, result)
    /\ Goto("logged")
    /\ UNCHANGED <<tries, result>>

\* Only a solution is printed; otherwise exit().
GoPrint ==
    /\ pc = "logged"
    /\ Goto(IF result = "Success" THEN "print" ELSE "exit")
    /\ UNCHANGED <<streams, tries, result>>

PrintHash ==
    /\ pc = "print"
    /\ Put("cout", "hash")
    /\ Goto("printProblem")
    /\ UNCHANGED <<tries, result>>

PrintProblem ==
    /\ pc = "printProblem"
    /\ Put("cout", "problem")
    /\ Goto("exit")
    /\ UNCHANGED <<tries, result>>

\* The destructor of csvLogFile writes what is in its buffer.
CloseLog ==
    /\ pc = "exit"
    /\ FlushAll({"csvLogFile"})
    /\ closed' = TRUE
    /\ pc' = "leave"
    /\ UNCHANGED <<verbose, maxTime, limited, handled, tries, result, status>>

\* cout is flushed, and the process ends.
Leave ==
    /\ pc = "leave"
    /\ FlushAll({"cout"})
    /\ status' = IF result = "Success" THEN 0 ELSE Failure
    /\ UNCHANGED <<verbose, maxTime, limited, handled, tries, result, closed, pc>>

-----------------------------------------------------------------------------
\* Mutant: the handler does not flush cout.
OutOfTimeUnflushed ==
    /\ limited /\ handled /\ Running
    /\ CASE csv = "none" -> UNCHANGED streams
         [] csv # "none" /\ closed /\ csv = "csvLogFile" -> UNCHANGED streams
         [] OTHER -> LogAtOnce("OutOfTime")
    /\ status' = Failure
    /\ UNCHANGED <<verbose, maxTime, limited, handled, tries, result, closed, pc>>

\* The time is up: a row, and all streams are flushed. A log that is closed takes
\* no row any more.
signal_outOfTime ==
    /\ limited /\ handled /\ Running
    /\ CASE csv = "none" -> UNCHANGED streams
         [] csv = "csvLogFile" /\ closed -> FlushAll({"cout"})
         [] OTHER ->
              /\ out' = [s \in Streams |->
                    out[s] \o buf[s] \o (IF s = csv THEN <<"fields", "OutOfTime">> ELSE <<>>)]
              /\ buf' = [s \in Streams |-> <<>>]
              /\ UNCHANGED csv
    /\ status' = Failure
    /\ UNCHANGED <<verbose, maxTime, limited, handled, tries, result, closed, pc>>

Kill ==
    /\ limited /\ ~ handled /\ Running
    /\ pc' = "killed"
    /\ UNCHANGED <<streams, verbose, maxTime, limited, handled, tries, result, closed, status>>

Steps == \/ OpenLog \/ setTimeLimit \/ setHandler \/ Load
         \/ Attempt
         \/ Catch("Exception") \/ Catch("OutOfMemory")
         \/ NoLog \/ LogFields \/ LogResult
         \/ GoPrint \/ PrintHash \/ PrintProblem \/ CloseLog \/ Leave

Next == \/ Running /\ (Steps \/ NoSolution \/ Solution)
        \/ signal_outOfTime
        \/ Kill

\* Minisat need not return; everything else does.
Fairness == WF_vars(Running /\ pc # "solve" /\ Steps) /\ WF_vars(signal_outOfTime)

\* If minisat does return.
Solving == WF_vars(Running /\ (NoSolution \/ Solution))

-----------------------------------------------------------------------------
(* Every status is 0 when there is a log, so the log is the verdict. It      *)
(* always has a whole row at its end, and if that row says Success, then     *)
(* hash and problem are on cout, whole, although a signal or an exception    *)
(* may have come after it was written, and although it was not flushed.      *)
(* Without a log, a status of 0 says the same.                               *)
VerdictMeansPrinted ==
    status # -1 =>
        /\ csv # "none" => status = 0 /\ \E r \in Results : LastRow(r)
        /\ (IF csv = "none" THEN status = 0 ELSE LastRow("Success")) => Printed
=============================================================================
