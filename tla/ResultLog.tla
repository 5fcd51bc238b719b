----------------------------- MODULE ResultLog -----------------------------
(***************************************************************************)
(* The output streams of a solver process, as find_fpga_hash and           *)
(* perfect_fpga_hash use them: what is written to a stream stays in its    *)
(* buffer until the stream is flushed, or until the buffer is full.        *)
(*                                                                         *)
(* A row of the csv log is represented by two pieces, the fields and the   *)
(* result that ends the line; the printed solution by the pieces "hash"    *)
(* and "problem".                                                          *)
(***************************************************************************)
EXTENDS Sequences, Integers

Streams == {"csvLogFile", "cout"}
Results == {"Success", "OutOfAttempts", "OutOfTime", "OutOfMemory", "Exception"}
Pieces  == {"fields"} \cup Results \cup {"hash", "problem"}

VARIABLES csv,   \* where pCsvDst points: a stream or "none"
          buf,   \* the buffers of the streams
          out    \* what has been written to the file descriptors

streams == <<csv, buf, out>>

NothingWritten == buf = [s \in Streams |-> <<>>] /\ out = buf

\* operator<<: the piece stays in the buffer, or fills it and goes out with it.
Put(s, piece) ==
    \/ /\ buf' = [buf EXCEPT ![s] = Append(@, piece)]
       /\ UNCHANGED <<csv, out>>
    \/ /\ out' = [out EXCEPT ![s] = @ \o Append(buf[s], piece)]
       /\ buf' = [buf EXCEPT ![s] = <<>>]
       /\ UNCHANGED csv

\* A flush hands the buffer to the kernel, and then forgets it.
WriteOut(s) == out' = [out EXCEPT ![s] = @ \o buf[s]] /\ UNCHANGED <<csv, buf>>
Forget(s)   == buf' = [buf EXCEPT ![s] = <<>>] /\ UNCHANGED <<csv, out>>

\* All of it at once, for the streams of S.
FlushAll(S) ==
    /\ out' = [s \in Streams |-> IF s \in S THEN out[s] \o buf[s] ELSE out[s]]
    /\ buf' = [s \in Streams |-> IF s \in S THEN <<>> ELSE buf[s]]
    /\ UNCHANGED csv

\* A whole row put into the stream of the log and flushed, with nothing between.
LogAtOnce(result) ==
    /\ out' = [out EXCEPT ![csv] = @ \o buf[csv] \o <<"fields", result>>]
    /\ buf' = [buf EXCEPT ![csv] = <<>>]
    /\ UNCHANGED csv

-----------------------------------------------------------------------------
\* The places of the log in its stream: on cout, all but those of the solution.
LogPlaces(text) == {i \in DOMAIN text : text[i] \notin {"hash", "problem"}}

\* What a reader finds at the end of the log: a row that is whole, with this result.
RowEnds(text, result) ==
    \E m, n \in LogPlaces(text) :
        /\ m < n /\ \A k \in LogPlaces(text) : k <= m \/ k = n
        /\ text[m] = "fields" /\ text[n] = result

LastRow(result) == RowEnds(out[csv], result)

Rows(result) == {i \in DOMAIN out[csv] : out[csv][i] = result}

\* The solution is on cout as a reader needs it: hash and problem back to back.
Printed == LET n == Len(out["cout"])
           IN  n >= 2 /\ out["cout"][n-1] = "hash" /\ out["cout"][n] = "problem"
=============================================================================
