------------------------------- MODULE Widths -------------------------------
(* The widths of a hash, which its look-ups and its solvers share.          *)
CONSTANTS wI,   \* width of a key in bits
          wO    \* width of a hash in bits, the number of tables
=============================================================================
