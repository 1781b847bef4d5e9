------------------------------ MODULE MCLaunch ------------------------------
(* Launch on a small machine: two commands, four subjects, a walk bounded at two. *)
EXTENDS Launch

\* Two plain files are as many as may be walked; with a third the walk is cut off
\* before the file that tells; a marker nobody reads is none.
Fs == [plain |-> [named |-> FALSE, marked |-> FALSE, reach |-> "text"],
       rtos |-> [named |-> FALSE, marked |-> TRUE, reach |-> "text"],
       sketch |-> [named |-> TRUE, marked |-> FALSE, reach |-> "name"],
       vendored |-> [named |-> FALSE, marked |-> TRUE, reach |-> "none"]]

MCFiles ==
  [full |-> <<Fs.plain, Fs.vendored, Fs.plain>>,
   deep |-> <<Fs.plain, Fs.plain, Fs.rtos>>,
   ino  |-> <<Fs.plain, Fs.sketch>>,
   tiny |-> <<Fs.plain>>]

=============================================================================
