----------------------------- MODULE SpiffsLog -----------------------------
(***************************************************************************)
(* The Spiffs class of the mruby builds rl and rm.  It mounts the file     *)
(* system once, and opens and closes the log around every line; a line     *)
(* whose open fails is dropped, and the program is not told.               *)
(***************************************************************************)
EXTENDS Sequences

VARIABLES
  mounted,   \* /spiffs is registered
  log        \* /spiffs/walk_log.csv, append only; survives a power cut

\* fopen, fprintf, fclose: without a mounted file system the open fails, and it
\* may fail with one.
Write(line) ==
  \/ mounted' /\ log' = Append(log, line)
  \/ UNCHANGED log

\* Spiffs#init: mounts, prints the old log and appends a header.
Mount(header) ==
  \/ mounted' = TRUE /\ Write(header)
  \/ mounted' = FALSE /\ UNCHANGED log

\* Spiffs#write.
WriteRow(row) ==
  /\ UNCHANGED mounted
  /\ Write(row)
=============================================================================
