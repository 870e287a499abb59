------------------------------ MODULE JitSymbols ------------------------------
(***************************************************************************)
(* JITSymbols (JitSymbols.cpp): the writer of the perf map, a text file   *)
(* /tmp/perf-<pid>.map that names every JIT block for Linux perf.  It      *)
(* holds a raw file descriptor, because the guest may close descriptors   *)
(* it does not own (after a fork, or with closefrom) and a FILE would      *)
(* not survive that.  Every Register overload writes one line and gives   *)
(* up the descriptor when write fails with EBADF.                          *)
(*                                                                         *)
(* The descriptor table is the process's, shared by FEX and the guest      *)
(* code it runs: open() returns the lowest free number.  A file is a      *)
(* model value: PerfMap, or one of the guest's files.  What a line says   *)
(* is left out; what matters is which file receives it.                    *)
(***************************************************************************)
EXTENDS Integers, FiniteSets, FiniteSetsExt

CONSTANTS
  Fds,         \* descriptor numbers the process may use
  PerfMap,     \* the file /tmp/perf-<pid>.map
  GuestFiles,  \* files the guest may open
  Closed       \* a free descriptor number

VARIABLES
  table,    \* table[n]: the file descriptor n refers to, or Closed
  fd,       \* JITSymbols::fd, -1 when there is none
  touched,  \* files FEX has written perf lines to or closed through fd
  pc        \* "new", "running", "destroyed"

vars == <<table, fd, touched, pc>>

(* open(): the lowest free descriptor, or -1 with EMFILE. *)
OpenResult(t) ==
  IF \E n \in Fds : t[n] = Closed THEN Min({n \in Fds : t[n] = Closed}) ELSE -1

OpenInto(t, f) ==
  LET n == OpenResult(t) IN IF n = -1 THEN t ELSE [t EXCEPT ![n] = f]

-----------------------------------------------------------------------------

(* InitFile: open the perf map with O_CREAT | O_TRUNC | O_WRONLY | O_APPEND. *)
InitFile ==
  /\ pc = "new"
  /\ fd' = OpenResult(table)
  /\ table' = OpenInto(table, PerfMap)
  /\ pc' = "running"
  /\ UNCHANGED touched

(* Register, RegisterNamedRegion, RegisterJITSpace: nothing without a    *)
(* descriptor; otherwise write one line to it, and forget the descriptor *)
(* when the write fails with EBADF.  Other write errors are ignored.     *)
Register ==
  /\ pc = "running"
  /\ fd # -1
  /\ IF table[fd] = Closed
     THEN fd' = -1 /\ UNCHANGED touched
     ELSE touched' = touched \cup {table[fd]} /\ UNCHANGED fd
  /\ UNCHANGED <<table, pc>>

(* ~JITSymbols: close the descriptor unless there is none. *)
Destroy ==
  /\ pc = "running"
  /\ IF fd # -1 /\ table[fd] # Closed
     THEN /\ table' = [table EXCEPT ![fd] = Closed]
          /\ touched' = touched \cup {table[fd]}
     ELSE UNCHANGED <<table, touched>>
  /\ pc' = "destroyed"
  /\ UNCHANGED fd

(* The guest opens one of its files. *)
GuestOpen(f) ==
  /\ table' = OpenInto(table, f)
  /\ UNCHANGED <<fd, touched, pc>>

(* The guest closes a descriptor it does not own, as a forked child     *)
(* closing every inherited descriptor does.                             *)
GuestClose(n) ==
  /\ table[n] # Closed
  /\ table' = [table EXCEPT ![n] = Closed]
  /\ UNCHANGED <<fd, touched, pc>>

Init ==
  /\ table \in [Fds -> {Closed} \cup GuestFiles]
  /\ fd = -1
  /\ touched = {}
  /\ pc = "new"

Next ==
  \/ InitFile
  \/ Register
  \/ Destroy
  \/ \E f \in GuestFiles : GuestOpen(f)
  \/ \E n \in Fds : GuestClose(n)

Spec == Init /\ [][Next]_vars

-----------------------------------------------------------------------------

(* The comment on InitFile: the writer is robust against the guest       *)
(* closing its descriptor.  FEX writes perf lines to, and closes, only   *)
(* the perf map, whatever the guest closes and opens in between.          *)
OnlyPerfMapTouched == touched \subseteq {PerfMap}
=============================================================================
