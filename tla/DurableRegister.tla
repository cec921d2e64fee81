-------------------------- MODULE DurableRegister --------------------------
(***************************************************************************)
(* What a user expects of "Save": one stored version of the database that  *)
(* is replaced as a whole by the working version, and survives a crash of  *)
(* the program.  Abstract specification of Database::saveToFile with       *)
(* atomic saves (SaveToFile.tla).                                          *)
(***************************************************************************)
EXTENDS Naturals

VARIABLES
  stored,   \* the version found at the database's path
  working   \* the version in memory

vars == <<stored, working>>

Init == stored = 0 /\ working = 0

\* The user changes the database in memory.
Change == working' = working + 1 /\ stored' = stored

\* A save: the whole working version replaces the stored one.
Store == stored' = working /\ working' = working

\* The program dies and the database is opened again: the stored version is
\* what it continues from.
Reopen == working' = stored /\ stored' = stored

Next == Change \/ Store \/ Reopen

Spec == Init /\ [][Next]_vars
=============================================================================
