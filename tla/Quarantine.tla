----------------------------- MODULE Quarantine -----------------------------
(***************************************************************************)
(* quarantine_file_and_serialize (file_evidence.cpp): the metadata is      *)
(* staged under a protected name and flushed, the held source is locked    *)
(* down and renamed into the quarantine directory, then the metadata gets  *)
(* its final name.  Renames replace nothing.  Another command may name the *)
(* same file again after a partial outcome or a crash.                     *)
(***************************************************************************)
EXTENDS Naturals

CONSTANTS None, MaxCommands \* bound: commands for the file

VARIABLES place,    \* where the file is: "original", "stored"
          locked,   \* its DACL is the protected one
          pending,  \* the staged metadata: None, "new", "locked", "written"
          metadata, \* the final metadata exists
          pc, before, \* the files when the command began
          state,    \* QuarantineOutcome::state
          code,     \* the receipt
          commands

vars == <<place, locked, pending, metadata, pc, before, state, code, commands>>
files == <<place, locked, pending, metadata>>

Init ==
  /\ place = "original" /\ locked = FALSE /\ pending = None /\ metadata = FALSE
  /\ pc = "idle" /\ before = None /\ state = None /\ code = None /\ commands = 0

-----------------------------------------------------------------------------
(* The receipt code of an outcome. *)
Receipt(outcome) ==
  CASE outcome = "refused" -> "target_mismatch"
    [] outcome = "failed" -> "execution_failed"
    [] outcome = "partial" -> "indeterminate"
    [] outcome = "completed" -> "succeeded"

Outcome(outcome) == state' = outcome /\ code' = Receipt(outcome) /\ pc' = "idle"
Proceed(to) == pc' = to /\ UNCHANGED <<state, code>>
Quiet == UNCHANGED <<before, commands>>

Command ==
  /\ pc = "idle" /\ commands < MaxCommands /\ commands' = commands + 1
  /\ pc' = "hold" /\ before' = files /\ state' = None /\ code' = None
  /\ UNCHANGED files

(* The checks up to the first change: paths, held source, containment, volume,
   the result's size; then the destinations must be free. *)
Hold ==
  /\ pc = "hold" /\ UNCHANGED files /\ Quiet
  /\ \/ Outcome("refused") \/ Outcome("failed")
     \/ place = "original" /\ pending = None /\ ~metadata /\ Proceed("stage")

CreatePending ==
  /\ pc = "stage" /\ UNCHANGED <<place, locked, metadata>> /\ Quiet
  /\ \/ pending' = "new" /\ Proceed("protect")
     \/ pending' = pending /\ Outcome("failed")

(* A failure removes the staged metadata again; a failed removal is told. *)
GiveUp == \/ pending' = None /\ Outcome("failed")
          \/ pending' = pending /\ Outcome("partial")

ProtectPending ==
  /\ pc = "protect" /\ UNCHANGED <<place, locked, metadata>> /\ Quiet
  /\ (pending' = "locked" /\ Proceed("write")) \/ GiveUp

WritePending ==
  /\ pc = "write" /\ UNCHANGED <<place, locked, metadata>> /\ Quiet
  /\ (pending' = "written" /\ Proceed("lock")) \/ GiveUp

LockSource ==
  /\ pc = "lock" /\ UNCHANGED <<place, metadata>> /\ Quiet
  /\ \/ locked' = TRUE /\ pending' = pending /\ Proceed("rename")
     \/ locked' = locked /\ GiveUp

(* Mutant: a failed rename is called failed, as before the lock-down. *)
RenameSourceFailed ==
  /\ pc = "rename" /\ UNCHANGED <<locked, metadata>> /\ Quiet
  /\ \/ place' = "stored" /\ pending' = pending /\ Proceed("finish")
     \/ place' = place /\ GiveUp

(* The source still is the file that was checked, and is renamed; if not the
   lock-down stays and the outcome is partial. *)
RenameSource ==
  /\ pc = "rename" /\ UNCHANGED <<locked, metadata>> /\ Quiet
  /\ \/ place' = "stored" /\ pending' = pending /\ Proceed("finish")
     \/ place' = place /\ pending' \in {None, pending} /\ Outcome("partial")

RenameMetadata ==
  /\ pc = "finish" /\ UNCHANGED <<place, locked>> /\ Quiet
  /\ \/ metadata' = TRUE /\ pending' = None /\ Outcome("completed")
     \/ UNCHANGED <<metadata, pending>> /\ Outcome("partial")

Crash ==
  /\ pc # "idle" /\ pc' = "idle" /\ UNCHANGED <<files, before, state, code, commands>>

Next == Command \/ Hold \/ CreatePending \/ ProtectPending \/ WritePending \/ LockSource
        \/ RenameSource \/ RenameMetadata \/ Crash
Spec == Init /\ [][Next]_vars

-----------------------------------------------------------------------------
(* The receipt tells what happened to the file: refused and failed mean that
   nothing changed, succeeded that the file is away, protected and described;
   and a file that is away is always protected and its flushed metadata is
   beside it under one of the two names, also after a crash. *)
QuarantineTold ==
  /\ code \in {"target_mismatch", "execution_failed"} => files = before
  /\ code = "succeeded" => place = "stored" /\ metadata /\ pending = None
  /\ place = "stored" => locked /\ (metadata \/ pending = "written")
  /\ metadata => place = "stored"
=============================================================================
