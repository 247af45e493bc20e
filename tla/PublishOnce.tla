----------------------------- MODULE PublishOnce -----------------------------
(***************************************************************************)
(* What every file-writing entry point of compression-lab promises about   *)
(* its destination: the name changes in one step, from "no file" or an     *)
(* older file to the complete output of one call, a call that was not      *)
(* asked to overwrite only ever takes a free name, and no call publishes   *)
(* twice.  FileWriters is shown to implement this specification.           *)
(***************************************************************************)

CONSTANTS
  Writers,  \* the calls that target one destination path
  None,     \* the destination name is free
  Old       \* a file that was there before any of the calls

VARIABLES
  overwrite,  \* overwrite[w]: w was called with overwrite=True (--force)
  dest,       \* what the destination name refers to
  published   \* the calls whose output the name has ever referred to

absVars == <<overwrite, dest, published>>

AbsInit ==
  /\ overwrite \in [Writers -> BOOLEAN]
  /\ dest \in {None, Old}
  /\ published = {}

Publish(w) ==
  /\ w \notin published
  /\ dest = None \/ overwrite[w]
  /\ dest' = w
  /\ published' = published \cup {w}
  /\ UNCHANGED overwrite

(* Whoever owns the directory may delete the file. *)
Remove ==
  /\ dest # None
  /\ dest' = None
  /\ UNCHANGED <<overwrite, published>>

AbsNext == Remove \/ \E w \in Writers : Publish(w)

AbsSpec == AbsInit /\ [][AbsNext]_absVars
==============================================================================
