---------------------------- MODULE AtomicPublish ----------------------------
(***************************************************************************)
(* What every component that replaces a user's file or directory promises, *)
(* without saying how: at every instant either the published name shows    *)
(* the base (the last content the component answers for) or a complete     *)
(* copy of the base is held under another name.  The base changes only to  *)
(* an accepted content, at a moment when the published name shows it.      *)
(* MachOFile!ReplaceAndReopen and ZipArchive!Archive / Extract are shown   *)
(* to implement this specification.                                        *)
(***************************************************************************)
CONSTANTS
  Image,     \* the complete contents a file or directory can have
  Accepted,  \* those that their reader accepts
  Nothing    \* the published name does not exist

VARIABLES
  shown,     \* the content under the published name, or Nothing
  base,      \* the content the component answers for, or Nothing
  held       \* whether a complete copy of the base exists elsewhere

vars == <<shown, base, held>>

Shown == Image \cup {Nothing}

Init ==
  /\ shown \in Accepted \cup {Nothing}
  /\ base = shown
  /\ held \in BOOLEAN

(* A copy of the base is made while the published name still shows it.     *)
Hold ==
  /\ shown = base
  /\ held' = TRUE
  /\ UNCHANGED <<shown, base>>

(* A copy is discarded: allowed only while the published name shows it.    *)
Release ==
  /\ shown = base
  /\ held' = FALSE
  /\ UNCHANGED <<shown, base>>

(* The published name is renamed away: the base becomes the held copy.     *)
SetAside ==
  /\ shown = base
  /\ shown' = Nothing
  /\ held' = TRUE
  /\ UNCHANGED base

(* Another content, or nothing, is shown while the base is held.           *)
Show ==
  /\ held
  /\ shown' \in Shown
  /\ UNCHANGED <<base, held>>

(* The held copy is renamed back.                                          *)
Restore ==
  /\ held
  /\ shown' = base
  /\ held' \in BOOLEAN
  /\ UNCHANGED base

(* The shown content becomes the one the component answers for.  The copy  *)
(* of the old base may go at once.                                         *)
Commit ==
  /\ shown \in Accepted
  /\ base' = shown
  /\ held' \in BOOLEAN
  /\ UNCHANGED shown

Next == Hold \/ Release \/ SetAside \/ Show \/ Restore \/ Commit

Spec == Init /\ [][Next]_vars

------------------------------------------------------------------------------

TypeOK ==
  /\ shown \in Shown
  /\ base \in Accepted \cup {Nothing}
  /\ held \in BOOLEAN

(* The base can always be found on disk.                                   *)
Recoverable == held \/ shown = base
==============================================================================
