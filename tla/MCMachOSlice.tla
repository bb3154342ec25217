----------------------------- MODULE MCMachOSlice -----------------------------
(***************************************************************************)
(* A fat file with two slices, one dylib linked and one to inject, with    *)
(* room beside the linked one for a signature's command or for the other.  *)
(***************************************************************************)
EXTENDS MachOSlice

CONSTANTS system, first

MCNameLength == [d \in {system, first} |-> IF d = system THEN 26 ELSE 16]
MCLinked == <<system>>
==============================================================================
