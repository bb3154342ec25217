----------------------------- MODULE MachOSlice -----------------------------
(***************************************************************************)
(* core/macho_slice.cpp and code_signature.cpp: what an edit or a          *)
(* signature does to the bytes of a thin or fat Mach-O file.  The load     *)
(* commands are in the first page of a slice; a code directory holds the   *)
(* hash of every page.  An operation works on a copy of the file, which    *)
(* MachOFile drops when it fails, so that it is one step here.             *)
(*                                                                         *)
(* A hash is abstracted to what it was taken of: of the first page, its    *)
(* dylib commands, its LC_CODE_SIGNATURE and the size of __LINKEDIT.  No   *)
(* operation changes the other pages.                                      *)
(***************************************************************************)
EXTENDS Naturals, Sequences

CONSTANTS
  SliceCount,  \* slices of the file
  Dylib,       \* install names
  NameLength,  \* NameLength[d]: strlen of d
  Linked,      \* the dylibs the executable was linked with, in order
  Room,        \* bytes between these commands' start and the first file data
  Needs,       \* sizes a new signature blob may have
  Capacities,  \* sizes the signature region may have had at first
  Grown        \* its size after ReallocCodeSignSpace

ASSUME SliceAssumption == SliceCount \in Nat \ {0}
ASSUME SizeAssumption ==
  /\ NameLength \in [Dylib -> Nat \ {0}]
  /\ Linked \in Seq(Dylib)
  /\ Room \in Nat /\ Grown \in Nat
  /\ Needs \subseteq Nat /\ Capacities \subseteq Nat

(* The linker gives every dylib one command.                               *)
ASSUME LinkerAssumption == \A i, j \in 1 .. Len(Linked) : Linked[i] = Linked[j] => i = j

Slice == 1 .. SliceCount

VARIABLES
  slices,  \* the bytes of every slice
  last,    \* history: what the last operation was
  need     \* history: the size of the last signature blob

vars == <<slices, last, need>>

------------------------------------------------------------------------------
(* Load commands.                                                          *)

Command == [name : Dylib, weak : BOOLEAN]

(* sizeof(dylib_command), the name, one to eight bytes of padding.         *)
CommandSize(d) == 24 + NameLength[d] + (8 - (NameLength[d] % 8))
SignatureCommandSize == 16

(* The bytes of the first commands of a slice, of all of them.             *)
BytesBefore(cmds) ==
  LET bytes[k \in 0 .. Len(cmds)] ==
        IF k = 0 THEN 0 ELSE bytes[k - 1] + CommandSize(cmds[k].name)
  IN bytes
CommandBytes(cmds) == BytesBefore(cmds)[Len(cmds)]

Used(s) == CommandBytes(s.cmds) + (IF s.hasSignature THEN SignatureCommandSize ELSE 0)

(* MachOSlice::Init: loadCommandsFreeSpace_.                               *)
FreeSpace(s) == IF Used(s) <= Room THEN Room - Used(s) ELSE 0

FirstPage(s) == [cmds |-> s.cmds, hasSignature |-> s.hasSignature, capacity |-> s.capacity]

NoDirectory == [hash |-> "none",
                page |-> [cmds |-> <<>>, hasSignature |-> FALSE, capacity |-> 0]]
Digest(s, h) == [hash |-> h, page |-> FirstPage(s)]

Holds(s, d) == \E i \in DOMAIN s.cmds : s.cmds[i].name = d
FirstIndex(s, d) ==
  CHOOSE i \in DOMAIN s.cmds :
    s.cmds[i].name = d /\ \A j \in 1 .. i - 1 : s.cmds[j].name # d

(* Mutant of Fits: the padding is forgotten.                               *)
FitsUnpadded(s, d) == 24 + NameLength[d] <= FreeSpace(s)

Fits(s, d) == CommandSize(d) <= FreeSpace(s)

(* Mutant of Injected: the command is not looked for first.                *)
InjectedAnyway(s, d, w) ==
  [s EXCEPT !.cmds = Append(@, [name |-> d, weak |-> w])]

(* Mutant of Injected: the command comes before the others.                *)
InjectedFirst(s, d, w) ==
  IF Holds(s, d)
    THEN [s EXCEPT !.cmds[FirstIndex(s, d)].weak = w]
    ELSE [s EXCEPT !.cmds = <<[name |-> d, weak |-> w]>> \o @]

(* MachOSlice::InjectDylib, when it returns true.                          *)
Injected(s, d, w) ==
  IF Holds(s, d)
    THEN [s EXCEPT !.cmds[FirstIndex(s, d)].weak = w]
    ELSE [s EXCEPT !.cmds = Append(@, [name |-> d, weak |-> w])]

(* MachOSlice::RemoveDylibs, when it returns true: the other commands are  *)
(* copied one after another.                                               *)
Rebuilt(cmds, ds) ==
  LET rebuilt[k \in 0 .. Len(cmds)] ==
        IF k = 0 THEN <<>>
        ELSE IF cmds[k].name \in ds THEN rebuilt[k - 1]
        ELSE Append(rebuilt[k - 1], cmds[k])
  IN rebuilt
Removed(s, ds) == [s EXCEPT !.cmds = Rebuilt(@, ds)[Len(@)]]

------------------------------------------------------------------------------
(* Signatures.                                                             *)

(* Mutant of Directory: an existing code directory is always used.         *)
DirectoryReused(s, h, force, old) == IF old.hash = h THEN old ELSE Digest(s, h)

(* SlotBuildCodeDirectory: unless forced, the page hashes of the existing  *)
(* directory are used when they have the right length.                     *)
Directory(s, h, force, old) == IF ~force /\ old.hash = h THEN old ELSE Digest(s, h)

(* MachOSlice::BuildCodeSignature, of SHA-256 only or of both digests.     *)
Signed(s, force, both) ==
  LET sha1 == Directory(s, "sha1", force, s.primary)
      sha256 == Directory(s, "sha256", force, s.alternate)
  IN IF both
       THEN [s EXCEPT !.primary = sha1, !.alternate = sha256]
       ELSE [s EXCEPT !.primary = sha256, !.alternate = NoDirectory]

HasSpace(s, n) == s.hasSignature /\ n <= s.capacity

(* Mutant of Reallocated: the new space is added to the old.               *)
ReallocatedOnTop(s) == [s EXCEPT !.hasSignature = TRUE, !.capacity = @ + Grown]

(* MachOSlice::ReallocCodeSignSpace: a region that already has the new     *)
(* size cannot be reallocated; a new load command needs room.              *)
CanReallocate(s) ==
  /\ s.capacity < Grown
  /\ s.hasSignature \/ SignatureCommandSize <= FreeSpace(s)
Reallocated(s) == [s EXCEPT !.hasSignature = TRUE, !.capacity = Grown]

------------------------------------------------------------------------------

Directories(s) ==
  {<<NoDirectory, NoDirectory>>} \cup
  IF s.hasSignature
    THEN {<<Digest(s, "sha256"), NoDirectory>>, <<Digest(s, "sha1"), NoDirectory>>,
          <<Digest(s, "sha1"), Digest(s, "sha256")>>}
    ELSE {}

(* A slice as a linker and another signing tool have left it.              *)
InitialSlice ==
  LET bare(c) == [cmds |-> [i \in 1 .. Len(Linked) |-> [name |-> Linked[i], weak |-> FALSE]],
                  hasSignature |-> c > 0, capacity |-> c,
                  primary |-> NoDirectory, alternate |-> NoDirectory]
  IN UNION {{[bare(c) EXCEPT !.primary = ds[1], !.alternate = ds[2]] : ds \in Directories(bare(c))} :
              c \in Capacities}

Init ==
  /\ slices \in [Slice -> {s \in InitialSlice : Used(s) <= Room}]
  /\ last = "none" /\ need = 0

(* MachOFile::InjectDylibInPlace: every slice or none.                     *)
InjectDylib(d, w) ==
  /\ \/ /\ \A i \in Slice : Holds(slices[i], d) \/ Fits(slices[i], d)
        /\ slices' = [i \in Slice |-> Injected(slices[i], d, w)]
        /\ last' = "injected"
     \/ /\ \E i \in Slice : ~Holds(slices[i], d) /\ ~Fits(slices[i], d)
        /\ last' = "injectionFailed"
        /\ UNCHANGED slices
  /\ UNCHANGED need

RemoveDylibs(ds) ==
  /\ slices' = [i \in Slice |-> Removed(slices[i], ds)]
  /\ last' = "removed"
  /\ UNCHANGED need

SignFails ==
  /\ last' = "signFailed"
  /\ UNCHANGED slices

(* MachOFile::SignInPlace: when a slice has too little space, all slices   *)
(* are reallocated, once, and signed again from the first.                 *)
Sign(force, both, n) ==
  LET lacking == {i \in Slice : ~HasSpace(slices[i], n)}
      before(i) == \A j \in lacking : i < j
      partly == [i \in Slice |-> IF before(i) THEN Signed(slices[i], force, both) ELSE slices[i]]
  IN /\ need' = n
     /\ \/ /\ lacking = {}
           /\ slices' = [i \in Slice |-> Signed(slices[i], force, both)]
           /\ last' = IF force THEN "forced" ELSE "unforced"
        \/ /\ lacking # {} /\ n <= Grown
           /\ \A i \in Slice : CanReallocate(slices[i])
           /\ slices' = [i \in Slice |-> Signed(Reallocated(partly[i]), force, both)]
           /\ last' = IF force THEN "forced" ELSE "unforced"
        \/ /\ lacking # {}
           /\ n > Grown \/ \E i \in Slice : ~CanReallocate(slices[i])
           /\ SignFails

Next ==
  \/ \E d \in Dylib, w \in BOOLEAN : InjectDylib(d, w)
  \/ \E ds \in (SUBSET Dylib) \ {{}} : RemoveDylibs(ds)
  \/ \E force, both \in BOOLEAN, n \in Needs : Sign(force, both, n)

Spec == Init /\ [][Next]_vars

------------------------------------------------------------------------------
(* Properties.                                                             *)

Page == [cmds : Seq(Command), hasSignature : BOOLEAN, capacity : Nat]
CodeDirectory == [hash : {"none", "sha1", "sha256"}, page : Page]

SliceState == [cmds : Seq(Command), hasSignature : BOOLEAN, capacity : Capacities \cup {Grown},
               primary : CodeDirectory, alternate : CodeDirectory]

SliceTypeOK ==
  /\ slices \in [Slice -> SliceState]
  /\ \A i \in Slice : slices[i].alternate.hash # "sha1"
  /\ last \in {"none", "injected", "injectionFailed", "removed", "forced", "unforced",
               "signFailed"}
  /\ need \in Needs \cup {0}

(* Commands are added one after another, by injections and by a signature  *)
(* that needs its own: they never reach the first byte of file data.       *)
LoadCommandsFit == \A i \in Slice : Used(slices[i]) <= Room

(* Injecting what is already loaded, in whatever form, and whatever was    *)
(* injected or removed before: no dylib is loaded twice.                   *)
NoDuplicateLoads ==
  \A i \in Slice : \A j, k \in DOMAIN slices[i].cmds :
    slices[i].cmds[j].name = slices[i].cmds[k].name => j = k

(* The linker has bound symbols to dylibs by their ordinal: a dylib keeps  *)
(* its ordinal unless dylibs are removed.                                  *)
OrdinalsKept ==
  [][last' # "removed" =>
       \A i \in Slice : \A j \in DOMAIN slices[i].cmds :
         /\ j \in DOMAIN slices'[i].cmds
         /\ slices'[i].cmds[j].name = slices[i].cmds[j].name]_vars

Covers(s) ==
  /\ s.primary.hash # "none" /\ s.primary.page = FirstPage(s)
  /\ s.alternate.hash # "none" => s.alternate.page = FirstPage(s)

(* After a forced signature, which may have reallocated the space after it *)
(* had signed a slice, every code directory has the hashes of the slice.   *)
ForcedSignatureCovers == last = "forced" => \A i \in Slice : Covers(slices[i])

(* The same of every signature: "Mach-O inspection and signing".           *)
SignatureCovers == last \in {"forced", "unforced"} => \A i \in Slice : Covers(slices[i])

(* A thin file with these bytes could be signed.                           *)
SignsAlone(s, n) == HasSpace(s, n) \/ (CanReallocate(s) /\ n <= Grown)

(* "Mach-O inspection and signing across thin and fat binaries": a fat     *)
(* file whose slices could be signed alone can be signed.                  *)
FatSignsAsThin == last = "signFailed" => \E i \in Slice : ~SignsAlone(slices[i], need)
==============================================================================
