------------------------------ MODULE ZipEntries ------------------------------
(***************************************************************************)
(* common/zip_archive.cpp, entry by entry: what ExtractEntries accepts and *)
(* what it leaves in the staging directory, and the entries that Archive   *)
(* writes for a folder.  Pure operators on an extraction x, the locals of  *)
(* ExtractEntries with the directory it fills; ZipExtraction runs them.    *)
(* A path is the sequence of its components.                               *)
(***************************************************************************)
EXTENDS Naturals, FiniteSets, SequencesExt

CONSTANTS
  Component,   \* names between two slashes
  Unsafe,      \* those IsArchivePathSafe refuses, the empty one included
  AsciiFold,   \* the component with A-Z made lower case
  VolumeFold,  \* the component as a case-insensitive volume compares it
  Split,       \* the component cut at backslashes
  Data,        \* contents of files
  Bytes,       \* their lengths
  Deflated,    \* the lengths zlib shrinks them to
  Folder,      \* what the tree holds at a directory
  EntryLimit, TotalLimit, RatioLimit,  \* kMaximumEntrySize, TotalSize, CompressionRatio
  CountLimit   \* kMaximumEntryCount

ASSUME ComponentAssumption ==
  /\ Unsafe \subseteq Component
  /\ {AsciiFold, VolumeFold} \subseteq [Component -> Component]
  /\ Split \in [Component -> Seq(Component)]
ASSUME DataAssumption ==
  Data # {} /\ {Bytes, Deflated} \subseteq [Data -> Nat] /\ Folder \notin Data
ASSUME LimitAssumption ==
  /\ {EntryLimit, TotalLimit, CountLimit} \subseteq Nat
  /\ RatioLimit \in Nat \ {0}

Path == Seq(Component)

(* One record of the archive: its raw name, whether that ends in a slash,  *)
(* the type in its Unix mode, the lengths it declares, and what it holds.  *)
Entry == [path : Path, directory : BOOLEAN,
          type : {"none", "regular", "directory", "special"},
          size : Nat, packed : Nat, data : Data]

Extraction == [folding : BOOLEAN, tree : UNION {[S -> Data \cup {Folder}] : S \in SUBSET Path},
               seen : SUBSET Path, directories : SUBSET Path,
               declared : Nat, written : Nat]

Each(f, p) == [i \in DOMAIN p |-> f[p[i]]]

(* Backslashes become separators: when a raw name is read, and when a file *)
(* name is turned into an entry name.                                      *)
Slashed(p) == FlattenSeq(Each(Split, p))
Parents(p) == {SubSeq(p, 1, k) : k \in 1 .. Len(p) - 1}

(* What EnumerateEntries hands to its callback.                            *)
Reported(e) == [e EXCEPT !.path = Slashed(@)]

IsArchivePathSafe(p) == p # <<>> /\ \A i \in DOMAIN p : p[i] \notin Unsafe
EntryIdentity(p) == Each(AsciiFold, p)

------------------------------------------------------------------------------
(* The directory that is filled.                                           *)

Key(x, p) == IF x.folding THEN Each(VolumeFold, p) ELSE p
IsFileExists(x, p) == Key(x, p) \in DOMAIN x.tree
IsFolder(x, p) == IsFileExists(x, p) /\ x.tree[Key(x, p)] = Folder

(* FileSystem::CreateFolder makes what is missing of a path and fails on a *)
(* component that is something else than a directory.                      *)
CanCreate(x, folders) == \A p \in folders : IsFileExists(x, p) => IsFolder(x, p)
WithFolders(x, folders) ==
  [k \in DOMAIN x.tree \cup {Key(x, p) : p \in folders} |->
     IF k \in DOMAIN x.tree THEN x.tree[k] ELSE Folder]

(* A folder of a volume, as Archive finds it.                              *)
IsTree(tree) ==
  /\ IsFiniteSet(DOMAIN tree) /\ DOMAIN tree \subseteq Path
  /\ tree \in [DOMAIN tree -> Data \cup {Folder}]
  /\ \A p \in DOMAIN tree : \A q \in Parents(p) : q \in DOMAIN tree /\ tree[q] = Folder

(* A new file under a key, with what is written into it.                   *)
WithContent(tree, key, data) ==
  [k \in DOMAIN tree \cup {key} |-> IF k = key THEN data ELSE tree[k]]

------------------------------------------------------------------------------
(* ExtractEntries: the checks in front of either kind of entry.            *)

CeilDiv(a, b) == (a + b - 1) \div b
WithinLimits(x, e) ==
  /\ e.size <= EntryLimit /\ e.size <= TotalLimit - x.declared
  /\ e.size > 0 => e.packed >= CeilDiv(e.size, RatioLimit)

Admitted(x, e) ==
  /\ IsArchivePathSafe(e.path)
  /\ EntryIdentity(e.path) \notin x.seen
  /\ WithinLimits(x, e)
  /\ e.type # "special"

Admit(x, e) ==
  [x EXCEPT !.seen = @ \cup {EntryIdentity(e.path)}, !.declared = @ + e.size]

(* A directory that exists already must be one this archive has made or    *)
(* passed through, in the same spelling.                                   *)
AcceptsDirectory(x, e) ==
  /\ e.type # "regular"
  /\ IsFileExists(x, e.path) => e.path \in x.directories
  /\ CanCreate(x, Parents(e.path) \cup {e.path})

WithDirectory(x, e) ==
  LET made == Parents(e.path) \cup {e.path}
  IN  [x EXCEPT !.tree = WithFolders(x, made), !.directories = @ \cup made]

(* Mutant of AcceptsFile: no longer created exclusively.                   *)
AcceptsFileAnyhow(x, e) ==
  /\ e.type # "directory"
  /\ CanCreate(x, Parents(e.path))
  /\ ~IsFolder(x, e.path)
  /\ Bytes[e.data] = e.size
  /\ x.written + Bytes[e.data] <= TotalLimit

(* Mutant of AcceptsFile: the declared length is not compared.             *)
AcceptsFileOfAnyLength(x, e) ==
  e.type # "directory" /\ CanCreate(x, Parents(e.path)) /\ ~IsFileExists(x, e.path)

(* ExtractEntry: exclusive creation, and as many bytes as were declared.   *)
AcceptsFile(x, e) ==
  /\ e.type # "directory"
  /\ CanCreate(x, Parents(e.path))
  /\ ~IsFileExists(x, e.path)
  /\ Bytes[e.data] = e.size
  /\ x.written + Bytes[e.data] <= TotalLimit

(* Mutant of WithFile: RecordParentDirectories is forgotten.               *)
WithFileAlone(x, e) ==
  LET folders == WithFolders(x, Parents(e.path))
  IN  [x EXCEPT !.tree = WithContent(folders, Key(x, e.path), e.data),
                !.written = @ + Bytes[e.data]]

WithFile(x, e) ==
  LET folders == WithFolders(x, Parents(e.path))
  IN  [x EXCEPT !.tree = WithContent(folders, Key(x, e.path), e.data),
                !.directories = @ \cup Parents(e.path),
                !.written = @ + Bytes[e.data]]

(* The callback's result and its effect when every system call succeeds.   *)
Accepts(x, e) ==
  Admitted(x, e) /\ IF e.directory THEN AcceptsDirectory(Admit(x, e), e)
                                   ELSE AcceptsFile(Admit(x, e), e)
Extracted(x, e) ==
  IF e.directory THEN WithDirectory(Admit(x, e), e) ELSE WithFile(Admit(x, e), e)

NothingExtracted(folding) ==
  [folding |-> folding, tree |-> <<>>, seen |-> {}, directories |-> {},
   declared |-> 0, written |-> 0]

(* EnumerateEntries with that callback: the first refusal ends it.         *)
ExtractEntries(folding, list) ==
  FoldLeft(LAMBDA r, e : IF r.ok /\ Accepts(r.x, Reported(e))
                         THEN [ok |-> TRUE, x |-> Extracted(r.x, Reported(e))]
                         ELSE [r EXCEPT !.ok = FALSE],
           [ok |-> Len(list) <= CountLimit, x |-> NothingExtracted(folding)], list)

------------------------------------------------------------------------------
(* Archive: AddDirectory and AddFile for a node of the source tree, whose  *)
(* type GetModificationTime puts into the entry.                           *)

DataAt(tree, p) == IF tree[p] = Folder THEN CHOOSE d \in Data : TRUE ELSE tree[p]

(* Mutant of EntryFor: a directory's name does not get its slash.          *)
EntryForUnmarked(tree, p) ==
  [path |-> Slashed(p), directory |-> FALSE,
   type |-> IF tree[p] = Folder THEN "directory" ELSE "regular",
   size |-> IF tree[p] = Folder THEN 0 ELSE Bytes[tree[p]],
   packed |-> IF tree[p] = Folder THEN 0 ELSE Deflated[tree[p]], data |-> DataAt(tree, p)]

EntryFor(tree, p) ==
  [path |-> Slashed(p), directory |-> tree[p] = Folder,
   type |-> IF tree[p] = Folder THEN "directory" ELSE "regular",
   size |-> IF tree[p] = Folder THEN 0 ELSE Bytes[tree[p]],
   packed |-> IF tree[p] = Folder THEN 0 ELSE Deflated[tree[p]], data |-> DataAt(tree, p)]

(* EnumFolder is recursive: a directory is reported, then what is in it,   *)
(* then the next entry of its parent, in the volume's order.               *)
Pending(tree, visited) == {p \in DOMAIN tree \ visited : Parents(p) \subseteq visited}
Unfinished(tree, visited) ==
  {p \in visited : \E q \in Pending(tree, visited) : p \in Parents(q)}
NextNodes(tree, visited) ==
  {p \in Pending(tree, visited) : Unfinished(tree, visited) \subseteq Parents(p)}
==============================================================================
