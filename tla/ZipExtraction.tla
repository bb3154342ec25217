---------------------------- MODULE ZipExtraction ----------------------------
(***************************************************************************)
(* ZipArchive with its staging directory filled entry by entry: Extract    *)
(* runs ExtractEntries on whatever entries the archive holds, Archive adds *)
(* the nodes of a source folder.  Composes ZipArchive and ZipEntries.      *)
(***************************************************************************)
EXTENDS ZipArchive, ZipEntries

CONSTANTS
  Source,    \* source folders Archive is called with, as trees
  Record     \* entries an archive may hold

VARIABLES
  x,         \* the extraction in progress
  entries,   \* history: entries accepted, or written, by this call
  source,    \* the folder being archived
  visited    \* its nodes added so far

locals == <<x, entries, source, visited>>

ASSUME SourceAssumption ==
  /\ Source # {} /\ \A tree \in Source : IsTree(tree)
  /\ Record \subseteq Entry

Listed == {Reported(e) : e \in Record}

NoTree == <<>>
FreshLocals ==
  /\ x' = NothingExtracted(FALSE) /\ entries' = <<>>
  /\ source' = NoTree /\ visited' = {}

ExtractionInit ==
  /\ Init
  /\ x = NothingExtracted(FALSE) /\ entries = <<>> /\ source = NoTree /\ visited = {}

(* Either kind of volume may hold the staging directory.                   *)
StartFilling ==
  /\ CreateStaging
  /\ x' \in {NothingExtracted(folding) : folding \in BOOLEAN}
  /\ source' \in IF op = "archive" THEN Source ELSE {NoTree}
  /\ UNCHANGED <<entries, visited>>

(* The next entry passes every check and every system call it needs.       *)
ExtractNext ==
  /\ pc = "fill" /\ op = "extract"
  /\ Len(entries) < CountLimit
  /\ \E e \in Listed :
       /\ Accepts(x, e)
       /\ x' = Extracted(x, e)
       /\ entries' = Append(entries, e)
  /\ UNCHANGED <<vars, source, visited>>

(* Archive's callback adds the next node EnumFolder reports.               *)
AddNext ==
  /\ pc = "fill" /\ op = "archive"
  /\ \E p \in NextNodes(source, visited) :
       /\ entries' = Append(entries, EntryFor(source, p))
       /\ visited' = visited \cup {p}
  /\ UNCHANGED <<vars, x, source>>

(* Fill comes to its end: with success when nothing is left to add, with   *)
(* failure when a check or a call refuses an entry.                        *)
FinishFilling ==
  /\ Fill
  /\ op = "archive" /\ pc' = "probe" => Pending(source, visited) = {}
  /\ FreshLocals

ExtractionStatement ==
  \/ StartFilling \/ ExtractNext \/ AddNext \/ FinishFilling
  \/ /\ \/ Probe \/ CreateContainer \/ SetAside \/ Publish \/ Restore
        \/ DropContainer \/ Discard \/ Commit \/ DropBackup
     /\ UNCHANGED locals

ExtractionNext ==
  \/ ExtractionStatement
  \/ (\E o \in {"archive", "extract"} : Begin(o)) /\ UNCHANGED locals
  \/ Crash /\ FreshLocals

ExtractionSpec ==
  /\ ExtractionInit
  /\ [][ExtractionNext]_<<vars, locals>>
  /\ WF_<<vars, locals>>(ExtractionStatement)

------------------------------------------------------------------------------
(* Properties.                                                             *)

(* What has been accepted is on disk as it was listed, also on a volume    *)
(* that ignores more of the case than EntryIdentity does: every file entry *)
(* has its own bytes under its own name and every directory entry is a     *)
(* directory, so no entry has replaced another or lies under a file.       *)
ExtractedAsListed ==
  (op = "extract" /\ pc = "fill") => \A i \in DOMAIN entries :
    LET p == entries[i].path
    IN  IF entries[i].directory THEN IsFolder(x, p)
        ELSE IsFileExists(x, p) /\ x.tree[Key(x, p)] = entries[i].data

Files(tree) == {k \in DOMAIN tree : tree[k] # Folder}
BytesIn(tree, keys) == MapThenSumSet(LAMBDA k : Bytes[tree[k]], keys)

(* The counters, which are kept apart, never disagree about the limits.    *)
CountersHold ==
  /\ x.written <= x.declared /\ x.declared <= TotalLimit
  /\ \A k \in Files(x.tree) : Bytes[x.tree[k]] <= EntryLimit

(* What is on disk is what was counted as written, no more than was        *)
(* declared, and no file and no extraction is over its limit.              *)
LimitsHold == BytesIn(x.tree, Files(x.tree)) = x.written /\ CountersHold

(* Whether a list of entries is acceptable, said without an order.         *)
Total(list) == FoldLeft(LAMBDA n, e : n + e.size, 0, list)
Acceptable(list) ==
  /\ Total(list) <= TotalLimit
  /\ \A i \in DOMAIN list :
       LET e == list[i]
           p == e.path
       IN  /\ IsArchivePathSafe(p)
           /\ e.size <= EntryLimit /\ (e.size > 0 => e.packed * RatioLimit >= e.size)
           /\ e.type \in {"none", IF e.directory THEN "directory" ELSE "regular"}
           /\ ~e.directory => Bytes[e.data] = e.size
           /\ \A j \in DOMAIN list \ {i} :
                LET q == list[j].path
                IN  /\ EntryIdentity(p) # EntryIdentity(q)
                    /\ p \in Parents(q) => e.directory

(* On a case-sensitive volume an archive is accepted or not whatever the   *)
(* order of its entries: a directory may come before or after what is in   *)
(* it, and a file may never be the parent of another entry.                *)
AcceptanceIsOrderFree ==
  (op = "extract" /\ pc = "fill" /\ ~x.folding /\ Len(entries) < CountLimit)
    => \A e \in Listed : Accepts(x, e) <=> Acceptable(Append(entries, e))

(* A folder within the limits that the extraction has, whose names every   *)
(* volume keeps apart.                                                     *)
Portable(tree) ==
  /\ Cardinality(DOMAIN tree) <= CountLimit
  /\ \A p \in DOMAIN tree :
       /\ Slashed(p) = p /\ IsArchivePathSafe(p)
       /\ \A q \in DOMAIN tree \ {p} :
            Each(AsciiFold, p) # Each(AsciiFold, q) /\ Each(VolumeFold, p) # Each(VolumeFold, q)
  /\ \A p \in Files(tree) : /\ Bytes[tree[p]] <= EntryLimit
                            /\ Bytes[tree[p]] <= Deflated[tree[p]] * RatioLimit
  /\ BytesIn(tree, Files(tree)) <= TotalLimit

(* What Archive writes for a portable folder, in whatever order the volume *)
(* lists it, Extract turns into the same folder again, on either volume.   *)
RoundTrip ==
  (op = "archive" /\ pc = "fill" /\ Pending(source, visited) = {} /\ Portable(source))
    => \A folding \in BOOLEAN :
         LET r == ExtractEntries(folding, entries)
         IN  /\ r.ok
             /\ DOMAIN r.x.tree = {Key(r.x, p) : p \in DOMAIN source}
             /\ \A p \in DOMAIN source : r.x.tree[Key(r.x, p)] = source[p]
==============================================================================
