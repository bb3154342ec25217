# A TLA+ verification project for orchardseal

orchardseal signs, edits and audits iOS application bundles, archives and
Mach-O files. What it works on is usually the user's only copy, and almost
every operation is a sequence of writes and renames that may stop half way.
These modules model that part of the program: what is on disk after each step,
what a bundle's seals and signatures say about the files, and what a later call
does with what an earlier one has left.

All paths below are relative to the repository, as in `PROJECT.json`, whose
`map` gives the source lines of every definition.

## The system

| Component | State it keeps | Operations | Modelled in |
|---|---|---|---|
| `Application` (`cli/main.cpp`, `cli/application.*`) | the parsed options, and what a workflow has made: working folder, temporary archive, output, metadata | one workflow per process: audit, certificate check, single Mach-O, bundle or archive | `Application` |
| `Options` (`cli/options.*`) | `ParseResult` | `Parse` | `Options` |
| Audit (`core/audit*.cpp`) | the report, and a temporary directory | discovers bundles and binaries, lists issues, tries the signing files | `Audit` |
| `SigningAsset` (`core/signing_asset.*`) | key, certificate, profile, entitlements | `Init`, `GenerateCMS` | `SigningAsset` |
| Certificate check (`core/certificate_check.*`) | a resolver process, a pipe, a socket, a deadline | `CheckCertificate` | `CertificateCheck` |
| `AppBundle` (`core/app_bundle.*`) | the arguments of the call, `forceSign_`, `signingAsset_`, and a cache file per folder | `SignFolder` (one asset or several), `SignNode`, resources, dylib injection, Info.plist changes | `AppBundle` |
| `MachOFile` (`core/macho_file.*`) | the mapping, the path, `pendingOriginalFile_`, whether space was reallocated | `Init`, `InjectDylib`, `RemoveDylibs`, `Sign`, the destructor; privately `ReplaceAndReopen`, `RestorePendingOriginal`, `SignInPlace`, `ReallocateCodeSignatureSpace` | `MachOFile`, `MachOSlice` |
| `MachOSlice` (`core/macho_slice.*`) | pointers into one architecture's bytes, free load-command space, signature region | `Init`, `InjectDylib`, `RemoveDylibs`, `Sign`, `ReallocCodeSignSpace` | `MachOSlice` |
| `CodeSignature` (`core/code_signature.*`) | none | builds and parses the blobs of a signature | the page hashes, in `MachOSlice` |
| `ZipArchive` (`common/zip_archive.*`) | none but the disk | `Archive`, `Extract`, `EnumerateEntries` | `ZipArchive`, `ZipEntries`, `ZipExtraction` |
| `FileSystem` (`common/file_system.*`) | none but the disk | rename, remove, write, copy, enumerate, map | in the modules that call it |
| Metadata (`core/metadata.*`) | none | reads Info.plist and the icon, writes `metadata.json` | one action of `Application` |
| JSON and plists, Base64, hashes, logger, utilities, Windows layer | - | data conversion and output | not modelled |

How they interact. One process parses one command line and runs one workflow.
There are no threads; nearly everything interesting happens between two system
calls. The one other process is the child that resolves the name of an OCSP
responder, and the one other party the responder itself; both take steps of
their own while the program waits. `Application` extracts an archive with
`ZipArchive::Extract` into a working folder, calls `AppBundle::SignFolder` on
it, may have the result checked, and packs it with `ZipArchive::Archive`; a
folder or a single Mach-O is changed in place. Before it signs it makes a
`SigningAsset` of the key and each profile. An audit reads the same inputs and
tries the same assets but changes nothing. `SignFolder` walks the bundles inside
the app, deepest first, and for each one maps its executable with a
`MachOFile`, may edit it, writes the bundle's `_CodeSignature/CodeResources`
and signs the executable over it. A `MachOFile` makes every edit on a temporary
copy, using a second `MachOFile` and its `MachOSlice`s, and replaces the file by
renames. State shared between calls is on disk: the files, the
`.orchardseal_cache/<hash>.json` of a folder, and whatever a crashed or failed
call has left behind.

What is hard:

- a failing system call, or the death of the process, between any two steps of
  a replacement, and a failure of the rollback itself;
- several edits of one file that must be undone together when a later one fails;
- the order in which files are written, hashed and sealed in nested bundles;
- state that is reused: the cache of a folder, an existing CodeResources, the
  page hashes of an existing signature, the last chosen signing asset;
- limited space: load commands before the first file data, the signature region;
- archives whose entries collide, come in any order, or lie about their sizes, on
  volumes that compare names in their own way;
- a resolver that hangs, a server that sends anything in any pieces, and one
  deadline over all of it;
- many ways out of a workflow, each of which has to clean up and report.

`PROJECT.json` lists these hazards one by one with the line where each bites.

What makes each component correct:

- **MachOFile, ZipArchive**: the previous content is recoverable at every
  instant; a call that returns false has put it back, a call that returns true
  has installed what was asked for; nothing else stays on disk.
- **ZipArchive's entries**: an accepted entry is on disk as it was listed, and no
  limit is passed, in whatever order entries come; what is archived extracts.
- **MachOSlice**: load commands never reach file data; a dylib is loaded once
  and keeps its ordinal; a signature's hashes are those of the bytes.
- **AppBundle**: after a successful call every bundle's seal lists every file
  with its hash, every Mach-O is signed as it is, and each bundle is signed by
  the asset whose profile it embeds.
- **SigningAsset, Audit**: whoever signs is covered by the profile and grants no
  more than it; an audit that says ready has tried what signing will use, and has
  looked at every binary.
- **Certificate check**: it passes on complete evidence only, returns within its
  deadline, and leaves no process, pipe or socket.
- **Application, Options**: exit code 0 means that all the command line means has
  been done; only signed work is published; temporary files go on every way out.

## The modules

`AtomicPublish` is what `MachOFile` and `ZipArchive` promise to a user whose
file they replace: the published name shows the *base*, or a complete copy of
the base is held under another name; the base changes only to an accepted
content that is being shown. It says nothing of temporaries, backups, calls or
failures.

`MachOFile` is one `MachOFile` object and the directory of its executable. The
variable `disk` gives every name its content, `pc` the next statement; one
action is one system call on which the next statement depends, so that a crash
or a failure may come between any two. `Begin` is the entry of `InjectDylib`,
`RemoveDylibs` and `Sign`; `Capture` and `CopyToTemporary` are the exclusive
temporary copies; `EditCandidate` and `EditFails` the work on the copy; the
actions from `CloseForReplace` to `ReopenBackup` are the statements of
`ReplaceAndReopen`, in order; `RestorePendingOriginal` runs the same statements
with `restoring` set. `Destroy`, `Crash` and `NewObject` end one object and
start the next on the same file. The content of an executable is abstracted to
the set of edits in it, whether it is signed, and whether it parses: an edit
reported as good may produce a file that does not parse when it is opened, and
mapping a valid file may fail too, where `TransientOpen` says so. The variables
`base`, `reported` and `faults` are history and restrict no step.

`ZipArchive` is both `Archive` and `Extract`, which differ in what they rename
(a file in the staging directory, or the directory itself) and hence in what is
left to remove. Here, filling the staging directory is one step that succeeds or
fails.

`ZipEntries` is that step entry by entry, as operators on a record with the
locals of `ExtractEntries` and the tree in the staging directory: which entries
are refused (`IsArchivePathSafe`, the type in the Unix mode, the limits on one
entry, on all, on the ratio and on their number, a path seen before or that is a
directory), what an accepted one leaves on disk, and which entries `Archive`
writes for a folder. A path is a sequence of components; letter case is three
functions on components: the ASCII folding of `EntryIdentity`, the comparison of
the volume, which may fold more, and the cut at backslashes.
`ZipExtraction` composes both: it is `ZipArchive` with `Fill` replaced by
`StartFilling`, one `ExtractNext` or `AddNext` for each entry in any order, and
`FinishFilling`, on either kind of volume. It has every property of
`ZipArchive`, and those of the entries.

`MachOSlice` is the bytes an edit or a signature of a thin or fat file changes.
Only the first page of a slice is ever edited, so a page hash is abstracted to
the dylib commands, the signature command and the `__LINKEDIT` size it was
taken of. An operation is one step, because `MachOFile` works on a copy and
drops it on failure.

`AppBundle` is `SignFolder` on a fixed tree of bundles. Files are not given
contents: `fresh[n]` is the set of files whose hash in the CodeResources of `n`
is still that of the file, and writing a file removes it from every such set;
`signature` says for each Mach-O who signed it, whether it was edited since,
and which of Info.plist and CodeResources the signature still covers. The
statements of `SignFolder` and `SignNode` are actions; each may fail, with what
it may have written. The cache and the disk survive from call to call.

`Options` is `Parse` as the fold of `Take` over the arguments that getopt_long
reports, and `Meaning`, which says without a loop what a command line means.

`SigningAsset` is `Init` as an operator: from a key file, certificate, profile
and entitlements to an asset, ready or not, with the comparison of entitlements
with those a profile allows, wildcards included, and the chain that
`GenerateCMS` embeds. What OpenSSL answers (which key a file decrypts to, whose
signature a profile bears, whether a certificate is valid now) are fields of
the files. `Grants` and `Permits` say what a set of entitlements permits,
without looking at how the code compares them.

`CertificateCheck` is `CheckCertificate`: loading the leaf and its issuer from any kind of
file, and the OCSP request of a POSIX build: `Fork`, `AwaitAddress`, `Kill` and `WaitForChild`
with the child's own `ChildWrites` and `ChildExits`; `Connect`, `Send`,
`ReceiveHeader`, `ReceiveBody` against a server that may do anything; one
deadline, of which each wait takes a part; and `VerifyResponse`.

`Audit` is `Service::Run`, one action per stage, and `AuditBinary` for each
Mach-O in the order the directory is read; `StopScan` is an iteration that fails
half way. The input is a tree of nodes with the Info.plists and profiles in it.
`AuditInputs` holds the inputs and the sets of signing files for TLC.

`Application` composes `Options`, `CertificateCheck`, `Audit` and
`SigningAsset` to one process from `RunMain` to its exit code. `CheckRuns`,
`Resolver` and `AuditRuns` are the steps of the components it calls; the
operations of `AppBundle`, `MachOFile` and `ZipArchive` are one action each, with
the outcomes their own modules show: `Extract` and `PackArchive` publish or keep,
`EditMachO` and `SignMachO` install or restore, `SignFolder` signs everything or
leaves whatever it has changed.

`MCAppBundle`, `MCMachOSlice`, `MCZipExtraction`, `MCAudit` and `MCApplication`
hold values for TLC; the modules whose name ends in `Proofs` hold theorems.

## What is checked

| Run | Question | Result |
|---|---|---|
| `macho_file` | Is the original recoverable, restored or replaced, and the directory clean, whatever fails and wherever the process dies? Does `MachOFile` implement `AtomicPublish`? | holds |
| `macho_file_restore` | The same evidence when a *valid* file cannot be mapped while it is being restored | violated |
| `zip_archive` | The same for `Archive` and `Extract`, entry by entry: is what was accepted on disk as listed, within the limits, whatever the order; does a folder survive the round trip; do calls end? | holds |
| `macho_slice` | Space, uniqueness, ordinals and forced signatures over any sequence of operations | holds |
| `macho_slice_unforced` | Does a signature without `-f` cover the bytes? | violated |
| `macho_slice_fat` | Can a fat file be signed when its slices could be signed alone? | violated |
| `app_bundle` | Seals, signers and profiles after a forced call, after whatever the previous call has left | holds |
| `app_bundle_again` | Are the seals right after a second call without `-f`? | violated |
| `app_bundle_provision` | Does `-R` remove the profiles? | violated |
| `app_bundle_adhoc` | Does a call that meets no failing system call succeed? | violated |
| `application` | Does exit code 0 mean that everything was done, signed as the profile allows and checked on evidence; is an input touched, a temporary file left, something unsigned published; is an audit that says ready right; does every run end? | holds |
| `audit_framework` | Does an audit block only what signing or running would refuse? | violated |

The seven violations are disagreements between the code and its documentation,
described under `findings` in `PROJECT.json`, each with the line it quotes.

In short: restoring an original may delete it if the restored file cannot be
mapped once (`macho_file.cpp:424`); a second unforced signature of a folder
leaves stale hashes in every seal (`app_bundle.cpp:586`), ignores `-R`
(`app_bundle.cpp:270`), and always fails for ad-hoc signing
(`app_bundle.cpp:373`); an unforced signature of an edited file keeps hashes of
the old bytes (`code_signature.cpp:609`); one slice that already has the new
length makes a fat file unsignable (`macho_slice.cpp:890`); an audit refuses an
app with a framework or a test bundle, because their executables are libraries
(`audit.cpp:560`).

### Bounds

- `macho_file`: seven names, of which one call needs at most five besides the
  path (`NamesPerCall`); a new call begins only while that many are free. One
  more call therefore runs beside whatever two failing calls can leave. Edits
  are a set, so any number of calls gives the same images. No bound on the
  number of calls, objects or crashes.
- `zip_archive`: a destination, three other names and two contents: room for
  the staging directory and container of one call and a leftover of an earlier
  one. Two attempts (`Attempts`) stand for the 32 of the code: one that fails
  and one that is the last. Archives of up to three entries out of fifteen
  records: files and directories that differ in ASCII case or in other case, are
  each other's parent, contain a backslash or `..`, are of the wrong type, hold
  more or less than they declare, or are one above a limit; three is enough for
  a directory, what is in it, and something that collides with either. The
  limits are 2 for an entry, 3 in all, a ratio of 2, and 3 entries. Four source
  folders, one of which is not `Portable`.
- `macho_slice`: two slices, one linked dylib and one more; `Room` fits the
  linked dylib's command with either the other one or the signature's command
  but not all three, and the padding of the last one decides; a signature needs more
  than the smaller capacity, or more than the grown one.
- `app_bundle`: an app, an extension and a framework in it, a library, two
  profiles; two calls (`MaxCalls`), because all state that survives a call is
  made by one call and met by the next. Four command lines between which the
  second call may differ from the first: plain, forced with `-R` and `-D`,
  Info.plist changes with two profiles, injection everywhere with the profiles
  the other way round. The runs that look for one disagreement use only the
  command lines it is about.

- `application`: one process. The command lines combine every set of
  credentials with the wishes that change the way of a run, and pair arguments
  that are refused, repeated or contradict each other in both orders. An
  operand of each kind; a file to check of each kind, an unreadable and a
  partly signed one included. Time is in units of the shortest wait: a deadline
  of four (15 s), at most two for one call (5 s), and each transfer in at most
  two pieces, so that a deadline may pass before, between and after them. A
  response lacks at most one of the facts the verdict needs, so that each of
  them is seen to matter. The inputs of an audit and the signing files are
  right, or wrong in one way each (`AuditInputs`), and each set of signing files
  meets each command line that uses such a set.
- `audit_framework`: every input of `AuditInputs`, without signing files.

`CHECK_DEADLOCK FALSE` is used where the system stops: after `MaxCalls` calls,
after a crash between two renames, when there is no executable to open, and
when the process has exited.

### Fairness

`CallsEnd` (`ZipExtraction`) assumes weak fairness of `ExtractionStatement`, and
`RunEnds` (`Application`) weak fairness of `Program`: a sequential program that
is not killed executes its next statement. Nothing is assumed of which outcome a
system call has, nor of the resolver's child and the server, which may stop for
ever: waiting is a statement that returns when its time is over (`select` and
the socket timeouts, with the remaining time). The container loop ends because its attempts are counted.

## What is proved

The theorems hold for every value of the constants that the named assumptions
of the modules allow. In each module one step is proved per action, and the
temporal step is left to PTL.

`MachOFileProofs`, for every directory, any number of edits, calls, failures,
crashes and objects:

- `TypeCorrect`. By itself `TypeOK` is not inductive: a step that reads
  `disk[temp]` or `disk[backup]` needs these to be names, and a rename needs them
  to be different. `TypeInv` adds `NamesDistinct` (which of the five names are
  in use at each statement, and that they differ, except that the temporary is
  the kept original while restoring) and `PathState` (what the executable's name
  holds at the statements that depend on it).
- `BaseAlwaysRecoverable`, if `"restore" \notin TransientOpen`, that is, if a valid
  file that is being restored can be mapped. `BaseLocated` says where the base
  is at each statement: under its own name, in the kept original, in the backup,
  or anywhere outside `Doomed`, the names that the coming statements may remove
  or overwrite. That the assumption is needed is what `macho_file_restore` shows.
- Under the same assumption `FailureHasRestored`, `UnusableHasBackup`,
  `ReportedIsInstalled`, `NothingIsLeftBehind` and the refinement
  `ExecutablePublishedAtomically`. Each adds one invariant to the two above:
  `Undoable` (what every edit since the last signature can be undone from),
  `Reporting` (which edits the image at each statement has), `Tidy` (which names
  may be taken at each statement), `Complete` (the base is a complete image,
  and is held or shown). For the refinement every step changes the base, or what
  holds it, or neither (`StepsAreQuietOrCommit`).

`ZipProofs`, for any names, contents, attempts, calls, failures and
crashes: `ZipTypeCorrect`, `FailureHasKeptPrevious`, `SuccessHasPublished` from
`TypeInv` with `DestinationState`, what the destination and the backup hold at
each statement; `ArchivesPublishAtomically` with `BaseHeld` in addition.
`NothingStaysBeside` rests on `OnlyInUse`: without a fault, whatever is taken
beside the destination is in use by the statement that comes next.

`ExtractionSteps` shows that filling by entries leaves the directory as `Fill`
does, which carries all of these over to the composed module
(`ExtractionPublishesAtomically`, `ExtractionKeepsOrPublishes`,
`ExtractionLeavesNothing`). Of the entries, for every archive, every limit and
every way in which a volume may compare names, the same module proves:

- `ExtractsAsListed`: `ExtractionInv` says that every accepted entry is on disk;
  the next one is written only where nothing is, and makes folders only where no
  file is.
- `ExtractsWithinLimits`: the bytes on disk, a sum over the files, are those
  counted (`IsMeasured`); each accepted file adds its own bytes to both
  (`OneMore`).
- `AcceptsInAnyOrder`, on a case-sensitive volume: `Accounted` says that the state
  of an extraction is a function of the entries accepted, so that `Accepts` asks
  of the next entry what `Acceptable`, in which no order occurs, asks of the list
  with it. `InProgress` adds that this is so at every step.
- `ArchivesRoundTrip`: `Archiving` says that the entries of `Archive` enumerate the
  folder, no node before the folders it is in (`Enumerates`); by induction over
  them `Extract` accepts each and has restored that part of the folder
  (`Restored`). The folder is a tree (`SourceAssumption`), and zlib gives every
  content some length (`Deflated`), of which `Portable` only asks that the ratio
  stays within its limit.

`MachOSliceProofs`, for any number of slices, any dylibs, names and sizes:
`SlicesTyped`, `CommandsFit`, `LoadedOnce`, `ForcedCovers` and the action property
`OrdinalsStay`. `Sound` of each slice is inductive: it is typed, its commands fit
their room with the signature's, no two load the same dylib, and no alternate
code directory is of SHA-1. The bytes of commands are a running sum: replacing a
command in place, appending one that fits and leaving some out are followed along
it (`SameBytes`, `BytesOfAppend`, `RebuiltShrinks`). That a dylib is loaded once
needs that the linker made it so (`LinkerAssumption`; `InjectDylib` looks for the
first command of that name only).

`Recursion` is what the last two and the options below share: induction up to a
number, and that a recursive function up to a number, and a fold over a finite
set, exist and satisfy their equations. The library states induction for an
operator, which the provers here cannot instantiate; these lemmas state it for
sets and functions, from the library's well-foundedness of finite sets.

`CertificateCheckProofs`, for every deadline, length of each transfer, resolver
and server: `PassesOnlyOnEvidence` and `RequestsAreConfined`, from `CheckInv`, which
says at each step whether a child, its pipe and the socket exist, and that a
wait never exceeds what remains.

`ApplicationProofs`, for all command lines, operands and inputs:
`ApplicationIsChecking` shows that each step of a run is one of a certificate
check or leaves it alone, which carries the two theorems over. `AppInv` says
what has happened when each statement is reached; from it follow
`TempIsLeftClean`, `SuccessIsDone`, `OnlySigningTouchesInput` and
`OnlySignedIsPublished`. `AssetsHold` (every ready asset is covered by its profile
and has its chain) gives `SignersAreProvisioned`.

For the last, `AuditProofs` has the lemmas: `InitAsset` makes an asset ready
only if it is authorized, and `EntitlementsAllowed` implies that nothing is
granted that the profile does not grant. They use `RootAssumption` (an Apple root
is not an intermediate) and that values are `Proper`: no pattern ends in two
stars, since the code lets an allowed `p**` cover a requested `p*`, and that stands
for more strings than are allowed.

`OptionsAreMeant` says that `Parse` gives every command line its `Meaning`: `Said` is
what the first arguments have said, and each further one adds what it means, or
is refused for good. `ApplicationTyped` follows from these, from `Pieced` of
`CertificateCheckProofs` (no transfer has more pieces than its message) and from
`SubjectAssumption`: a file is known as a Mach-O by its magic, never by its name.

Of an audit, for every tree and all signing files, `AuditProofs` proves
`ReadyIsSignable`, from `ReadyInv`, which says what each stage has seen to when no
error has been raised, and `ReportsAreComplete`, from `CompleteInv`: while
directories are read (`Scanned`), every Mach-O of the roots is still to come, in
the report once, reported invalid, missed, or under a root not yet entered. No
Mach-O is under two roots (`RootsApart`), since a root is not inside another and a
path is a sequence of names (`TreesAssumption`). `ApplicationProofs` carries both
over (`RunsReportReadyOnlyIfSignable`, `RunsReportCompletely`).

`AppBundleProofs`, for every tree of bundles, every command line, whatever an
earlier call has left and any number of calls: `AppTypeCorrect`,
`FinishedStaySealed`, `ProfilesMatchSigners`, `ForcedCallsRemoveProvision` and
`ForcedCallsSignEverything`. That a finished bundle is sealed is not inductive:
the step that signs an executable needs the seal just written
(`NodeReady`) and that a forced call forces every bundle (`Forcing`), and a later
write must not be inside the finished bundle. `Order` says that deeper bundles
are finished first, so a finished one never contains the one being worked on,
and each statement writes only in the folder of that one (`LocalStep`,
`LocalKeeps`). `Accounted` (every bundle is finished, in work or still to come)
and `SigningInv` (what the call has come to is signed by one of its assets) give
the last theorem. They use the tree's assumptions (a bundle inside another has a
greater depth, and the app contains all), and that a command line has an asset;
`Greatest` (which of several matching profiles is the last) rests on the
library's theorems about finite sets.

Every invariant and every action property of the runs that hold is thus stated by
a theorem. Only model-checked are:

- liveness (`CallsEnd`, `RunEnds`), which needs ENABLED: beyond the prover;
- what the violations show, each a counterexample;
- that the hypotheses are not empty: the runs reach every action under them.

The theorems also rest on what the assumptions say of the constants. Each is named
in the module that declares the constant and evaluated by TLC in the runs.

## What is abstracted, and what is not modelled

- Reading a file on an error path, logging and messages; the metadata copied to
  a replacement; modes and times of archive entries.
- Random names are fresh: the program creates and renames exclusively and
  retries on a collision.
- Removing a folder may fail half way; the model then leaves a partial one.
- An Info.plist, a profile and a CodeResources are what was hashed, not text. A
  CodeResources cut short by a failing write may or may not be readable later.
- `AppBundle` keeps its tree: removing extensions and the watch app, replacing
  icons and finding the app folder are left out. A dylib to inject is one file.
- `Application` sees `SignFolder`, a `MachOFile`, `Extract` and `Archive` by their
  outcome; what they leave is the subject of their own modules.
- The Windows resolver, which uses a thread of the system instead of a child
  process, and printing certificates and signatures.
- Cryptography, CMS, the text of property lists and JSON, Base64, hashes,
  formatting, the report's text, the logger and the Windows layer: data or
  libraries, without control that these properties see.
- The arithmetic of the fat relayout (`macho_file.cpp:568-584`): `MachOSlice` takes
  it to succeed or fail.

### Observations

Met while modelling; none is the subject of a run, and none is counted as a finding:

- `docs/architecture.md` says that alternate separators are rejected;
  `EnumerateEntries` turns a backslash into a slash before `IsArchivePathSafe`
  looks at the path (`ZipEntries`: `Slashed`).
- `-a -C` without a key or a profile only checks; the check after an ad-hoc
  signature always returns -2, which is a failure.
- `-k` without `-m` on a Mach-O prints information and exits with 0; `-x`
  without an archive as output, and `-o` and `-i` for a Mach-O, do nothing.
- `--audit-report` may name the audited file itself.
- An audit accepts `com.apple.application-identifier` in a profile, `Init` only
  `application-identifier`; an audit never tries `GenerateCMS`.
- An unreadable `-e` file is an error for ad-hoc signing and silently replaced by the
  profile's entitlements otherwise (`signing_asset.cpp:1102`). The certificate in
  a PKCS#12 file silently takes precedence over `-c`.
- Frameworks beside an app are listed but not scanned; an executable that is a
  symbolic link is not audited (`audit.cpp:600`); `FAT_MAGIC_64` is not recognised.
- `ScanMachOBinaries` and `FindBundlePaths` end silently when a directory cannot be
  read on (`audit.cpp:617`; `StopScan`).
- `Archive` may write an IPA that `Extract` refuses: content that deflates better
  than 1000:1 (`zip_archive.cpp:733`). `Portable` leaves such a folder out.
- An existing directory at the destination of `Archive` is moved aside and then
  deleted (`zip_archive.cpp:558`); the app folder is found by the last `Payload`
  in its path (`application.cpp:302`); `AppSize` is an `int` (`metadata.cpp:369`).
- In the `files` scope the dylib may be copied onto the very file that is mapped
  (`app_bundle.cpp:524`); `ApplyAppModifications` ignores the results of its writes
  (`app_bundle.cpp:889`); a Mach-O without a bundle id is signed under the name of its
  temporary copy (`macho_file.cpp:494`); a check of a fat file looks at one
  certificate for all slices.

## Plan

Done, in this order: `AtomicPublish`, `MachOFile`, `ZipArchive`, `AppBundle`,
`MachOSlice`, `ZipEntries` and `ZipExtraction`, `Options`, `CertificateCheck`,
`SigningAsset`, `Audit`, `Application`, each with the proofs named above.

Left:

1. A composition of `AppBundle` with `MachOFile` that keeps the pending original of each
   executable, so that a failure of `SignNode` between an injection and the
   signature can be followed into the next call (`macho_file.cpp:243`).
2. `FatLayout`: 32-bit offsets of the fat relayout.
3. The ways of `AppBundle` that change the tree: removing extensions and the
   watch app, replacing icons.
