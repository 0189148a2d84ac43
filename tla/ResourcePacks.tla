----------------------------- MODULE ResourcePacks -----------------------------
(***************************************************************************)
(* The resource packs of the hub (pokebedrock/resources/manager.go).  At   *)
(* every start, before anything else, CheckAndUpdate compares the pack in  *)
(* each directory with the latest release on GitHub, and replaces it: the  *)
(* archive is downloaded next to it, the directory removed, the archive    *)
(* extracted file by file, and the version file written last.  Any call    *)
(* may fail, and the hub may be killed between any two steps; what is on   *)
(* the disk is then what the next start goes by.                           *)
(*                                                                         *)
(* The content of a file is the release it comes from, or Torn when it was *)
(* cut off (truncated, not yet or not entirely written).  Directories      *)
(* within a pack, paths that are skipped and progress are left out.        *)
(***************************************************************************)
EXTENDS Integers, Sequences, FiniteSets

CONSTANTS
    NumPacks,     \* packs are checked in the order 1..NumPacks
    MaxRelease,   \* releases are 1..MaxRelease (bound)
    File,         \* files of a pack
    Manifest,     \* manifest.json
    Order,        \* the files of a release in the order of its archive
    Header,       \* the version in the manifest of a release: 0 if it has none, and any
                  \* other than the release itself if its tag says something else;
                  \* none claims a later release
    Terminal,     \* the hub may be started from a terminal
    MaxFaults,    \* calls that fail (bound)
    MaxLives      \* starts of the hub (bound)

Pack == 1..NumPacks

Release == 1..MaxRelease

ASSUME PacksAssumption ==
    /\ NumPacks \in Nat \ {0} /\ MaxRelease \in Nat \ {0}
    /\ Manifest \in File
    /\ Order \in [Release -> Seq(File)]
    /\ \A r \in Release : Header[r] \in Nat /\ (Header[r] \in Release => Header[r] <= r)
    /\ Terminal \in BOOLEAN /\ MaxFaults \in Nat /\ MaxLives \in Nat \ {0}

VersionFile == "version"

Entry == File \cup {VersionFile}

Absent == 0
Torn == -1

VARIABLES
    latest,    \* the latest release of each pack on GitHub
    dir,       \* the directory of each pack
    archive,   \* the .mcpack files of each pack
    hub,       \* where CheckAndUpdate is
    verdict,   \* what this start has found out about each pack
    faults, lives

packVars == <<latest, dir, archive, hub, verdict, faults, lives>>

Content == {Absent, Torn} \cup Release

PacksTypeOK ==
    /\ latest \in [Pack -> Release]
    /\ dir \in [Pack -> [Entry -> Content]]
    /\ archive \in [Pack -> [Release -> {"none", "part", "whole"}]]
    /\ hub.pc \in {"cleanup", "check", "create", "copy", "open", "remove", "extract",
                   "write", "tidy", "version", "serving"}
    /\ hub.pack \in Pack /\ hub.release \in Release /\ hub.next \in Nat
    /\ verdict \in [Pack -> {"none", "current", "declined", "updated", "failed"}]
    /\ faults \in 0..MaxFaults /\ lives \in 1..MaxLives

Started == [pc |-> "cleanup", pack |-> 1, release |-> 1, next |-> 1]

PacksInit ==
    /\ latest = [p \in Pack |-> 1]
    /\ dir = [p \in Pack |-> [e \in Entry |-> Absent]]
    /\ archive = [p \in Pack |-> [r \in Release |-> "none"]]
    /\ hub = Started
    /\ verdict = [p \in Pack |-> "none"]
    /\ faults = 0 /\ lives = 1

-----------------------------------------------------------------------------
(* What is read from the disk *)

Pk == hub.pack
Rel == hub.release

\* Mutant of currentVersion: the version file is never consulted.
currentVersionManifest(p) ==
    LET m == dir[p][Manifest] IN IF m \in Release THEN Header[m] ELSE 0

\* The version in the manifest or else the version file; 0 if there is neither.
currentVersion(p) ==
    LET m == dir[p][Manifest]
        v == dir[p][VersionFile]
    IN  IF m \in Release /\ Header[m] # 0 THEN Header[m]
        ELSE IF v \in Release THEN v ELSE 0

isResourcePackValid(p) == dir[p][Manifest] # Absent

-----------------------------------------------------------------------------
(* Ends of a check *)

HubAt(pc) == hub' = [hub EXCEPT !.pc = pc]

\* checkAndUpdatePack returns nil, the loop goes on with the next pack.
Done(found) ==
    /\ verdict' = [verdict EXCEPT ![Pk] = found]
    /\ hub' = IF Pk < NumPacks THEN [Started EXCEPT !.pack = Pk + 1]
                               ELSE [hub EXCEPT !.pc = "serving"]

\* An error ends the loop; it is logged, and the hub starts all the same.
Errs ==
    /\ verdict' = [verdict EXCEPT ![Pk] = "failed"]
    /\ HubAt("serving")

Fault(n) == faults + n <= MaxFaults /\ faults' = faults + n

\* The deferred removal of the archive, which may fail as well.
ErrsAndRemoves(n) ==
    /\ Errs
    /\ \/ Fault(n) /\ archive' = [archive EXCEPT ![Pk][Rel] = "none"]
       \/ Fault(n + 1) /\ UNCHANGED archive
    /\ UNCHANGED <<latest, dir, lives>>

-----------------------------------------------------------------------------
(* CheckAndUpdate *)

\* The folder cannot be made.
MkdirFails ==
    /\ hub.pc = "cleanup" /\ Pk = 1 /\ Fault(1)
    /\ HubAt("serving")
    /\ UNCHANGED <<latest, dir, archive, verdict, lives>>

\* Archives of an earlier start are removed, as far as that succeeds.
cleanupMcpacks ==
    /\ hub.pc = "cleanup"
    /\ HubAt("check")
    /\ \/ /\ archive' = [archive EXCEPT ![Pk] = [r \in Release |-> "none"]]
          /\ UNCHANGED faults
       \/ /\ Fault(1)
          /\ \E kept \in SUBSET Release :
                archive' = [archive EXCEPT ![Pk] =
                               [r \in Release |-> IF r \in kept THEN @[r] ELSE "none"]]
    /\ UNCHANGED <<latest, dir, verdict, lives>>

LatestReleaseFails ==
    /\ hub.pc = "check" /\ Fault(1)
    /\ Errs
    /\ UNCHANGED <<latest, dir, archive, lives>>

IsCurrent(p) == currentVersion(p) = latest[p] /\ isResourcePackValid(p)

UpToDate ==
    /\ hub.pc = "check" /\ IsCurrent(Pk)
    /\ Done("current")
    /\ UNCHANGED <<latest, dir, archive, faults, lives>>

\* The prompt, which is shown on a terminal if some version is installed, is
\* declined or fails.
Prompted ==
    /\ hub.pc = "check" /\ ~IsCurrent(Pk)
    /\ Terminal /\ currentVersion(Pk) # 0
    /\ \/ Done("declined") /\ UNCHANGED faults
       \/ Errs /\ Fault(1)
    /\ UNCHANGED <<latest, dir, archive, lives>>

Outdated ==
    /\ hub.pc = "check" /\ ~IsCurrent(Pk)
    /\ hub' = [hub EXCEPT !.pc = "create", !.release = latest[Pk]]
    /\ UNCHANGED <<latest, dir, archive, verdict, faults, lives>>

-----------------------------------------------------------------------------
(* downloadResourcePack *)

\* No asset, no answer, or the file cannot be created.
DownloadFails ==
    /\ hub.pc = "create" /\ Fault(1)
    /\ Errs
    /\ UNCHANGED <<latest, dir, archive, lives>>

Create ==
    /\ hub.pc = "create"
    /\ archive' = [archive EXCEPT ![Pk][Rel] = "part"]
    /\ HubAt("copy")
    /\ UNCHANGED <<latest, dir, verdict, faults, lives>>

\* The body ends early, which io.Copy notices only if its length was announced.
Copy ==
    /\ hub.pc = "copy"
    /\ HubAt("open")
    /\ \/ archive' = [archive EXCEPT ![Pk][Rel] = "whole"] /\ UNCHANGED faults
       \/ Fault(1) /\ UNCHANGED archive
    /\ UNCHANGED <<latest, dir, verdict, lives>>

CopyFails == hub.pc = "copy" /\ ErrsAndRemoves(1)

\* Mutant of OpenReader: the directory is removed before the archive is read.
OpenReaderLater ==
    /\ hub.pc = "open"
    /\ HubAt("remove")
    /\ UNCHANGED <<latest, dir, archive, verdict, faults, lives>>

\* An archive that was cut off has no central directory.
OpenReader ==
    /\ hub.pc = "open"
    /\ \/ /\ archive[Pk][Rel] = "whole"
          /\ HubAt("remove")
          /\ UNCHANGED <<latest, dir, archive, verdict, faults, lives>>
       \/ archive[Pk][Rel] # "whole" /\ ErrsAndRemoves(0)

\* os.RemoveAll, entry by entry ...
RemoveEntry(e) ==
    /\ hub.pc = "remove" /\ dir[Pk][e] # Absent
    /\ dir' = [dir EXCEPT ![Pk][e] = Absent]
    /\ UNCHANGED <<latest, archive, hub, verdict, faults, lives>>

\* ... until nothing is left, or it fails, which is only a warning.
Removed ==
    /\ hub.pc = "remove"
    /\ hub' = [hub EXCEPT !.pc = "extract", !.next = 1]
    /\ \/ (\A e \in Entry : dir[Pk][e] = Absent) /\ UNCHANGED faults
       \/ Fault(1)
    /\ UNCHANGED <<latest, dir, archive, verdict, lives>>

Current == Order[Rel][hub.next]

\* Mutant of OpenFile: the version file is written before the files.
OpenFileVersioned ==
    /\ hub.pc = "extract" /\ hub.next <= Len(Order[Rel])
    /\ dir' = [dir EXCEPT ![Pk][Current] = Torn, ![Pk][VersionFile] = Rel]
    /\ HubAt("write")
    /\ UNCHANGED <<latest, archive, verdict, faults, lives>>

OpenFile ==
    /\ hub.pc = "extract" /\ hub.next <= Len(Order[Rel])
    /\ dir' = [dir EXCEPT ![Pk][Current] = Torn]
    /\ HubAt("write")
    /\ UNCHANGED <<latest, archive, verdict, faults, lives>>

WriteFile ==
    /\ hub.pc = "write"
    /\ dir' = [dir EXCEPT ![Pk][Current] = Rel]
    /\ hub' = [hub EXCEPT !.pc = "extract", !.next = @ + 1]
    /\ UNCHANGED <<latest, archive, verdict, faults, lives>>

\* A directory or file cannot be made, or its content not be written.
ExtractFails == hub.pc \in {"extract", "write"} /\ ErrsAndRemoves(1)

\* All files are extracted: is there a manifest?
Extracted ==
    /\ hub.pc = "extract" /\ hub.next > Len(Order[Rel])
    /\ \/ /\ isResourcePackValid(Pk)
          /\ HubAt("tidy")
          /\ UNCHANGED <<latest, dir, archive, verdict, faults, lives>>
       \/ ~isResourcePackValid(Pk) /\ ErrsAndRemoves(0)

RemoveArchive ==
    /\ hub.pc = "tidy"
    /\ HubAt("version")
    /\ \/ archive' = [archive EXCEPT ![Pk][Rel] = "none"] /\ UNCHANGED faults
       \/ Fault(1) /\ UNCHANGED archive
    /\ UNCHANGED <<latest, dir, verdict, lives>>

\* os.WriteFile truncates the version file ...
TruncateVersion ==
    /\ hub.pc = "version" /\ dir[Pk][VersionFile] # Torn
    /\ dir' = [dir EXCEPT ![Pk][VersionFile] = Torn]
    /\ UNCHANGED <<latest, archive, hub, verdict, faults, lives>>

\* ... and writes it, or fails, which is only a warning.
WriteVersion ==
    /\ hub.pc = "version"
    /\ \/ /\ dir[Pk][VersionFile] = Torn
          /\ dir' = [dir EXCEPT ![Pk][VersionFile] = Rel]
          /\ UNCHANGED faults
       \/ Fault(1) /\ UNCHANGED dir
    /\ Done("updated")
    /\ UNCHANGED <<latest, archive, lives>>

-----------------------------------------------------------------------------

\* GitHub's latest release only moves forward.
Publish(p) ==
    /\ latest[p] < MaxRelease
    /\ latest' = [latest EXCEPT ![p] = @ + 1]
    /\ UNCHANGED <<dir, archive, hub, verdict, faults, lives>>

\* The hub ends, or is killed at any step, and is started again.
StartAgain ==
    /\ lives < MaxLives
    /\ lives' = lives + 1
    /\ hub' = Started
    /\ verdict' = [p \in Pack |-> "none"]
    /\ UNCHANGED <<latest, dir, archive, faults>>

CheckAndUpdate ==
    \/ MkdirFails \/ cleanupMcpacks \/ LatestReleaseFails \/ UpToDate \/ Prompted \/ Outdated
    \/ DownloadFails \/ Create \/ Copy \/ CopyFails
    \/ OpenReader \/ (\E e \in Entry : RemoveEntry(e)) \/ Removed
    \/ OpenFile \/ WriteFile \/ ExtractFails \/ Extracted
    \/ RemoveArchive \/ TruncateVersion \/ WriteVersion

PacksNext ==
    \/ CheckAndUpdate
    \/ \E p \in Pack : Publish(p)
    \/ StartAgain

PacksSpec == PacksInit /\ [][PacksNext]_packVars

-----------------------------------------------------------------------------
(* Properties *)

IsWhole(p, r) == \A i \in 1..Len(Order[r]) : dir[p][Order[r][i]] = r

\* The files that come before the manifest in the archive of r are in place.
WholeUpToManifest(p, r) ==
    \A i \in 1..Len(Order[r]) :
        Order[r][i] = Manifest => \A j \in 1..i : dir[p][Order[r][j]] = r

\* A release whose manifest has the version of its tag, or none.
Recognised(r) == Header[r] \in {0, r}

\* A pack that a start takes for up to date is (if its release has a manifest,
\* and one by which it is recognised): the manifest is the one of the release
\* and readable, and all that the archive has before it is in place, whatever
\* failed and whenever the hub was killed in the updates before.  For the files
\* that come after the manifest this is so only if the version file had to
\* decide.  A release that is not recognised is replaced by itself at every
\* start, and a kill in between can leave its version file beside a torn manifest.
UpToDateIsWhole ==
    \A p \in Pack : verdict[p] = "current" =>
        LET r == currentVersion(p)
        IN  /\ r \in Release
            /\ (Recognised(r) /\ \E i \in 1..Len(Order[r]) : Order[r][i] = Manifest) =>
                   /\ dir[p][Manifest] = r
                   /\ WholeUpToManifest(p, r)
                   /\ Header[r] = 0 => IsWhole(p, r)

\* Players keep the old pack when a download goes wrong: nothing of a whole
\* pack is removed before the archive that replaces it is whole on the disk.
OldPackOutlivesDownload ==
    [][\A p \in Pack, r \in Release :
          IsWhole(p, r) /\ ~IsWhole(p, r)' => archive[p][Rel] = "whole"]_packVars

\* A release that is installed, and recorded by the manifest or, if that has no
\* version, by the version file, is not downloaded again, over any number of
\* starts.  (One whose manifest has another version than its tag is, at each.)
NoNeedlessDownload ==
    [][hub.pc = "create" /\ hub'.pc = "copy" =>
          ~(/\ dir[Pk][Manifest] = Rel /\ IsWhole(Pk, Rel)
            /\ \/ Header[Rel] = Rel
               \/ Header[Rel] = 0 /\ dir[Pk][VersionFile] = Rel)]_packVars

=============================================================================
