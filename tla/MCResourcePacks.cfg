\* Two packs with a file beside the manifest, two failing calls, three starts.
\* After the last start the hub serves for good.
CONSTANTS
    texture = texture
    NumPacks = 2
    MaxRelease = 4
    File = {texture, manifest}
    Manifest = manifest
    Order <- ArchiveOrder
    Header <- ManifestVersion
    Terminal = TRUE
    MaxFaults = 2
    MaxLives = 3

SPECIFICATION PacksSpec

CHECK_DEADLOCK FALSE

INVARIANTS
    UpToDateIsWhole

PROPERTIES
    OldPackOutlivesDownload
    NoNeedlessDownload
