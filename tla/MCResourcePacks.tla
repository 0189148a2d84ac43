---------------------------- MODULE MCResourcePacks ----------------------------
(* An instance of ResourcePacks for TLC. *)
EXTENDS ResourcePacks

CONSTANT texture

\* Release 1 has the manifest last and with its version, release 2 first and
\* without a version, release 3 first and with the version of release 1, and
\* release 4 has none.
ArchiveOrder == <<<<texture, Manifest>>, <<Manifest, texture>>, <<Manifest, texture>>, <<texture>>>>

ManifestVersion == <<1, 0, 1, 0>>

=============================================================================
