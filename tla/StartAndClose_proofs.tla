-------------------------- MODULE StartAndClose_proofs --------------------------
(***************************************************************************)
(* Proofs about what the hub does once: the update of the resource packs   *)
(* at its start, for any packs, releases, archives, starts and failing     *)
(* calls, and its shutdown with the VPN cache, for any addresses and       *)
(* intervals.                                                              *)
(*                                                                         *)
(* Resource packs: DiskGood is the part that outlives a kill: what a       *)
(* manifest or a version file of the latest release says of the other      *)
(* files.  The invariant of an update adds, for each step of it, what the  *)
(* step has written so far, so that the next start finds DiskGood wherever *)
(* this one ends.                                                          *)
(*                                                                         *)
(* VPN cache: what the file lacks is kept track of by the dirty bit        *)
(* (CleanIsWritten) and the dirty bit by the signal, the timer and the     *)
(* failure (DirtyIsScheduled); at the shutdown, the last snapshot has      *)
(* every verdict that was not set again (LastSnapshot).                    *)
(***************************************************************************)
EXTENDS HubClose, ResourcePacks, TLAPS

-----------------------------------------------------------------------------
(* The inductive invariant *)

Writing == flusher.pc \in {"write", "rename"}

CleanIsWritten ==
    ~dirty => /\ ~Writing => data = Loaded(file)
              /\ Writing => data = flusher.snapshot

DirtyIsScheduled ==
    dirty => /\ Writing => signalling # {} \/ flush
             /\ flusher.pc = "select" => signalling # {} \/ flush \/ timer # Never \/ failed

\* Entries only move from the file to the cache to the snapshot to the file.
KnownStaysKnown ==
    \A a \in Address :
        /\ Loaded(file)[a] # "unknown" => data[a] # "unknown"
        /\ Writing => /\ Loaded(file)[a] # "unknown" => flusher.snapshot[a] # "unknown"
                      /\ flusher.snapshot[a] # "unknown" => data[a] # "unknown"

LastIsStop == flusher.last \/ flusher.pc = "stopped" => stop

LastSnapshot ==
    /\ Writing /\ flusher.last => \A a \in settled : flusher.snapshot[a] = data[a]
    /\ flusher.pc = "stopped" /\ ~failed => \A a \in settled : Loaded(file)[a] = data[a]

CacheInv ==
    /\ TypeOK
    /\ CleanIsWritten
    /\ DirtyIsScheduled
    /\ KnownStaysKnown
    /\ LastIsStop
    /\ LastSnapshot

\* Close has got past the VPN service only if its flusher has ended.
PastVpn == at > 4 => flusher.pc = "stopped"

HubInv == CacheInv /\ at \in 0..Ended /\ snapshots \in 0..2 /\ PastVpn

\* Every token of the first channel belongs to a goroutine that posts, or to the
\* worker that is about to start one.
TokensAreHeld == semaphore = posting + (IF worker.pc = "count" THEN 1 ELSE 0)

DetailsInv == DetailsTypeOK /\ TokensAreHeld

-----------------------------------------------------------------------------
(* The file *)

\* A file that was written by a flush is read as what it is.
LEMMA LoadedEntries ==
    ASSUME NEW f \in Entries
    PROVE  Loaded(f) = f
<1>1. CASE f # Unreadable
  BY <1>1 DEF Loaded
<1>2. CASE f = Unreadable
  <2>1. Address = {}
    <3>1. SUFFICES ASSUME NEW a \in Address PROVE FALSE
      OBVIOUS
    <3>2. f[a] \in {"unknown", "proxy", "clean"}
      BY DEF Entries
    <3>3. f[a] = "unreadable"
      BY <1>2 DEF Unreadable
    <3>4. QED
      BY <3>2, <3>3
  <2>2. f = NoEntries
    BY <2>1 DEF Entries, NoEntries
  <2>3. QED
    BY <1>2, <2>2 DEF Loaded
<1>3. QED
  BY <1>1, <1>2

LEMMA LoadedFile ==
    ASSUME NEW f \in Entries \cup {Unreadable}
    PROVE  Loaded(f) \in Entries
<1>1. NoEntries \in Entries
  BY DEF NoEntries, Entries
<1>2. QED
  BY <1>1 DEF Loaded

\* A cache that was just loaded, or started with an empty or unreadable file.
LEMMA FreshCache ==
    ASSUME file' \in Entries \cup {Unreadable}, data' = Loaded(file'),
           dirty' = FALSE, signalling' = {}, flush' = FALSE, timer' = Never, stop' = FALSE,
           flusher' = Waiting, failed' = FALSE, settled' = {},
           now' \in 0..MaxTime, crashes' \in 0..MaxCrashes
    PROVE  CacheInv'
<1>1. data' \in Entries
  BY LoadedFile
<1>2. Waiting \in [pc : {"select", "write", "rename", "stopped"}, last : BOOLEAN,
                   snapshot : Entries]
  BY DEF Waiting, NoEntries, Entries
<1>3. TypeOK'
  BY <1>1, <1>2 DEF TypeOK
<1>4. ~Writing' /\ flusher'.pc = "select" /\ ~flusher'.last
  BY DEF Writing, Waiting
<1>5. (CleanIsWritten /\ DirtyIsScheduled /\ KnownStaysKnown /\ LastIsStop /\ LastSnapshot)'
  BY <1>4 DEF CleanIsWritten, DirtyIsScheduled, KnownStaysKnown, LastIsStop, LastSnapshot
<1>6. QED
  BY <1>3, <1>5 DEF CacheInv

-----------------------------------------------------------------------------
(* The steps of the cache *)

LEMMA SetKeeps ==
    ASSUME CacheInv, NEW a \in Address, NEW v \in {"proxy", "clean"}, Set(a, v)
    PROVE  CacheInv'
<1>1. /\ data' = [data EXCEPT ![a] = v] /\ dirty' = TRUE
      /\ signalling' = signalling \cup {a} /\ settled' = settled \ {a}
      /\ UNCHANGED <<now, flush, timer, stop, flusher, file, crashes, failed>>
  BY DEF Set
<1>2. data \in Entries /\ \A b \in Address : data'[b] = IF b = a THEN v ELSE data[b]
  BY <1>1 DEF CacheInv, TypeOK, Entries
<1>3. TypeOK'
  BY <1>1, <1>2 DEF CacheInv, TypeOK, Entries
<1>4. CleanIsWritten' /\ DirtyIsScheduled' /\ LastIsStop'
  BY <1>1 DEF CacheInv, CleanIsWritten, DirtyIsScheduled, LastIsStop
<1>5. KnownStaysKnown'
  BY <1>1, <1>2 DEF CacheInv, KnownStaysKnown, Writing
<1>6. LastSnapshot'
  BY <1>1, <1>2 DEF CacheInv, LastSnapshot, Writing, TypeOK
<1>7. QED
  BY <1>3, <1>4, <1>5, <1>6 DEF CacheInv

LEMMA SignalKeeps == ASSUME CacheInv, NEW a \in Address, Signal(a) PROVE CacheInv'
<1>1. TypeOK'
  BY DEF CacheInv, TypeOK, Signal
<1>2. CleanIsWritten' /\ DirtyIsScheduled' /\ KnownStaysKnown' /\ LastIsStop' /\ LastSnapshot'
  BY DEF Signal, CacheInv, CleanIsWritten, DirtyIsScheduled, KnownStaysKnown, LastIsStop,
         LastSnapshot, Writing
<1>3. QED
  BY <1>1, <1>2 DEF CacheInv

LEMMA StopKeeps == ASSUME CacheInv, Stop PROVE CacheInv'
<1>1. TypeOK'
  BY DEF CacheInv, TypeOK, Stop
<1>2. CleanIsWritten' /\ DirtyIsScheduled' /\ KnownStaysKnown' /\ LastIsStop'
  BY DEF Stop, CacheInv, CleanIsWritten, DirtyIsScheduled, KnownStaysKnown, LastIsStop, Writing
<1>3. LastSnapshot'
  BY DEF Stop, CacheInv, LastIsStop, LastSnapshot, Writing
<1>4. QED
  BY <1>1, <1>2, <1>3 DEF CacheInv

LEMMA SignalledKeeps == ASSUME CacheInv, Signalled PROVE CacheInv'
<1>1. timer' \in 0..(MaxTime + FlushInterval) /\ timer' # Never
  BY VpnCacheAssumption DEF Signalled, CacheInv, TypeOK, Never
<1>2. TypeOK'
  BY <1>1 DEF Signalled, CacheInv, TypeOK
<1>3. QED
  BY <1>1, <1>2
  DEF Signalled, CacheInv, CleanIsWritten, DirtyIsScheduled, KnownStaysKnown, LastIsStop,
      LastSnapshot, Writing

\* The fields of a flusher that ends a write, or finds nothing to write.
LEMMA EndsFields ==
    ASSUME NEW last \in BOOLEAN
    PROVE  /\ Ends(last) \in [pc : {"select", "write", "rename", "stopped"}, last : BOOLEAN,
                             snapshot : Entries]
           /\ Ends(last).pc = IF last THEN "stopped" ELSE "select"
           /\ ~Ends(last).last
  BY DEF Ends, Waiting, NoEntries, Entries

LEMMA WriteIfDirtyKeeps ==
    ASSUME CacheInv, flusher.pc = "select", NEW last \in BOOLEAN, last => stop,
           writeIfDirty(last), timer' \in {timer, Never},
           UNCHANGED <<now, data, signalling, flush, stop, file, crashes, failed, settled>>,
           timer' # timer => ~last
    PROVE  CacheInv'
<1>1. CASE dirty
  <2> DEFINE w == [pc |-> "write", last |-> last, snapshot |-> data]
  <2>1. flusher' = w /\ dirty' = FALSE
    BY <1>1 DEF writeIfDirty
  <2>2. /\ w \in [pc : {"select", "write", "rename", "stopped"}, last : BOOLEAN,
                  snapshot : Entries]
        /\ w.pc = "write" /\ w.last = last /\ w.snapshot = data
    BY DEF CacheInv, TypeOK
  <2> HIDE DEF w
  <2>3. TypeOK'
    BY <2>1, <2>2 DEF CacheInv, TypeOK
  <2>4. Writing' /\ ~Writing
    BY <2>1, <2>2 DEF Writing
  <2>5. QED
    BY <2>1, <2>2, <2>3, <2>4
    DEF CacheInv, CleanIsWritten, DirtyIsScheduled, KnownStaysKnown, LastIsStop, LastSnapshot
<1>2. CASE ~dirty
  <2>1. flusher' = Ends(last) /\ dirty' = dirty
    BY <1>2 DEF writeIfDirty
  <2>2. TypeOK'
    BY <2>1, EndsFields DEF CacheInv, TypeOK
  <2>3. ~Writing' /\ ~Writing /\ (flusher'.pc = "stopped" => last) /\ ~flusher'.last
    BY <2>1, EndsFields DEF Writing
  <2>4. data = Loaded(file)
    BY <1>2, <2>3 DEF CacheInv, CleanIsWritten
  <2>5. QED
    BY <1>2, <2>1, <2>2, <2>3, <2>4
    DEF CacheInv, CleanIsWritten, DirtyIsScheduled, KnownStaysKnown, LastIsStop, LastSnapshot
<1>3. QED
  BY <1>1, <1>2

LEMMA WriteTemporaryKeeps == ASSUME CacheInv, WriteTemporary PROVE CacheInv'
<1> DEFINE w == [flusher EXCEPT !.pc = "rename"]
<1>1. flusher' = w /\ flusher.pc = "write"
      /\ UNCHANGED <<now, data, dirty, signalling, flush, timer, stop, file, crashes, failed, settled>>
  BY DEF WriteTemporary
<1>2. /\ w \in [pc : {"select", "write", "rename", "stopped"}, last : BOOLEAN,
                snapshot : Entries]
      /\ w.pc = "rename" /\ w.last = flusher.last /\ w.snapshot = flusher.snapshot
  BY DEF CacheInv, TypeOK
<1> HIDE DEF w
<1>3. TypeOK'
  BY <1>1, <1>2 DEF CacheInv, TypeOK
<1>4. Writing /\ Writing' /\ UNCHANGED Loaded(file)
  BY <1>1, <1>2 DEF Writing, Loaded
<1>5. QED
  BY <1>1, <1>2, <1>3, <1>4
  DEF CacheInv, CleanIsWritten, DirtyIsScheduled, KnownStaysKnown, LastIsStop, LastSnapshot

LEMMA RenameKeeps == ASSUME CacheInv, Rename PROVE CacheInv'
<1>1. /\ flusher.pc = "rename" /\ file' = flusher.snapshot
      /\ flusher' = Ends(flusher.last) /\ failed' = FALSE
      /\ flusher.last \in BOOLEAN /\ flusher.snapshot \in Entries
      /\ UNCHANGED <<now, data, dirty, signalling, flush, timer, stop, crashes, settled>>
  BY DEF Rename, CacheInv, TypeOK
<1>2. TypeOK'
  BY <1>1, EndsFields DEF CacheInv, TypeOK
<1>3. Loaded(file') = flusher.snapshot
  BY <1>1, LoadedEntries
<1>4. /\ Writing /\ ~Writing' /\ ~flusher'.last
      /\ flusher'.pc = IF flusher.last THEN "stopped" ELSE "select"
  BY <1>1, EndsFields DEF Writing
<1>5. CleanIsWritten' /\ DirtyIsScheduled'
  BY <1>1, <1>3, <1>4 DEF CacheInv, CleanIsWritten, DirtyIsScheduled
<1>6. KnownStaysKnown' /\ LastIsStop' /\ LastSnapshot'
  BY <1>1, <1>3, <1>4 DEF CacheInv, KnownStaysKnown, LastIsStop, LastSnapshot
<1>7. QED
  BY <1>2, <1>5, <1>6 DEF CacheInv

LEMMA WriteFailsKeeps == ASSUME CacheInv, WriteFails PROVE CacheInv'
<1>1. /\ Writing /\ flusher' = Ends(flusher.last) /\ flusher.last \in BOOLEAN
      /\ dirty' = TRUE /\ failed' = TRUE
      /\ UNCHANGED <<now, data, signalling, flush, timer, stop, file, crashes, settled>>
  BY DEF WriteFails, CacheInv, TypeOK, Writing
<1>2. TypeOK'
  BY <1>1, EndsFields DEF CacheInv, TypeOK
<1>3. /\ ~Writing' /\ ~flusher'.last /\ UNCHANGED Loaded(file)
      /\ flusher'.pc = IF flusher.last THEN "stopped" ELSE "select"
  BY <1>1, EndsFields DEF Writing, Loaded
<1>4. QED
  BY <1>1, <1>2, <1>3
  DEF CacheInv, CleanIsWritten, DirtyIsScheduled, KnownStaysKnown, LastIsStop, LastSnapshot

LEMMA CrashKeeps == ASSUME CacheInv, Crash PROVE CacheInv'
<1>1. /\ file' \in Entries \cup {Unreadable} /\ now' \in 0..MaxTime
      /\ crashes' \in 0..MaxCrashes
  BY VpnCacheAssumption DEF CacheInv, TypeOK, Crash
<1>2. QED
  BY <1>1, FreshCache DEF Crash

LEMMA CacheStepKeeps == ASSUME CacheInv, [Next]_vars PROVE CacheInv'
<1>1. CASE UNCHANGED vars
  BY <1>1
  DEF vars, CacheInv, TypeOK, CleanIsWritten, DirtyIsScheduled, KnownStaysKnown, LastIsStop,
      LastSnapshot, Writing, Loaded
<1>2. CASE TimerFires
  BY <1>2, WriteIfDirtyKeeps DEF TimerFires
<1>3. CASE Stopping
  BY <1>3, WriteIfDirtyKeeps DEF Stopping
<1>4. CASE Tick
  BY <1>4, VpnCacheAssumption
  DEF Tick, CacheInv, TypeOK, CleanIsWritten, DirtyIsScheduled, KnownStaysKnown, LastIsStop,
      LastSnapshot, Writing, Loaded
<1>5. QED
  BY <1>1, <1>2, <1>3, <1>4, SetKeeps, SignalKeeps, StopKeeps, SignalledKeeps, WriteTemporaryKeeps,
     RenameKeeps, WriteFailsKeeps, CrashKeeps
  DEF Next, Flusher

-----------------------------------------------------------------------------
(* The shutdown *)

LEMMA HubInitInv == HubInit => HubInv
<1> SUFFICES ASSUME HubInit PROVE HubInv
  OBVIOUS
<1>1. NoEntries \in Entries /\ Loaded(file) = NoEntries
  BY DEF HubInit, Init, Loaded, NoEntries, Entries
<1>2. Waiting \in [pc : {"select", "write", "rename", "stopped"}, last : BOOLEAN,
                   snapshot : Entries]
  BY <1>1 DEF Waiting
<1>3. TypeOK
  <2>1. 0 \in 0..MaxTime /\ 0 \in 0..MaxCrashes
    BY VpnCacheAssumption
  <2>2. QED
    BY <1>1, <1>2, <2>1 DEF HubInit, Init, TypeOK
<1>4. ~Writing /\ flusher.pc = "select" /\ ~flusher.last
  BY DEF HubInit, Init, Waiting, Writing
<1>5. CleanIsWritten /\ DirtyIsScheduled /\ KnownStaysKnown /\ LastIsStop /\ LastSnapshot
  BY <1>1, <1>4
  DEF HubInit, Init, CleanIsWritten, DirtyIsScheduled, KnownStaysKnown, LastIsStop, LastSnapshot
<1>6. at = 0 /\ snapshots = 0 /\ Ended \in Nat
  BY DEF HubInit, Ended, Services
<1>7. QED
  BY <1>3, <1>4, <1>5, <1>6 DEF HubInv, CacheInv, PastVpn

\* For the cache a step of the hub is one of its own, or none.
LEMMA HubStepIsCacheStep == ASSUME [HubNext]_hubVars PROVE [Next]_vars
  BY DEF HubNext, hubVars, Accept, CloseGoesOn, Check, Flushes, Details, SaveSnapshot, Restart, Time,
         Next

\* A flusher that has ended stays so until the hub is started again.
LEMMA StoppedStays ==
    ASSUME flusher.pc = "stopped", [Next]_vars, ~Crash
    PROVE  flusher' = flusher
  BY DEF Next, vars, Set, Signal, Stop, Flusher, Signalled, TimerFires, Stopping, WriteTemporary,
         Rename, WriteFails, Tick

LEMMA HubNextInv == HubInv /\ [HubNext]_hubVars => HubInv'
<1> SUFFICES ASSUME HubInv, [HubNext]_hubVars PROVE HubInv'
  OBVIOUS
<1>1. CacheInv'
  BY HubStepIsCacheStep, CacheStepKeeps DEF HubInv
<1>2. Ended = 11 /\ at \in 0..11
  BY DEF HubInv, Ended, Services
<1>3. snapshots' \in 0..2
  <2>1. snapshots' = snapshots \/ snapshots' \in 0..2 \/ SaveSnapshot
    BY DEF HubNext, hubVars, Accept, CloseGoesOn, Check, Flushes, Details, Restart, Time
  <2>2. QED
    BY <2>1 DEF HubInv, SaveSnapshot
<1>4. CASE at' = at /\ crashes' = crashes
  <2>1. ~Crash
    BY <1>4 DEF Crash, HubInv, CacheInv, TypeOK
  <2>2. QED
    BY <1>1, <1>2, <1>4, <1>3, <2>1, HubStepIsCacheStep, StoppedStays DEF HubInv, PastVpn
<1>5. CASE Restart
  BY <1>1, <1>2, <1>5, <1>3 DEF Restart, HubInv, PastVpn
<1>6. CASE CloseGoesOn
  <2>1. at' = at + 1 /\ at < Ended /\ (at = 4 => flusher.pc = "stopped")
    <3>1. Services[4] = "vpn" /\ 4 \in 1..Len(Services)
      BY DEF Services
    <3>2. at = 4 => InCall("vpn")
      BY <3>1 DEF InCall
    <3>3. QED
      BY <1>2, <1>6, <3>2 DEF CloseGoesOn, Returns
  <2>2. at > 3 => flusher.pc = "stopped"
    BY <1>2, <2>1 DEF HubInv, PastVpn
  <2>3. flusher' = flusher
    BY <1>6 DEF CloseGoesOn, Stop, vars
  <2>4. QED
    BY <1>1, <1>2, <1>3, <2>1, <2>2, <2>3 DEF HubInv, PastVpn
<1>7. ASSUME ~Restart, ~CloseGoesOn PROVE at' = at /\ crashes' = crashes
  BY <1>7
  DEF HubNext, hubVars, vars, Accept, Check, Set, Signal, Flushes, Flusher, Signalled, TimerFires,
      Stopping, WriteTemporary, Rename, WriteFails, Details, SaveSnapshot, Time, Tick
<1>8. QED
  BY <1>4, <1>5, <1>6, <1>7

-----------------------------------------------------------------------------
(* The details worker *)

LEMMA DetailsInitInv == DetailsInit => DetailsInv
<1>1. /\ At("select") \in [pc : {"select", "acquire", "count", "drain", "done"},
                          drains : 0..maxConcurrentRequests]
      /\ At("select").pc # "count"
  BY DetailsAssumption DEF At
<1>2. 0 \in 0..QueueSize /\ 0 \in 0..maxConcurrentRequests /\ 0 \in Nat /\ 0 = 0 + 0
  BY DetailsAssumption
<1>3. QED
  BY <1>1, <1>2 DEF DetailsInit, DetailsInv, DetailsTypeOK, TokensAreHeld

LEMMA DetailsStepKeeps ==
    ASSUME DetailsInv, SendDetailsOf \/ DetailsSteps \/ DetailsStop \/ UNCHANGED detailsVars
    PROVE  DetailsInv'
<1> USE DetailsAssumption DEF DetailsInv, DetailsTypeOK, TokensAreHeld, Unmarked, Taken
<1>1. CASE SendDetailsOf
  BY <1>1 DEF SendDetailsOf
<1>2. CASE Take
  BY <1>2 DEF Take, At
<1>3. CASE Acquire
  BY <1>3 DEF Acquire, At
<1>4. CASE Count
  BY <1>4 DEF Count, At
<1>5. CASE SeesShutdown
  BY <1>5 DEF SeesShutdown, At
<1>6. CASE Drain
  BY <1>6 DEF Drain, At
<1>7. CASE sendPlayerDetails
  BY <1>7 DEF sendPlayerDetails
<1>8. CASE Return
  BY <1>8 DEF Return
<1>9. CASE DetailsStop
  BY <1>9 DEF DetailsStop
<1>10. CASE UNCHANGED detailsVars
  BY <1>10 DEF detailsVars
<1>11. QED
  BY <1>1, <1>2, <1>3, <1>4, <1>5, <1>6, <1>7, <1>8, <1>9, <1>10
  DEF DetailsSteps, DetailsWork

LEMMA DetailsNextInv == DetailsInv /\ [HubNext]_hubVars => DetailsInv'
<1> SUFFICES ASSUME DetailsInv, [HubNext]_hubVars PROVE DetailsInv'
  OBVIOUS
<1>1. CASE Restart
  <2>1. DetailsInit'
    BY <1>1 DEF Restart, DetailsInit
  <2>2. QED
    BY <2>1, DetailsInitInv, PTL
<1>2. ASSUME ~Restart
      PROVE  SendDetailsOf \/ DetailsSteps \/ DetailsStop \/ UNCHANGED detailsVars
  BY <1>2
  DEF HubNext, hubVars, Accept, CloseGoesOn, Check, Flushes, Details, SaveSnapshot, Time
<1>3. QED
  BY <1>1, <1>2, DetailsStepKeeps

-----------------------------------------------------------------------------
(* Theorems *)

\* The inductive invariant of the cache and of PokeBedrock.Close.
THEOREM HubInvariant == HubSpec => []HubInv
<1>1. QED
  BY HubInitInv, HubNextInv, PTL DEF HubSpec

\* Every update of the cache is written, under way to the file, or waits for the
\* Set after a failed write (Cache.Set, flusher, markDirty).
THEOREM NoUpdateForgotten == HubSpec => []UnsavedIsScheduled
<1>1. HubInv => UnsavedIsScheduled
  BY DEF HubInv, CacheInv, CleanIsWritten, DirtyIsScheduled, Writing, TypeOK, UnsavedIsScheduled
<1>2. QED
  BY <1>1, HubInvariant, PTL

\* The file only learns, whatever fails and wherever the hub ends, because
\* writeJSONFile renames a complete snapshot of what was loaded from it.
THEOREM FileOnlyGrows == HubSpec => FileNeverForgets
<1> DEFINE Keeps == \A a \in Address :
                       Loaded(file)[a] # "unknown" => Loaded(file)'[a] # "unknown"
<1>1. HubInv /\ [HubNext]_hubVars => [Keeps]_vars
  <2>1. SUFFICES ASSUME HubInv, [Next]_vars, NEW a \in Address, Loaded(file)[a] # "unknown"
                 PROVE  Loaded(file)'[a] # "unknown"
    BY HubStepIsCacheStep
  <2>2. CASE Rename
    <3>1. Loaded(file') = flusher.snapshot /\ Writing
      BY <2>1, <2>2, LoadedEntries DEF HubInv, CacheInv, TypeOK, Rename, Writing
    <3>2. QED
      BY <2>1, <3>1 DEF HubInv, CacheInv, KnownStaysKnown, Loaded
  <2>3. CASE UNCHANGED file
    BY <2>1, <2>3 DEF Loaded
  <2>4. QED
    BY <2>1, <2>2, <2>3
    DEF Next, vars, Set, Signal, Stop, Flusher, Signalled, TimerFires, Stopping, WriteTemporary,
        WriteFails, Crash, Tick
<1>2. QED
  BY <1>1, HubInvariant, PTL DEF HubSpec, FileNeverForgets

\* When Close has returned, the file has every verdict that was in the cache
\* when Cache.Stop was called, unless the last write has failed.
THEOREM NothingLostAtClose == HubSpec => []EndedWithVerdicts
<1>1. HubInv => EndedWithVerdicts
  <2>1. Ended = 11
    BY DEF Ended, Services
  <2>2. QED
    BY <2>1 DEF HubInv, CacheInv, PastVpn, LastSnapshot, EndedWithVerdicts
<1>2. QED
  BY <1>1, HubInvariant, PTL

\* The tokens of the details worker are accounted for: at most
\* maxConcurrentRequests requests are under way at any time, also while the
\* worker drains the channels at the shutdown.
THEOREM DetailsBounded == HubSpec => [](DetailsTypeOK /\ posting <= maxConcurrentRequests)
<1>1. HubInit => DetailsInv
  BY DetailsInitInv DEF HubInit
<1>2. DetailsInv => DetailsTypeOK /\ posting <= maxConcurrentRequests
  BY DetailsAssumption DEF DetailsInv, DetailsTypeOK, TokensAreHeld
<1>3. QED
  BY <1>1, <1>2, DetailsNextInv, PTL DEF HubSpec

-----------------------------------------------------------------------------
(* Resource packs: what the disk says *)

\* A release does not bring a version file of its own, and lists a file once.
ArchivesAreSimple ==
    /\ VersionFile \notin File
    /\ \A r \in Release : \A i, j \in 1..Len(Order[r]) : Order[r][i] = Order[r][j] => i = j

HasManifest(r) == \E i \in 1..Len(Order[r]) : Order[r][i] = Manifest

\* The operators below are about the directory d of a pack, of which l is the
\* latest release.
Directory == [Entry -> Content]

Whole(d, r) == \A i \in 1..Len(Order[r]) : d[Order[r][i]] = r

UpToManifest(d, r) ==
    \A i \in 1..Len(Order[r]) : Order[r][i] = Manifest => \A j \in 1..i : d[Order[r][j]] = r

Installed(d) ==
    IF d[Manifest] \in Release /\ Header[d[Manifest]] # 0 THEN Header[d[Manifest]]
    ELSE IF d[VersionFile] \in Release THEN d[VersionFile] ELSE 0

Passes(d, l) == Installed(d) = l /\ d[Manifest] # Absent

\* What the disk says of the latest release, whenever the hub is killed: its
\* version file was written when all of it was there, its manifest when all
\* that comes before it was.
DiskGood(d, l) ==
    /\ d[VersionFile] \in Release =>
          /\ d[VersionFile] <= l
          /\ (d[VersionFile] = l /\ HasManifest(l) /\ Recognised(l)) => Whole(d, l)
    /\ d[Manifest] \in Release =>
          /\ d[Manifest] <= l
          /\ HasManifest(d[Manifest])
          /\ (d[Manifest] = l /\ Header[l] = l) => UpToManifest(d, l)

\* A pack that is being updated to release r, with n the next file to extract:
\* it has something older, or none of the two files by which r is recognised,
\* until the update itself has written them.
UpdateGood(d, l, r, n) ==
    /\ r <= l /\ n <= Len(Order[r]) + 1
    /\ \A j \in 1..(n - 1) : d[Order[r][j]] = r
    /\ d[VersionFile] \in Release =>
          /\ d[VersionFile] <= r
          /\ d[VersionFile] = r => ~(HasManifest(r) /\ Recognised(r))
    /\ d[Manifest] \in Release =>
          /\ d[Manifest] <= r
          /\ HasManifest(d[Manifest])
          /\ (d[Manifest] = r /\ Header[r] = r) => \E j \in 1..(n - 1) : Order[r][j] = Manifest

\* What UpToDateIsWhole says of one pack.
CurrentGood(d) ==
    /\ Installed(d) \in Release
    /\ (HasManifest(Installed(d)) /\ Recognised(Installed(d))) =>
          /\ d[Manifest] = Installed(d)
          /\ UpToManifest(d, Installed(d))
          /\ Header[Installed(d)] = 0 => Whole(d, Installed(d))

Updating == {"create", "copy", "open", "remove", "extract", "write", "tidy", "version"}

HubType ==
    hub \in [pc : {"cleanup", "check", "serving"} \cup Updating,
             pack : Pack, release : Release, next : Nat \ {0}]

HubOK ==
    /\ hub.pc \in Updating => UpdateGood(dir[Pk], latest[Pk], Rel, hub.next)
    /\ hub.pc \in {"cleanup", "check", "create", "copy", "open", "remove"} => hub.next = 1
    /\ hub.pc = "write" => hub.next <= Len(Order[Rel])
    /\ hub.pc \in {"tidy", "version"} => hub.next = Len(Order[Rel]) + 1
    /\ hub.pc \in {"remove", "extract", "write"} => archive[Pk][Rel] = "whole"
    /\ hub.pc # "serving" => \A q \in Pack : q >= Pk => verdict[q] = "none"

PacksInv ==
    /\ PacksTypeOK /\ HubType
    /\ \A p \in Pack : DiskGood(dir[p], latest[p])
    /\ \A p \in Pack : verdict[p] = "current" => CurrentGood(dir[p])
    /\ HubOK

LEMMA Archives ==
    ASSUME NEW r \in Release
    PROVE  /\ r \in Nat \ {0} /\ Len(Order[r]) \in Nat
           /\ \A i \in 1..Len(Order[r]) : Order[r][i] \in File
           /\ Header[r] \in Nat /\ (Header[r] \in Release => Header[r] <= r)
           /\ Manifest \in File /\ File \subseteq Entry /\ VersionFile \in Entry
<1>1. /\ Order[r] \in Seq(File) /\ Manifest \in File
      /\ Header[r] \in Nat /\ (Header[r] \in Release => Header[r] <= r)
  BY PacksAssumption
<1>2. r \in Nat \ {0}
  BY PacksAssumption DEF Release
<1>3. QED
  BY <1>1, <1>2 DEF Entry

\* The disk is good all through an update.
LEMMA UpdatingIsGood ==
    ASSUME ArchivesAreSimple, NEW d \in Directory, NEW l \in Release, NEW r \in Release,
           NEW n \in Nat \ {0}, UpdateGood(d, l, r, n)
    PROVE  DiskGood(d, l)
<1>1. r \in Nat /\ l \in Nat /\ r <= l /\ Len(Order[r]) \in Nat
  BY Archives DEF UpdateGood
<1>2. ASSUME d[VersionFile] \in Release
      PROVE  d[VersionFile] <= l /\ ~(d[VersionFile] = l /\ HasManifest(l) /\ Recognised(l))
  <2>1. d[VersionFile] \in Nat /\ d[VersionFile] <= r /\ (d[VersionFile] = r => ~(HasManifest(r) /\ Recognised(r)))
    BY <1>2, Archives DEF UpdateGood
  <2>2. d[VersionFile] = l => r = l
    BY <1>1, <2>1
  <2>3. QED
    BY <1>1, <2>1, <2>2
<1>3. ASSUME d[Manifest] \in Release
      PROVE  /\ d[Manifest] <= l /\ HasManifest(d[Manifest])
             /\ (d[Manifest] = l /\ Header[l] = l) => UpToManifest(d, l)
  <2>1. /\ d[Manifest] \in Nat /\ d[Manifest] <= r /\ HasManifest(d[Manifest])
        /\ (d[Manifest] = r /\ Header[r] = r) => \E j \in 1..(n - 1) : Order[r][j] = Manifest
    BY <1>3, Archives DEF UpdateGood
  <2>2. ASSUME d[Manifest] = l, Header[l] = l PROVE UpToManifest(d, l)
    <3>1. r = l
      BY <1>1, <2>1, <2>2
    <3>2. PICK j \in 1..(n - 1) : Order[r][j] = Manifest
      BY <2>1, <2>2, <3>1
    <3>3. n <= Len(Order[r]) + 1 /\ \A k \in 1..(n - 1) : d[Order[r][k]] = r
      BY DEF UpdateGood
    <3>4. ASSUME NEW i \in 1..Len(Order[r]), Order[r][i] = Manifest, NEW k \in 1..i
          PROVE  d[Order[r][k]] = r
      <4>1. j \in 1..Len(Order[r])
        BY <1>1, <3>2, <3>3
      <4>2. i = j
        BY <3>2, <3>4, <4>1 DEF ArchivesAreSimple
      <4>3. k \in 1..(n - 1)
        BY <3>4, <4>2
      <4>4. QED
        BY <3>3, <4>3
    <3>5. QED
      BY <3>1, <3>4 DEF UpToManifest
  <2>3. QED
    BY <1>1, <2>1, <2>2
<1>4. QED
  BY <1>2, <1>3 DEF DiskGood

\* A pack that does not pass the check has not got what would make the latest
\* release pass it.
LEMMA CheckStarts ==
    ASSUME NEW d \in Directory, NEW l \in Release, DiskGood(d, l), ~Passes(d, l)
    PROVE  UpdateGood(d, l, l, 1)
<1>1. l \in Nat /\ l # 0 /\ Len(Order[l]) \in Nat
  BY Archives
<1>2. ASSUME d[VersionFile] = l, HasManifest(l), Recognised(l) PROVE FALSE
  <2>1. Whole(d, l)
    BY <1>2 DEF DiskGood
  <2>2. d[Manifest] = l
    BY <1>2, <2>1 DEF Whole, HasManifest
  <2>3. Installed(d) = l
    BY <1>1, <1>2, <2>2 DEF Installed, Recognised
  <2>4. QED
    BY <1>1, <2>2, <2>3 DEF Passes, Absent
<1>3. ASSUME d[Manifest] = l, Header[l] = l PROVE FALSE
  BY <1>1, <1>3 DEF Passes, Installed, Absent
<1>4. QED
  BY <1>1, <1>2, <1>3 DEF UpdateGood, DiskGood

\* A pack that passes the check is what it is taken for.
LEMMA CheckPasses ==
    ASSUME NEW d \in Directory, NEW l \in Release, DiskGood(d, l), Passes(d, l)
    PROVE  CurrentGood(d)
<1>1. l \in Nat /\ l # 0 /\ Installed(d) = l /\ d[Manifest] # Absent
  BY Archives DEF Passes
<1>2. ASSUME HasManifest(l), Recognised(l)
      PROVE  /\ d[Manifest] = l /\ UpToManifest(d, l)
             /\ Header[l] = 0 => Whole(d, l)
  <2>1. CASE d[Manifest] \in Release /\ Header[d[Manifest]] # 0
    <3>1. PICK m \in Release : m = d[Manifest]
      BY <2>1
    <3>2. Header[m] = l /\ m <= l
      BY <1>1, <2>1, <3>1 DEF Installed, DiskGood
    <3>3. m \in Nat /\ l <= m
      BY <3>2, Archives
    <3>4. m = l
      BY <1>1, <3>2, <3>3
    <3>5. QED
      BY <1>1, <2>1, <3>1, <3>2, <3>4 DEF DiskGood
  <2>2. CASE ~(d[Manifest] \in Release /\ Header[d[Manifest]] # 0)
    <3>1. d[VersionFile] = l
      BY <1>1, <2>2 DEF Installed
    <3>2. Whole(d, l)
      BY <1>2, <3>1 DEF DiskGood
    <3>3. d[Manifest] = l
      BY <1>2, <3>2 DEF Whole, HasManifest
    <3>4. UpToManifest(d, l)
      <4>1. ASSUME NEW i \in 1..Len(Order[l]), NEW j \in 1..i PROVE d[Order[l][j]] = l
        <5>1. j \in 1..Len(Order[l])
          BY Archives
        <5>2. QED
          BY <3>2, <5>1 DEF Whole
      <4>2. QED
        BY <4>1 DEF UpToManifest
    <3>5. QED
      BY <3>2, <3>3, <3>4
  <2>3. QED
    BY <2>1, <2>2
<1>3. QED
  BY <1>1, <1>2 DEF CurrentGood

\* Removing an entry before extraction, opening a file, truncating the version.
LEMMA EntryLost ==
    ASSUME ArchivesAreSimple, NEW d \in Directory, NEW l \in Release, NEW r \in Release,
           NEW n \in Nat \ {0}, UpdateGood(d, l, r, n), NEW e \in Entry, NEW c \in {Absent, Torn},
           \A j \in 1..(n - 1) : Order[r][j] # e
    PROVE  UpdateGood([d EXCEPT ![e] = c], l, r, n)
<1>1. c \notin Release
  BY DEF Absent, Torn, Release
<1>2. Manifest \in Entry /\ VersionFile \in Entry /\ \A j \in 1..(n - 1) : Order[r][j] \in Entry
  <2>1. Len(Order[r]) \in Nat /\ n <= Len(Order[r]) + 1
    BY Archives DEF UpdateGood
  <2>2. \A j \in 1..(n - 1) : j \in 1..Len(Order[r])
    BY <2>1
  <2>3. QED
    BY <2>2, Archives
<1>3. PICK f : f = [d EXCEPT ![e] = c]
  OBVIOUS
<1>4. f[e] = c /\ \A x \in Entry : x # e => f[x] = d[x]
  BY <1>3 DEF Directory
<1>5. /\ f[VersionFile] \in Release => f[VersionFile] = d[VersionFile]
      /\ f[Manifest] \in Release => f[Manifest] = d[Manifest]
      /\ \A j \in 1..(n - 1) : f[Order[r][j]] = d[Order[r][j]]
  BY <1>1, <1>2, <1>4
<1>6. UpdateGood(f, l, r, n)
  BY <1>5 DEF UpdateGood
<1>7. QED
  BY <1>3, <1>6

LEMMA FileWritten ==
    ASSUME ArchivesAreSimple, NEW d \in Directory, NEW l \in Release, NEW r \in Release,
           NEW n \in Nat \ {0}, UpdateGood(d, l, r, n), n <= Len(Order[r])
    PROVE  UpdateGood([d EXCEPT ![Order[r][n]] = r], l, r, n + 1)
<1>1. /\ Len(Order[r]) \in Nat /\ n \in 1..Len(Order[r]) /\ Order[r][n] \in File
      /\ Order[r][n] \in Entry /\ Manifest \in Entry /\ VersionFile \in Entry
      /\ Order[r][n] # VersionFile /\ r <= l /\ r \in Nat
  BY Archives DEF ArchivesAreSimple, UpdateGood
<1>2. \A j \in 1..(n - 1) : j \in 1..Len(Order[r]) /\ j # n
  BY <1>1
<1>3. \A j \in 1..(n - 1) : Order[r][j] \in Entry /\ Order[r][j] # Order[r][n]
  BY <1>1, <1>2, Archives DEF ArchivesAreSimple
<1>4. PICK f : f = [d EXCEPT ![Order[r][n]] = r]
  OBVIOUS
<1>5. f[Order[r][n]] = r /\ \A x \in Entry : x # Order[r][n] => f[x] = d[x]
  BY <1>1, <1>4 DEF Directory
<1>6. \A j \in 1..n : f[Order[r][j]] = r
  <2>1. \A j \in 1..n : j = n \/ j \in 1..(n - 1)
    OBVIOUS
  <2>2. \A j \in 1..(n - 1) : f[Order[r][j]] = r
    BY <1>3, <1>5 DEF UpdateGood
  <2>3. QED
    BY <1>5, <2>1, <2>2
<1>7. f[VersionFile] = d[VersionFile]
  BY <1>1, <1>5
<1>8. f[Manifest] \in Release =>
         /\ f[Manifest] <= r /\ HasManifest(f[Manifest])
         /\ (f[Manifest] = r /\ Header[r] = r) => \E j \in 1..n : Order[r][j] = Manifest
  <2>1. CASE Order[r][n] = Manifest
    BY <1>1, <1>5, <2>1 DEF HasManifest
  <2>2. CASE Order[r][n] # Manifest
    <3>1. f[Manifest] = d[Manifest]
      BY <1>1, <1>5, <2>2
    <3>2. \A j \in 1..(n - 1) : j \in 1..n
      OBVIOUS
    <3>3. QED
      BY <3>1, <3>2 DEF UpdateGood
  <2>3. QED
    BY <2>1, <2>2
<1>9. n + 1 <= Len(Order[r]) + 1 /\ (n + 1) - 1 = n
  BY <1>1
<1>10. UpdateGood(f, l, r, n + 1)
  BY <1>1, <1>6, <1>7, <1>8, <1>9 DEF UpdateGood
<1>11. QED
  BY <1>4, <1>10

LEMMA VersionWritten ==
    ASSUME ArchivesAreSimple, NEW d \in Directory, NEW l \in Release, NEW r \in Release,
           UpdateGood(d, l, r, Len(Order[r]) + 1)
    PROVE  DiskGood([d EXCEPT ![VersionFile] = r], l)
<1>1. /\ Len(Order[r]) \in Nat /\ Len(Order[r]) + 1 \in Nat \ {0} /\ r <= l /\ r \in Nat /\ l \in Nat
      /\ VersionFile \in Entry /\ Manifest \in File /\ Manifest \in Entry /\ Manifest # VersionFile
      /\ \A i \in 1..Len(Order[r]) : Order[r][i] \in Entry /\ Order[r][i] # VersionFile
      /\ \A i \in 1..Len(Order[l]) : Order[l][i] \in Entry /\ Order[l][i] # VersionFile
  BY Archives DEF ArchivesAreSimple, UpdateGood
<1>2. PICK f : f = [d EXCEPT ![VersionFile] = r]
  OBVIOUS
<1>3. f[VersionFile] = r /\ \A x \in Entry : x # VersionFile => f[x] = d[x]
  BY <1>1, <1>2 DEF Directory
<1>4. Whole(f, r)
  <2>1. \A i \in 1..Len(Order[r]) : i \in 1..((Len(Order[r]) + 1) - 1)
    BY <1>1
  <2>2. \A i \in 1..Len(Order[r]) : d[Order[r][i]] = r
    BY <2>1 DEF UpdateGood
  <2>3. QED
    BY <1>1, <1>3, <2>2 DEF Whole
<1>5. DiskGood(d, l)
  BY <1>1, UpdatingIsGood
<1>6. f[Manifest] = d[Manifest] /\ (UpToManifest(d, l) => UpToManifest(f, l))
  <2>1. ASSUME NEW i \in 1..Len(Order[l]), NEW j \in 1..i
        PROVE  f[Order[l][j]] = d[Order[l][j]]
    <3>1. j \in 1..Len(Order[l])
      BY Archives
    <3>2. QED
      BY <1>1, <1>3, <3>1
  <2>2. QED
    BY <1>1, <1>3, <2>1 DEF UpToManifest
<1>7. DiskGood(f, l)
  BY <1>1, <1>3, <1>4, <1>5, <1>6 DEF DiskGood
<1>8. QED
  BY <1>2, <1>7

LEMMA LaterRelease ==
    ASSUME NEW d \in Directory, NEW l \in Release, NEW m \in Release, m = l + 1
    PROVE  /\ DiskGood(d, l) => DiskGood(d, m)
           /\ \A r \in Release : \A n \in Nat : UpdateGood(d, l, r, n) => UpdateGood(d, m, r, n)
<1>1. l \in Nat /\ m \in Nat /\ \A r \in Release : r \in Nat
  BY Archives
<1>2. DiskGood(d, l) => DiskGood(d, m)
  <2>1. \A x \in Release : x <= l => x <= m /\ x # m
    BY <1>1
  <2>2. QED
    BY <2>1 DEF DiskGood
<1>3. \A r \in Release : r <= l => r <= m
  BY <1>1
<1>4. QED
  BY <1>2, <1>3 DEF UpdateGood

-----------------------------------------------------------------------------
(* Resource packs: what steps have in common *)

Archive == [Pack -> [Release -> {"none", "part", "whole"}]]

LEMMA PacksRanges ==
    ASSUME PacksInv
    PROVE  /\ Pk \in Pack /\ Rel \in Release /\ hub.next \in Nat \ {0}
           /\ dir \in [Pack -> Directory] /\ latest \in [Pack -> Release] /\ archive \in Archive
           /\ dir[Pk] \in Directory /\ latest[Pk] \in Release
           /\ verdict \in [Pack -> {"none", "current", "declined", "updated", "failed"}]
           /\ faults \in 0..MaxFaults /\ lives \in 1..MaxLives
  BY DEF PacksInv, PacksTypeOK, HubType, Pk, Rel, Directory, Archive

LEMMA FaultCounts ==
    ASSUME PacksInv, NEW n \in Nat, Fault(n)
    PROVE  faults' \in 0..MaxFaults
  BY PacksRanges, PacksAssumption DEF Fault

\* The end of the loop, by an error.
LEMMA Serves ==
    ASSUME PacksInv, UNCHANGED <<latest, dir, lives>>, HubAt("serving"),
           verdict' \in {verdict, [verdict EXCEPT ![Pk] = "failed"]},
           archive' \in Archive, faults' \in 0..MaxFaults
    PROVE  PacksInv'
<1>1. /\ hub' = [hub EXCEPT !.pc = "serving"] /\ HubType
  BY DEF HubAt, PacksInv
<1>2. HubType' /\ hub'.pc = "serving"
  BY <1>1 DEF HubType
<1>3. HubOK'
  BY <1>2 DEF HubOK, Updating
<1>4. /\ verdict' \in [Pack -> {"none", "current", "declined", "updated", "failed"}]
      /\ \A p \in Pack : verdict'[p] = "current" => verdict[p] = "current"
  BY PacksRanges
<1>5. PacksTypeOK'
  BY <1>2, <1>4, PacksRanges DEF PacksTypeOK, HubType, Archive, Directory, PacksInv
<1>6. QED
  BY <1>2, <1>3, <1>4, <1>5 DEF PacksInv

LEMMA ErrsKeeps ==
    ASSUME PacksInv, Errs, UNCHANGED <<latest, dir, lives>>,
           archive' \in Archive, faults' \in 0..MaxFaults
    PROVE  PacksInv'
  BY Serves DEF Errs

LEMMA ErrsAndRemovesKeeps ==
    ASSUME PacksInv, NEW n \in Nat, ErrsAndRemoves(n)
    PROVE  PacksInv'
<1>1. archive' \in Archive
  BY PacksRanges DEF ErrsAndRemoves, Archive
<1>2. faults' \in 0..MaxFaults
  <2>1. n + 1 \in Nat
    OBVIOUS
  <2>2. QED
    BY <2>1, FaultCounts DEF ErrsAndRemoves
<1>3. QED
  BY <1>1, <1>2, ErrsKeeps DEF ErrsAndRemoves

\* The loop goes on with the next pack, or ends.
LEMMA DoneKeeps ==
    ASSUME PacksInv, hub.pc # "serving", NEW found \in {"current", "declined", "updated"},
           Done(found), UNCHANGED <<latest, archive, lives>>, faults' \in 0..MaxFaults,
           NEW d \in Directory, dir' = [dir EXCEPT ![Pk] = d], DiskGood(d, latest[Pk]),
           found = "current" => CurrentGood(d)
    PROVE  PacksInv'
<1>1. /\ dir' \in [Pack -> Directory] /\ dir'[Pk] = d
      /\ \A p \in Pack : p # Pk => dir'[p] = dir[p]
  BY PacksRanges
<1>2. /\ verdict' \in [Pack -> {"none", "current", "declined", "updated", "failed"}]
      /\ verdict'[Pk] = found /\ \A p \in Pack : p # Pk => verdict'[p] = verdict[p]
  BY PacksRanges DEF Done
<1>3. HubType' /\ hub'.pc \in {"cleanup", "serving"} /\ hub'.next \in Nat \ {0}
      /\ (hub'.pc = "cleanup" => hub'.pack = Pk + 1 /\ hub'.next = 1)
  <2>1. 1 \in Release /\ 1 \in Nat \ {0} /\ 1 \in Pack
    BY PacksAssumption DEF Release, Pack
  <2>2. CASE Pk < NumPacks
    <3>1. hub' = [pc |-> "cleanup", pack |-> Pk + 1, release |-> 1, next |-> 1]
      BY <2>2 DEF Done, Started
    <3>2. Pk + 1 \in Pack
      BY <2>2, PacksRanges, PacksAssumption DEF Pack
    <3>3. QED
      BY <2>1, <3>1, <3>2 DEF HubType
  <2>3. CASE ~(Pk < NumPacks)
    <3>1. hub' = [hub EXCEPT !.pc = "serving"] /\ HubType
      BY <2>3 DEF Done, PacksInv
    <3>2. QED
      BY <3>1 DEF HubType
  <2>4. QED
    BY <2>2, <2>3
<1>4. HubOK'
  <2>1. ASSUME hub'.pc = "cleanup", NEW q \in Pack, q >= hub'.pack PROVE verdict'[q] = "none"
    <3>1. q >= Pk /\ q # Pk
      BY <1>3, <2>1, PacksRanges DEF Pack
    <3>2. QED
      BY <1>2, <3>1 DEF PacksInv, HubOK
  <2>2. QED
    BY <1>3, <2>1 DEF HubOK, Updating, Pk
<1>5. PacksTypeOK'
  BY <1>1, <1>2, <1>3, PacksRanges DEF PacksTypeOK, HubType, Directory, Archive, Updating
<1>6. ASSUME NEW p \in Pack
      PROVE  DiskGood(dir'[p], latest[p]) /\ (verdict'[p] = "current" => CurrentGood(dir'[p]))
  <2>1. CASE p = Pk
    BY <1>1, <1>2, <2>1
  <2>2. CASE p # Pk
    BY <1>1, <1>2, <2>2 DEF PacksInv
  <2>3. QED
    BY <2>1, <2>2
<1>7. QED
  BY <1>3, <1>4, <1>5, <1>6 DEF PacksInv

\* The update of the pack goes on; until it is over the pack has no verdict.
LEMMA UpdateKeeps ==
    ASSUME ArchivesAreSimple, PacksInv, hub.pc # "serving",
           UNCHANGED <<latest, verdict, lives>>, archive' \in Archive, faults' \in 0..MaxFaults,
           NEW d \in Directory, dir' = [dir EXCEPT ![Pk] = d],
           HubType', Pk' = Pk, hub'.pc \in Updating,
           UpdateGood(d, latest[Pk], Rel', hub'.next),
           hub'.pc \in {"create", "copy", "open", "remove"} => hub'.next = 1,
           hub'.pc = "write" => hub'.next <= Len(Order[Rel']),
           hub'.pc \in {"tidy", "version"} => hub'.next = Len(Order[Rel']) + 1,
           hub'.pc \in {"remove", "extract", "write"} => archive'[Pk][Rel'] = "whole"
    PROVE  PacksInv'
<1>1. /\ dir' \in [Pack -> Directory] /\ dir'[Pk] = d
      /\ \A p \in Pack : p # Pk => dir'[p] = dir[p]
  BY PacksRanges
<1>2. Rel' \in Release /\ hub'.next \in Nat \ {0}
  BY DEF HubType, Rel
<1>3. DiskGood(d, latest[Pk])
  BY <1>2, PacksRanges, UpdatingIsGood
<1>4. PacksTypeOK'
  BY <1>1, PacksRanges DEF PacksTypeOK, HubType, Directory, Archive, Updating
<1>5. \A q \in Pack : q >= Pk => verdict[q] = "none"
  BY DEF PacksInv, HubOK
<1>6. HubOK'
  <2>1. hub'.pc \notin {"cleanup", "check"}
    BY DEF Updating
  <2>2. QED
    BY <1>1, <1>5, <2>1 DEF HubOK, Pk, Rel
<1>7. verdict[Pk] = "none"
  BY <1>5, PacksRanges DEF Pack
<1>8. ASSUME NEW p \in Pack
      PROVE  DiskGood(dir'[p], latest[p]) /\ (verdict[p] = "current" => CurrentGood(dir'[p]))
  <2>1. CASE p = Pk
    BY <1>1, <1>3, <1>7, <2>1
  <2>2. CASE p # Pk
    BY <1>1, <2>2 DEF PacksInv
  <2>3. QED
    BY <2>1, <2>2
<1>9. QED
  BY <1>4, <1>6, <1>8 DEF PacksInv

-----------------------------------------------------------------------------
(* Resource packs: the steps *)

\* In the terms of the source, for the pack at hand.
LEMMA CheckIs ==
    ASSUME PacksInv, NEW p \in Pack
    PROVE  /\ IsCurrent(p) = Passes(dir[p], latest[p])
           /\ currentVersion(p) = Installed(dir[p])
  BY DEF IsCurrent, Passes, currentVersion, Installed, isResourcePackValid

LEMMA CheckSteps ==
    ASSUME ArchivesAreSimple, PacksInv,
           \/ MkdirFails \/ cleanupMcpacks \/ LatestReleaseFails \/ UpToDate \/ Prompted
           \/ Outdated
    PROVE  PacksInv'
<1>1. CASE MkdirFails
  BY <1>1, FaultCounts, PacksRanges, Serves DEF MkdirFails
<1>2. CASE cleanupMcpacks
  <2>1. /\ hub' = [hub EXCEPT !.pc = "check"] /\ HubType /\ hub.pc = "cleanup"
        /\ UNCHANGED <<latest, dir, verdict, lives>>
    BY <1>2 DEF cleanupMcpacks, HubAt, PacksInv
  <2>2. HubType' /\ hub'.pc = "check" /\ hub'.pack = hub.pack /\ hub'.next = hub.next
    BY <2>1 DEF HubType
  <2>3. archive' \in Archive
    <3>1. CASE archive' = [archive EXCEPT ![Pk] = [r \in Release |-> "none"]]
      BY <3>1, PacksRanges DEF Archive
    <3>2. ASSUME NEW kept \in SUBSET Release,
                 archive' = [archive EXCEPT ![Pk] =
                               [r \in Release |-> IF r \in kept THEN @[r] ELSE "none"]]
          PROVE  archive' \in Archive
      <4>1. \A r \in Release : archive[Pk][r] \in {"none", "part", "whole"}
        BY PacksRanges DEF Archive
      <4>2. [r \in Release |-> IF r \in kept THEN archive[Pk][r] ELSE "none"]
               \in [Release -> {"none", "part", "whole"}]
        BY <4>1
      <4>3. QED
        BY <3>2, <4>2, PacksRanges DEF Archive
    <3>3. QED
      BY <1>2, <3>1, <3>2 DEF cleanupMcpacks
  <2>4. faults' \in 0..MaxFaults
    BY <1>2, FaultCounts, PacksRanges DEF cleanupMcpacks
  <2>5. HubOK'
    BY <2>1, <2>2 DEF PacksInv, HubOK, Updating, Pk
  <2>6. PacksTypeOK'
    BY <2>1, <2>2, <2>3, <2>4, PacksRanges DEF PacksTypeOK, HubType, Directory, Archive
  <2>7. QED
    BY <2>1, <2>2, <2>5, <2>6 DEF PacksInv
<1>3. CASE LatestReleaseFails
  BY <1>3, FaultCounts, PacksRanges, ErrsKeeps DEF LatestReleaseFails
<1>4. dir' = dir => dir' = [dir EXCEPT ![Pk] = dir[Pk]]
  BY PacksRanges
<1>5. DiskGood(dir[Pk], latest[Pk])
  BY PacksRanges DEF PacksInv
<1>6. CASE UpToDate
  <2>1. CurrentGood(dir[Pk])
    BY <1>5, <1>6, CheckIs, CheckPasses, PacksRanges DEF UpToDate
  <2>2. hub.pc # "serving" /\ Done("current") /\ UNCHANGED <<latest, dir, archive, faults, lives>>
    BY <1>6 DEF UpToDate
  <2>3. QED
    BY <1>4, <1>5, <2>1, <2>2, PacksRanges, DoneKeeps
<1>7. CASE Prompted
  <2>1. hub.pc # "serving" /\ UNCHANGED <<latest, dir, archive, lives>>
    BY <1>7 DEF Prompted
  <2>2. CASE Done("declined") /\ UNCHANGED faults
    BY <1>4, <1>5, <2>1, <2>2, PacksRanges, DoneKeeps
  <2>3. CASE Errs /\ Fault(1)
    BY <2>1, <2>3, FaultCounts, PacksRanges, ErrsKeeps
  <2>4. QED
    BY <1>7, <2>2, <2>3 DEF Prompted
<1>8. CASE Outdated
  <2>1. /\ hub' = [hub EXCEPT !.pc = "create", !.release = latest[Pk]] /\ HubType
        /\ hub.pc = "check" /\ hub.next = 1
        /\ UNCHANGED <<latest, dir, archive, verdict, faults, lives>>
    BY <1>8 DEF Outdated, PacksInv, HubOK
  <2>2. /\ HubType' /\ Pk' = Pk /\ hub'.pc = "create" /\ Rel' = latest[Pk] /\ hub'.next = 1
    BY <2>1, PacksRanges DEF HubType, Updating, Pk, Rel
  <2>3. UpdateGood(dir[Pk], latest[Pk], latest[Pk], 1)
    BY <1>5, <1>8, CheckIs, CheckStarts, PacksRanges DEF Outdated
  <2>4. QED
    BY <1>4, <2>1, <2>2, <2>3, PacksRanges, UpdateKeeps DEF Updating
<1>9. QED
  BY <1>1, <1>2, <1>3, <1>6, <1>7, <1>8

\* A step of the update that only moves on, from what to what.
LEMMA MovesOn ==
    ASSUME ArchivesAreSimple, PacksInv, hub.pc \in Updating,
           NEW pc \in Updating, HubAt(pc),
           UNCHANGED <<latest, dir, verdict, lives>>, archive' \in Archive, faults' \in 0..MaxFaults,
           pc \in {"create", "copy", "open", "remove"} => hub.next = 1,
           pc = "write" => hub.next <= Len(Order[Rel]),
           pc \in {"tidy", "version"} => hub.next = Len(Order[Rel]) + 1,
           pc \in {"remove", "extract", "write"} => archive'[Pk][Rel] = "whole"
    PROVE  PacksInv'
<1>1. hub' = [hub EXCEPT !.pc = pc] /\ HubType
  BY DEF HubAt, PacksInv
<1>2. HubType' /\ Pk' = Pk /\ Rel' = Rel /\ hub'.pc = pc /\ hub'.next = hub.next
  BY <1>1 DEF HubType, Pk, Rel
<1>3. dir' = [dir EXCEPT ![Pk] = dir[Pk]] /\ hub.pc # "serving"
  BY PacksRanges DEF Updating
<1>4. UpdateGood(dir[Pk], latest[Pk], Rel, hub.next)
  BY DEF PacksInv, HubOK
<1>5. QED
  BY <1>2, <1>3, <1>4, PacksRanges, UpdateKeeps

LEMMA DownloadSteps ==
    ASSUME ArchivesAreSimple, PacksInv,
           DownloadFails \/ Create \/ Copy \/ CopyFails \/ OpenReader
    PROVE  PacksInv'
<1>1. CASE DownloadFails
  BY <1>1, FaultCounts, PacksRanges, ErrsKeeps DEF DownloadFails
<1>2. CASE Create
  <2>1. archive' \in Archive
    BY <1>2, PacksRanges DEF Create, Archive
  <2>2. hub.pc = "create" /\ hub.next = 1
    BY <1>2 DEF Create, PacksInv, HubOK
  <2>3. QED
    BY <1>2, <2>1, <2>2, PacksRanges, MovesOn DEF Create, Updating
<1>3. CASE Copy
  <2>1. archive' \in Archive
    BY <1>3, PacksRanges DEF Copy, Archive
  <2>2. hub.pc = "copy" /\ hub.next = 1
    BY <1>3 DEF Copy, PacksInv, HubOK
  <2>3. faults' \in 0..MaxFaults
    BY <1>3, FaultCounts, PacksRanges DEF Copy
  <2>4. QED
    BY <1>3, <2>1, <2>2, <2>3, MovesOn DEF Copy, Updating
<1>4. CASE CopyFails
  BY <1>4, ErrsAndRemovesKeeps DEF CopyFails
<1>5. CASE OpenReader
  <2>1. CASE ErrsAndRemoves(0)
    BY <2>1, ErrsAndRemovesKeeps
  <2>2. CASE /\ archive[Pk][Rel] = "whole" /\ HubAt("remove")
             /\ UNCHANGED <<latest, dir, archive, verdict, faults, lives>>
    <3>1. hub.pc = "open" /\ hub.next = 1
      BY <1>5 DEF OpenReader, PacksInv, HubOK
    <3>2. QED
      BY <2>2, <3>1, PacksRanges, MovesOn DEF Updating
  <2>3. QED
    BY <1>5, <2>1, <2>2 DEF OpenReader
<1>6. QED
  BY <1>1, <1>2, <1>3, <1>4, <1>5

LEMMA ReplaceSteps ==
    ASSUME ArchivesAreSimple, PacksInv,
           \/ \E e \in Entry : RemoveEntry(e)
           \/ Removed \/ OpenFile \/ WriteFile \/ ExtractFails \/ Extracted
    PROVE  PacksInv'
<1>1. /\ Pk \in Pack /\ Rel \in Release /\ hub.next \in Nat \ {0} /\ dir[Pk] \in Directory
      /\ latest[Pk] \in Release /\ Len(Order[Rel]) \in Nat /\ HubType
  BY PacksRanges, Archives DEF PacksInv
<1>2. hub.pc \in Updating => UpdateGood(dir[Pk], latest[Pk], Rel, hub.next)
  BY DEF PacksInv, HubOK
<1>3. ASSUME NEW e \in Entry, RemoveEntry(e) PROVE PacksInv'
  <2>1. PICK d : d = [dir[Pk] EXCEPT ![e] = Absent]
    OBVIOUS
  <2>2. dir' = [dir EXCEPT ![Pk] = d]
    BY <1>3, <2>1, PacksRanges DEF RemoveEntry
  <2>3. d \in Directory
    BY <1>1, <2>1 DEF Directory, Content
  <2>4. /\ hub.pc = "remove" /\ hub.next = 1 /\ archive[Pk][Rel] = "whole"
        /\ UNCHANGED <<latest, archive, hub, verdict, faults, lives>>
    BY <1>3 DEF RemoveEntry, PacksInv, HubOK
  <2>5. \A j \in 1..(hub.next - 1) : FALSE
    BY <2>4
  <2>6. UpdateGood(d, latest[Pk], Rel, hub.next)
    BY <1>1, <1>2, <2>1, <2>4, <2>5, EntryLost DEF Updating
  <2>7. HubType' /\ Pk' = Pk /\ Rel' = Rel
    BY <1>1, <2>4 DEF HubType, Pk, Rel
  <2>8. QED
    BY <2>2, <2>3, <2>4, <2>6, <2>7, PacksRanges, UpdateKeeps DEF Updating
<1>4. CASE Removed
  <2>1. /\ hub' = [hub EXCEPT !.pc = "extract", !.next = 1] /\ hub.pc = "remove"
        /\ hub.next = 1 /\ archive[Pk][Rel] = "whole"
        /\ UNCHANGED <<latest, dir, archive, verdict, lives>>
    BY <1>4 DEF Removed, PacksInv, HubOK
  <2>2. faults' \in 0..MaxFaults
    BY <1>4, FaultCounts, PacksRanges DEF Removed
  <2>3. HubAt("extract")
    BY <1>1, <2>1 DEF HubAt, HubType
  <2>4. QED
    BY <2>1, <2>2, <2>3, PacksRanges, MovesOn DEF Updating
<1>5. CASE OpenFile
  <2>0. PICK e : e = Order[Rel][hub.next]
    OBVIOUS
  <2>1. PICK d : d = [dir[Pk] EXCEPT ![e] = Torn]
    OBVIOUS
  <2>2. dir' = [dir EXCEPT ![Pk] = d]
    BY <1>5, <2>0, <2>1, PacksRanges DEF OpenFile, Current
  <2>3. d \in Directory
    BY <1>1, <2>1 DEF Directory, Content
  <2>4. /\ hub.pc = "extract" /\ hub.next <= Len(Order[Rel]) /\ archive[Pk][Rel] = "whole"
        /\ hub' = [hub EXCEPT !.pc = "write"]
        /\ UNCHANGED <<latest, archive, verdict, faults, lives>>
    BY <1>5 DEF OpenFile, HubAt, PacksInv, HubOK
  <2>5. hub.next \in 1..Len(Order[Rel]) /\ e \in Entry
    BY <1>1, <2>0, <2>4, Archives
  <2>6. \A j \in 1..(hub.next - 1) : Order[Rel][j] # e
    <3>1. \A j \in 1..(hub.next - 1) : j \in 1..Len(Order[Rel]) /\ j # hub.next
      BY <1>1, <2>4
    <3>2. QED
      BY <1>1, <2>0, <2>5, <3>1 DEF ArchivesAreSimple
  <2>7. UpdateGood(d, latest[Pk], Rel, hub.next)
    BY <1>1, <1>2, <2>1, <2>4, <2>5, <2>6, EntryLost DEF Updating
  <2>8. HubType' /\ Pk' = Pk /\ Rel' = Rel /\ hub'.pc = "write" /\ hub'.next = hub.next
    BY <1>1, <2>4 DEF HubType, Pk, Rel, Updating
  <2>9. QED
    BY <2>2, <2>3, <2>4, <2>7, <2>8, PacksRanges, UpdateKeeps DEF Updating
<1>6. CASE WriteFile
  <2>0. PICK e : e = Order[Rel][hub.next]
    OBVIOUS
  <2>1. PICK d : d = [dir[Pk] EXCEPT ![e] = Rel]
    OBVIOUS
  <2>2. dir' = [dir EXCEPT ![Pk] = d]
    BY <1>6, <2>0, <2>1, PacksRanges DEF WriteFile, Current
  <2>3. d \in Directory
    BY <1>1, <2>1 DEF Directory, Content
  <2>4. /\ hub.pc = "write" /\ hub.next <= Len(Order[Rel]) /\ archive[Pk][Rel] = "whole"
        /\ hub' = [hub EXCEPT !.pc = "extract", !.next = hub.next + 1]
        /\ UNCHANGED <<latest, archive, verdict, faults, lives>>
    BY <1>6 DEF WriteFile, PacksInv, HubOK
  <2>5. UpdateGood(d, latest[Pk], Rel, hub.next + 1)
    BY <1>1, <1>2, <2>0, <2>1, <2>4, FileWritten DEF Updating
  <2>6. HubType' /\ Pk' = Pk /\ Rel' = Rel /\ hub'.pc = "extract" /\ hub'.next = hub.next + 1
    <3>1. hub.next + 1 \in Nat \ {0}
      BY <1>1
    <3>2. QED
      BY <1>1, <2>4, <3>1 DEF HubType, Pk, Rel, Updating
  <2>7. QED
    BY <2>2, <2>3, <2>4, <2>5, <2>6, PacksRanges, UpdateKeeps DEF Updating
<1>7. CASE ExtractFails
  BY <1>7, ErrsAndRemovesKeeps DEF ExtractFails
<1>8. CASE Extracted
  <2>1. CASE ErrsAndRemoves(0)
    BY <2>1, ErrsAndRemovesKeeps
  <2>2. CASE HubAt("tidy") /\ UNCHANGED <<latest, dir, archive, verdict, faults, lives>>
    <3>1. hub.pc = "extract" /\ hub.next = Len(Order[Rel]) + 1
      <4>1. hub.pc = "extract" /\ hub.next > Len(Order[Rel])
        BY <1>8 DEF Extracted
      <4>2. hub.next <= Len(Order[Rel]) + 1
        BY <1>2, <4>1 DEF UpdateGood, Updating
      <4>3. QED
        BY <1>1, <4>1, <4>2
    <3>2. QED
      BY <2>2, <3>1, PacksRanges, MovesOn DEF Updating
  <2>3. QED
    BY <1>8, <2>1, <2>2 DEF Extracted
<1>9. QED
  BY <1>3, <1>4, <1>5, <1>6, <1>7, <1>8

LEMMA RecordSteps ==
    ASSUME ArchivesAreSimple, PacksInv, RemoveArchive \/ TruncateVersion \/ WriteVersion
    PROVE  PacksInv'
<1>1. /\ Pk \in Pack /\ Rel \in Release /\ hub.next \in Nat \ {0} /\ dir[Pk] \in Directory
      /\ latest[Pk] \in Release /\ Len(Order[Rel]) \in Nat /\ HubType
  BY PacksRanges, Archives DEF PacksInv
<1>2. hub.pc \in {"tidy", "version"} =>
         /\ UpdateGood(dir[Pk], latest[Pk], Rel, hub.next) /\ hub.next = Len(Order[Rel]) + 1
  BY DEF PacksInv, HubOK, Updating
<1>3. CASE RemoveArchive
  <2>1. archive' \in Archive
    BY <1>3, PacksRanges DEF RemoveArchive, Archive
  <2>2. faults' \in 0..MaxFaults
    BY <1>3, FaultCounts, PacksRanges DEF RemoveArchive
  <2>3. QED
    BY <1>2, <1>3, <2>1, <2>2, MovesOn DEF RemoveArchive, Updating
<1>4. CASE TruncateVersion
  <2>1. PICK d : d = [dir[Pk] EXCEPT ![VersionFile] = Torn]
    OBVIOUS
  <2>2. dir' = [dir EXCEPT ![Pk] = d] /\ hub.pc = "version"
        /\ UNCHANGED <<latest, archive, hub, verdict, faults, lives>>
    BY <1>4, <2>1, PacksRanges DEF TruncateVersion
  <2>3. d \in Directory
    BY <1>1, <2>1 DEF Directory, Content
  <2>4. \A j \in 1..(hub.next - 1) : Order[Rel][j] # VersionFile
    BY <1>1, <1>2, <2>2, Archives DEF ArchivesAreSimple
  <2>5. UpdateGood(d, latest[Pk], Rel, hub.next)
    BY <1>1, <1>2, <2>1, <2>2, <2>4, EntryLost, Archives
  <2>6. HubType' /\ Pk' = Pk /\ Rel' = Rel
    BY <1>1, <2>2 DEF HubType, Pk, Rel
  <2>7. QED
    BY <1>2, <2>2, <2>3, <2>5, <2>6, PacksRanges, UpdateKeeps DEF Updating
<1>5. CASE WriteVersion
  <2>1. hub.pc = "version" /\ Done("updated") /\ UNCHANGED <<latest, archive, lives>>
    BY <1>5 DEF WriteVersion
  <2>2. CASE dir' = [dir EXCEPT ![Pk][VersionFile] = Rel] /\ UNCHANGED faults
    <3>1. PICK d : d = [dir[Pk] EXCEPT ![VersionFile] = Rel]
      OBVIOUS
    <3>2. dir' = [dir EXCEPT ![Pk] = d]
      BY <2>2, <3>1, PacksRanges
    <3>3. d \in Directory
      BY <1>1, <3>1 DEF Directory, Content
    <3>4. DiskGood(d, latest[Pk])
      BY <1>1, <1>2, <2>1, <3>1, VersionWritten
    <3>5. QED
      BY <2>1, <2>2, <3>2, <3>3, <3>4, PacksRanges, DoneKeeps
  <2>3. CASE Fault(1) /\ UNCHANGED dir
    <3>1. dir' = [dir EXCEPT ![Pk] = dir[Pk]]
      BY <2>3, PacksRanges
    <3>2. DiskGood(dir[Pk], latest[Pk])
      BY <1>1 DEF PacksInv
    <3>3. faults' \in 0..MaxFaults
      BY <2>3, FaultCounts
    <3>4. QED
      BY <1>1, <2>1, <3>1, <3>2, <3>3, DoneKeeps
  <2>4. QED
    BY <1>5, <2>2, <2>3 DEF WriteVersion
<1>6. QED
  BY <1>3, <1>4, <1>5

LEMMA PublishKeeps ==
    ASSUME PacksInv, NEW p \in Pack, Publish(p)
    PROVE  PacksInv'
<1>1. PICK m : m = latest[p] + 1
  OBVIOUS
<1>2. /\ latest' = [latest EXCEPT ![p] = m] /\ latest[p] < MaxRelease
      /\ UNCHANGED <<dir, archive, hub, verdict, faults, lives>>
  BY <1>1 DEF Publish
<1>3. latest[p] \in Release /\ m \in Release
  BY <1>1, <1>2, PacksRanges, PacksAssumption DEF Release
<1>4. /\ latest' \in [Pack -> Release] /\ latest'[p] = m
      /\ \A q \in Pack : q # p => latest'[q] = latest[q]
  BY <1>2, <1>3, PacksRanges
<1>5. ASSUME NEW q \in Pack
      PROVE  /\ DiskGood(dir[q], latest'[q])
             /\ \A r \in Release : \A n \in Nat :
                   UpdateGood(dir[q], latest[q], r, n) => UpdateGood(dir[q], latest'[q], r, n)
  <2>1. DiskGood(dir[q], latest[q]) /\ dir[q] \in Directory
    BY PacksRanges DEF PacksInv
  <2>2. CASE q = p
    BY <1>1, <1>3, <1>4, <2>1, <2>2, LaterRelease
  <2>3. CASE q # p
    BY <1>4, <2>1, <2>3
  <2>4. QED
    BY <2>2, <2>3
<1>6. HubOK'
  <2>1. hub.pc \in Updating => UpdateGood(dir[Pk], latest'[Pk], Rel, hub.next)
    <3>1. hub.pc \in Updating => UpdateGood(dir[Pk], latest[Pk], Rel, hub.next)
      BY DEF PacksInv, HubOK
    <3>2. QED
      BY <1>5, <3>1, PacksRanges
  <2>2. Pk' = Pk /\ Rel' = Rel
    BY <1>2 DEF Pk, Rel
  <2>3. QED
    BY <1>2, <2>1, <2>2 DEF PacksInv, HubOK
<1>7. HubType' /\ PacksTypeOK'
  BY <1>2, <1>4 DEF PacksInv, HubType, PacksTypeOK
<1>8. QED
  BY <1>2, <1>5, <1>6, <1>7 DEF PacksInv

\* A start finds the disk as the last one has left it, wherever that was.
LEMMA StartAgainKeeps ==
    ASSUME PacksInv, StartAgain
    PROVE  PacksInv'
<1>1. /\ hub' = [pc |-> "cleanup", pack |-> 1, release |-> 1, next |-> 1]
      /\ verdict' = [p \in Pack |-> "none"] /\ lives' = lives + 1 /\ lives < MaxLives
      /\ UNCHANGED <<latest, dir, archive, faults>>
  BY DEF StartAgain, Started
<1>2. 1 \in Release /\ 1 \in Pack /\ lives' \in 1..MaxLives
  <2>1. NumPacks \in Nat \ {0} /\ MaxRelease \in Nat \ {0} /\ MaxLives \in Nat \ {0}
    BY PacksAssumption
  <2>2. lives \in 1..MaxLives
    BY PacksRanges
  <2>3. QED
    BY <1>1, <2>1, <2>2 DEF Release, Pack
<1>3. HubType'
  BY <1>1, <1>2 DEF HubType
<1>4. PacksTypeOK'
  BY <1>1, <1>2 DEF PacksInv, PacksTypeOK
<1>5. HubOK'
  BY <1>1 DEF HubOK, Updating
<1>6. QED
  BY <1>1, <1>3, <1>4, <1>5 DEF PacksInv

LEMMA PacksInitInv == PacksInit => PacksInv
<1> SUFFICES ASSUME PacksInit PROVE PacksInv
  OBVIOUS
<1>1. 1 \in Release /\ 1 \in Pack /\ 1 \in 1..MaxLives /\ 0 \in 0..MaxFaults
  BY PacksAssumption DEF Release, Pack
<1>2. HubType
  BY <1>1 DEF PacksInit, Started, HubType
<1>3. dir \in [Pack -> Directory] /\ \A p \in Pack : \A e \in Entry : dir[p][e] = Absent
  BY DEF PacksInit, Directory, Content
<1>4. PacksTypeOK
  BY <1>1, <1>3 DEF PacksInit, Started, PacksTypeOK, Directory
<1>5. ASSUME NEW p \in Pack PROVE DiskGood(dir[p], latest[p])
  <2>1. Absent \notin Release
    BY DEF Absent, Release
  <2>2. VersionFile \in Entry /\ Manifest \in Entry
    BY PacksAssumption DEF Entry
  <2>3. QED
    BY <1>3, <2>1, <2>2 DEF DiskGood
<1>6. HubOK
  BY DEF PacksInit, Started, HubOK, Updating
<1>7. QED
  BY <1>2, <1>4, <1>5, <1>6 DEF PacksInv, PacksInit

LEMMA PacksNextInv ==
    ASSUME ArchivesAreSimple, PacksInv, [PacksNext]_packVars
    PROVE  PacksInv'
<1>1. CASE UNCHANGED packVars
  <2>1. UNCHANGED <<latest, dir, archive, hub, verdict, faults, lives>>
    BY <1>1 DEF packVars
  <2>2. HubOK'
    BY <2>1 DEF PacksInv, HubOK, Pk, Rel
  <2>3. HubType' /\ PacksTypeOK'
    BY <2>1 DEF PacksInv, HubType, PacksTypeOK
  <2>4. QED
    BY <2>1, <2>2, <2>3 DEF PacksInv
<1>2. CASE CheckAndUpdate
  BY <1>2, CheckSteps, DownloadSteps, ReplaceSteps, RecordSteps DEF CheckAndUpdate
<1>3. QED
  BY <1>1, <1>2, PublishKeeps, StartAgainKeeps DEF PacksNext

-----------------------------------------------------------------------------
(* Resource packs: theorems *)

\* The invariant of the packs holds of every run, whatever fails and however
\* often the hub is killed, for archives that list a file once.
THEOREM PacksInvariant ==
    ASSUME ArchivesAreSimple
    PROVE  PacksSpec => []PacksInv
<1>1. PacksInit => PacksInv
  BY PacksInitInv
<1>2. PacksInv /\ [PacksNext]_packVars => PacksInv'
  BY PacksNextInv
<1>3. QED
  BY <1>1, <1>2, PTL DEF PacksSpec

\* A pack that a start takes for up to date is whole, at least up to its manifest,
\* if that has the version of the release or none.
THEOREM UpToDateTheorem ==
    ASSUME ArchivesAreSimple
    PROVE  PacksSpec => []UpToDateIsWhole
<1>1. ASSUME PacksInv PROVE UpToDateIsWhole
  <2>1. ASSUME NEW p \in Pack, verdict[p] = "current"
        PROVE  LET r == currentVersion(p)
               IN  /\ r \in Release
                   /\ (Recognised(r) /\ \E i \in 1..Len(Order[r]) : Order[r][i] = Manifest) =>
                          /\ dir[p][Manifest] = r
                          /\ WholeUpToManifest(p, r)
                          /\ Header[r] = 0 => IsWhole(p, r)
    <3>1. CurrentGood(dir[p]) /\ currentVersion(p) = Installed(dir[p])
      BY <1>1, <2>1, CheckIs DEF PacksInv
    <3>2. QED
      BY <3>1 DEF CurrentGood, HasManifest, WholeUpToManifest, UpToManifest, IsWhole, Whole
  <2>2. QED
    BY <2>1 DEF UpToDateIsWhole
<1>2. QED
  BY <1>1, PacksInvariant, PTL

\* The files of a directory change only while the whole archive is there.
LEMMA FilesChange ==
    ASSUME ArchivesAreSimple, PacksInv, [PacksNext]_packVars, NEW p \in Pack, NEW e \in File,
           dir'[p][e] # dir[p][e]
    PROVE  archive[p][Rel] = "whole"
<1>1. /\ Pk \in Pack /\ Rel \in Release /\ dir \in [Pack -> Directory]
      /\ hub.next \in Nat \ {0} /\ e \in Entry
  BY PacksRanges, PacksAssumption DEF Entry
<1>2. hub.pc \in {"remove", "extract", "write"} => archive[Pk][Rel] = "whole"
  BY DEF PacksInv, HubOK
<1>3. dir' # dir
  OBVIOUS
<1>4. CASE \E f \in Entry : RemoveEntry(f)
  <2>1. PICK f \in Entry : RemoveEntry(f)
    BY <1>4
  <2>2. p = Pk
    BY <1>1, <2>1 DEF RemoveEntry
  <2>3. QED
    BY <1>2, <2>1, <2>2 DEF RemoveEntry
<1>5. CASE OpenFile
  <2>1. p = Pk
    BY <1>1, <1>5 DEF OpenFile
  <2>2. QED
    BY <1>2, <1>5, <2>1 DEF OpenFile
<1>6. CASE WriteFile
  <2>1. p = Pk
    BY <1>1, <1>6 DEF WriteFile
  <2>2. QED
    BY <1>2, <1>6, <2>1 DEF WriteFile
<1>7. CASE TruncateVersion \/ WriteVersion
  <2>1. PICK c : dir' = [dir EXCEPT ![Pk][VersionFile] = c]
    BY <1>3, <1>7 DEF TruncateVersion, WriteVersion
  <2>2. e = VersionFile
    <3>1. dir[Pk] = [f \in Entry |-> dir[Pk][f]]
      BY <1>1 DEF Directory
    <3>2. dir'[Pk] = [dir[Pk] EXCEPT ![VersionFile] = c] /\ (p # Pk => dir'[p] = dir[p])
      BY <1>1, <2>1
    <3>3. QED
      BY <1>1, <3>1, <3>2
  <2>3. QED
    BY <2>2 DEF ArchivesAreSimple
<1>8. dir' = dir \/ (\E f \in Entry : RemoveEntry(f)) \/ OpenFile \/ WriteFile
      \/ TruncateVersion \/ WriteVersion
  BY DEF PacksNext, CheckAndUpdate, packVars, MkdirFails, cleanupMcpacks,
         LatestReleaseFails, UpToDate, Prompted, Outdated, DownloadFails, Create, Copy,
         CopyFails, OpenReader, Removed, ExtractFails, Extracted, RemoveArchive,
         ErrsAndRemoves, Publish, StartAgain
<1>9. QED
  BY <1>3, <1>4, <1>5, <1>6, <1>7, <1>8

\* Nothing of a whole pack is removed before the archive that replaces it is
\* whole on the disk: players keep the old pack when a download goes wrong.
THEOREM OldPackIsKept ==
    ASSUME ArchivesAreSimple
    PROVE  PacksSpec => OldPackOutlivesDownload
<1>1. ASSUME PacksInv, [PacksNext]_packVars, NEW p \in Pack, NEW r \in Release,
             IsWhole(p, r), ~IsWhole(p, r)'
      PROVE  archive[p][Rel] = "whole"
  <2>1. PICK i \in 1..Len(Order[r]) : dir'[p][Order[r][i]] # r
    BY <1>1 DEF IsWhole
  <2>2. dir[p][Order[r][i]] = r /\ Order[r][i] \in File
    BY <1>1, Archives DEF IsWhole
  <2>3. QED
    BY <1>1, <2>1, <2>2, FilesChange
<1>2. PacksInv /\ [PacksNext]_packVars =>
         [\A p \in Pack, r \in Release :
             IsWhole(p, r) /\ ~IsWhole(p, r)' => archive[p][Rel] = "whole"]_packVars
  BY <1>1
<1>3. QED
  BY <1>2, PacksInvariant, PTL DEF PacksSpec, OldPackOutlivesDownload

\* A release that is installed, and recorded by its manifest or, if that has no
\* version, by the version file, is not downloaded again, over any number of
\* starts: the check would have let it pass.  It is one whose manifest has
\* another version than its tag that is downloaded at every start.
THEOREM DownloadsAreNeeded ==
    ASSUME ArchivesAreSimple
    PROVE  PacksSpec => NoNeedlessDownload
<1>1. ASSUME PacksInv, hub.pc = "create"
      PROVE  ~(/\ dir[Pk][Manifest] = Rel /\ IsWhole(Pk, Rel)
               /\ \/ Header[Rel] = Rel
                  \/ Header[Rel] = 0 /\ dir[Pk][VersionFile] = Rel)
  <2>1. UpdateGood(dir[Pk], latest[Pk], Rel, hub.next) /\ hub.next = 1 /\ Rel \in Release
    BY <1>1, PacksRanges DEF PacksInv, HubOK, Updating
  <2>2. ASSUME dir[Pk][Manifest] = Rel
        PROVE  HasManifest(Rel) /\ Header[Rel] # Rel
    BY <2>1, <2>2 DEF UpdateGood
  <2>3. ASSUME dir[Pk][VersionFile] = Rel
        PROVE  ~(HasManifest(Rel) /\ Recognised(Rel))
    BY <2>1, <2>3 DEF UpdateGood
  <2>4. QED
    BY <2>2, <2>3 DEF Recognised
<1>2. PacksInv =>
         [hub.pc = "create" /\ hub'.pc = "copy" =>
             ~(/\ dir[Pk][Manifest] = Rel /\ IsWhole(Pk, Rel)
               /\ \/ Header[Rel] = Rel
                  \/ Header[Rel] = 0 /\ dir[Pk][VersionFile] = Rel)]_packVars
  BY <1>1
<1>3. QED
  BY <1>2, PacksInvariant, PTL DEF PacksSpec, NoNeedlessDownload


=============================================================================
