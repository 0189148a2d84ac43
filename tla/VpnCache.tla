------------------------------- MODULE VpnCache -------------------------------
(***************************************************************************)
(* The cache of VPN verdicts (pokebedrock/vpn/cache.go): checks of new     *)
(* connections set entries from their goroutines, one flusher goroutine    *)
(* writes snapshots to a file, the hub may crash at any step and loads the *)
(* file when it is started again.                                          *)
(*                                                                         *)
(* The flusher is fast compared with the clock, which only moves while the *)
(* flusher waits.  Creating the file of a first start is left out: a       *)
(* missing file is one without entries.                                    *)
(***************************************************************************)
EXTENDS Integers

CONSTANTS
    Address,        \* IP addresses
    FlushInterval,  \* flushInterval, in ticks
    Failing,        \* writes to the disk may fail
    MaxTime,        \* the clock stops here (bound)
    MaxCrashes      \* crashes of the hub (bound)

ASSUME VpnCacheAssumption ==
    /\ FlushInterval \in Nat \ {0}
    /\ Failing \in BOOLEAN
    /\ MaxTime \in Nat /\ MaxCrashes \in Nat

Never == -1                     \* the timer is stopped; nothing is unsaved

VARIABLES
    now,        \* time.Now()
    data,       \* Cache.data
    dirty,      \* Cache.dirty
    signalling, \* addresses whose check has stored a verdict, and signals next
    flush,      \* a signal is in Cache.flush
    timer,      \* the time at which the flusher's timer fires
    stop,       \* Cache.stop is closed
    flusher,    \* the flusher and the snapshot it writes
    file,       \* the file
    crashes,    \* crashes so far
    failed,     \* the last write has failed (history)
    settled     \* addresses not set again since Stop (history)

vars == <<now, data, dirty, signalling, flush, timer, stop, flusher, file, crashes, failed, settled>>

Entries == [Address -> {"unknown", "proxy", "clean"}]

NoEntries == [a \in Address |-> "unknown"]

Unreadable == [a \in Address |-> "unreadable"]

\* What NewCache reads: a file it cannot decode counts for nothing.
Loaded(f) == IF f = Unreadable THEN NoEntries ELSE f

Waiting == [pc |-> "select", last |-> FALSE, snapshot |-> NoEntries]

TypeOK ==
    /\ now \in 0..MaxTime
    /\ signalling \subseteq Address
    /\ data \in Entries /\ file \in Entries \cup {Unreadable}
    /\ dirty \in BOOLEAN /\ flush \in BOOLEAN /\ stop \in BOOLEAN /\ failed \in BOOLEAN
    /\ timer \in {Never} \cup 0..(MaxTime + FlushInterval)
    /\ flusher \in [pc : {"select", "write", "rename", "stopped"}, last : BOOLEAN,
                    snapshot : Entries]
    /\ crashes \in 0..MaxCrashes
    /\ settled \subseteq Address

Init ==
    /\ now = 0
    /\ data = NoEntries /\ file \in {NoEntries, Unreadable}
    /\ dirty = FALSE /\ signalling = {} /\ flush = FALSE /\ timer = Never /\ stop = FALSE
    /\ flusher = Waiting
    /\ crashes = 0 /\ failed = FALSE /\ settled = {}

-----------------------------------------------------------------------------
(* The checks *)

\* Set stores the verdict under the lock (an address is checked by one
\* connection at a time, a bound) ...
Set(a, verdict) ==
    /\ a \notin signalling
    /\ data' = [data EXCEPT ![a] = verdict]
    /\ dirty' = TRUE
    /\ signalling' = signalling \cup {a}
    /\ settled' = settled \ {a}
    /\ UNCHANGED <<now, flush, timer, stop, flusher, file, crashes, failed>>

\* ... and signals without it.
Signal(a) ==
    /\ a \in signalling
    /\ signalling' = signalling \ {a}
    /\ flush' = TRUE
    /\ UNCHANGED <<now, data, dirty, timer, stop, flusher, file, crashes, failed, settled>>

Stop ==
    /\ ~stop
    /\ stop' = TRUE
    /\ settled' = Address
    /\ UNCHANGED <<now, data, dirty, signalling, flush, timer, flusher, file, crashes, failed>>

-----------------------------------------------------------------------------
(* The flusher *)

Ends(last) == [Waiting EXCEPT !.pc = IF last THEN "stopped" ELSE "select"]

\* writeIfDirty as far as the copy it makes under the lock.
writeIfDirty(last) ==
    \/ /\ dirty
       /\ flusher' = [pc |-> "write", last |-> last, snapshot |-> data]
       /\ dirty' = FALSE
    \/ /\ ~dirty
       /\ flusher' = Ends(last)
       /\ UNCHANGED dirty

Due == timer # Never /\ now >= timer

\* The flusher takes the signal: the timer starts once more.
Signalled ==
    /\ flusher.pc = "select" /\ flush
    /\ flush' = FALSE
    /\ timer' = now + FlushInterval
    /\ UNCHANGED <<now, data, dirty, signalling, stop, flusher, file, crashes, failed, settled>>

TimerFires ==
    /\ flusher.pc = "select" /\ Due
    /\ timer' = Never
    /\ writeIfDirty(FALSE)
    /\ UNCHANGED <<now, data, signalling, flush, stop, file, crashes, failed, settled>>

Stopping ==
    /\ flusher.pc = "select" /\ stop
    /\ writeIfDirty(TRUE)
    /\ UNCHANGED <<now, data, signalling, flush, timer, stop, file, crashes, failed, settled>>

\* Mutant of WriteTemporary: the file itself is written.
WriteInPlace ==
    /\ flusher.pc = "write"
    /\ flusher' = [flusher EXCEPT !.pc = "rename"]
    /\ file' = Unreadable
    /\ UNCHANGED <<now, data, dirty, signalling, flush, timer, stop, crashes, failed, settled>>

\* writeJSONFile writes another file ...
WriteTemporary ==
    /\ flusher.pc = "write"
    /\ flusher' = [flusher EXCEPT !.pc = "rename"]
    /\ UNCHANGED <<now, data, dirty, signalling, flush, timer, stop, file, crashes, failed, settled>>

\* Mutant of Rename: the cache is clean only once the write is over.
RenameClears ==
    /\ flusher.pc = "rename"
    /\ file' = flusher.snapshot
    /\ flusher' = Ends(flusher.last)
    /\ failed' = FALSE /\ dirty' = FALSE
    /\ UNCHANGED <<now, data, signalling, flush, timer, stop, crashes, settled>>

\* ... and renames it.
Rename ==
    /\ flusher.pc = "rename"
    /\ file' = flusher.snapshot
    /\ flusher' = Ends(flusher.last)
    /\ failed' = FALSE
    /\ UNCHANGED <<now, data, dirty, signalling, flush, timer, stop, crashes, settled>>

\* Any step of the write fails: markDirty.
WriteFails ==
    /\ Failing
    /\ flusher.pc \in {"write", "rename"}
    /\ flusher' = Ends(flusher.last)
    /\ dirty' = TRUE /\ failed' = TRUE
    /\ UNCHANGED <<now, data, signalling, flush, timer, stop, file, crashes, settled>>

Flusher == Signalled \/ TimerFires \/ Stopping \/ WriteTemporary \/ Rename \/ WriteFails

-----------------------------------------------------------------------------

\* The hub ends at any step and is started again: NewCache.
Crash ==
    /\ crashes < MaxCrashes
    /\ crashes' = crashes + 1
    /\ data' = Loaded(file)
    /\ dirty' = FALSE /\ signalling' = {} /\ flush' = FALSE /\ timer' = Never /\ stop' = FALSE
    /\ flusher' = Waiting
    /\ failed' = FALSE /\ settled' = {}
    /\ UNCHANGED <<now, file>>

Quiet == flusher.pc = "select" /\ ~flush /\ ~stop /\ ~Due

Tick ==
    /\ now < MaxTime
    /\ Quiet \/ flusher.pc = "stopped"
    /\ now' = now + 1
    /\ UNCHANGED <<data, dirty, signalling, flush, timer, stop, flusher, file, crashes, failed, settled>>

Next ==
    \/ \E a \in Address, verdict \in {"proxy", "clean"} : Set(a, verdict)
    \/ \E a \in Address : Signal(a)
    \/ Stop \/ Flusher \/ Crash \/ Tick

Spec == Init /\ [][Next]_vars

-----------------------------------------------------------------------------
(* Properties *)

\* No update is lost on its way to the file: while the file lacks an entry a
\* signal is about to be sent or pending, the timer runs, a write is under way, or the last write
\* has failed, after which the code waits for the next Set.
UnsavedIsScheduled ==
    (flusher.pc = "select" /\ data # Loaded(file)) =>
        signalling # {} \/ flush \/ timer # Never \/ failed

\* An address that is in the file stays there, over failed writes, crashes in
\* the middle of a write, and restarts.
FileNeverForgets ==
    [][\A a \in Address : Loaded(file)[a] # "unknown" => Loaded(file)'[a] # "unknown"]_vars

=============================================================================
