----------------------------- MODULE ScrsStore -----------------------------
(***************************************************************************)
(* The save protocol of scrp/state_manager.py.  Each StateManager loads    *)
(* the JSON file once, stages a change in its own copy and persists the    *)
(* whole copy: lock file, version check, temp file, backup, rename.        *)
(* Several managers run at once (request threads, worker processes, the    *)
(* command line tools); nothing but the file system joins them.            *)
(*                                                                         *)
(* One step of this module is one file-system call, or the calls of one    *)
(* manager between two that others can observe.  The audit log and the     *)
(* records are abstracted to the set of changes a document contains.       *)
(***************************************************************************)
EXTENDS Naturals, FiniteSets

CONSTANTS
    Writers,       \* StateManager instances alive at some time
    Changes,       \* decisions to save; each is saved by one call
    NoLock,        \* there is no .json.lock file
    NoChange,      \* the manager is not in a save
    NoFile,        \* the temp or backup file does not exist
    Torn,          \* a file whose writer stopped half way
    MaxCrashes,    \* bound: processes killed
    MaxPolls,      \* bound: sleeps of one save before its 10 s deadline
    MayStall,      \* a live lock holder may take longer than the 60 s limit
    AtomicBreak    \* nothing happens between a waiter's stat and its unlink

VARIABLES
    file,          \* SCRS_state.json; a missing file reads as version 0
    tmp,           \* SCRS_state.json.tmp, one path for all managers
    bak,           \* SCRS_state.json.bak
    lock,          \* the manager that created the .json.lock file, or NoLock
    stale,         \* the lock file is older than 60 s
    pc,            \* where each manager is
    mem,           \* its in-memory copy, StateManager._state
    change,        \* the change its current save is about
    polls,         \* sleeps of the current save so far
    acked,         \* history: changes whose save returned
    started,       \* history: changes staged so far
    crashes        \* history: number of crashes

disk == <<file, tmp, bak>>
locks == <<lock, stale>>
own == <<mem, change, polls>>
hist == <<acked, started, crashes>>
storevars == <<disk, locks, pc, own, hist>>

Doc == [version : Nat, changes : SUBSET Changes]
Empty == [version |-> 0, changes |-> {}]

ASSUME StoreAssumption ==
    /\ MayStall \in BOOLEAN
    /\ AtomicBreak \in BOOLEAN
    /\ MaxCrashes \in Nat
    /\ MaxPolls \in Nat
    /\ NoLock \notin Writers
    /\ NoChange \notin Changes
    /\ NoFile \notin Doc
    /\ Torn \notin Doc
    /\ NoFile # Torn

(* "waiting".."breaking" are the loop of _lock, "locked".."failing" the    *)
(* body of the with statement.  A manager that is "down" does not exist.   *)
Phases == {"down", "ready", "waiting", "denied", "breaking", "locked",
           "checked", "written", "backed", "renamed", "failing"}
Critical == {"locked", "checked", "written", "backed", "renamed", "failing"}

Goto(w, phase) == pc' = [pc EXCEPT ![w] = phase]

StoreInit ==
    /\ file = Empty
    /\ tmp = NoFile
    /\ bak = NoFile
    /\ lock = NoLock
    /\ stale = FALSE
    /\ pc = [w \in Writers |-> "down"]
    /\ mem = [w \in Writers |-> Empty]
    /\ change = [w \in Writers |-> NoChange]
    /\ polls = [w \in Writers |-> 0]
    /\ acked = {}
    /\ started = {}
    /\ crashes = 0

----------------------------------------------------------------------------
(* Mutant: the leftover temp file is taken for the state file.             *)
MutantLoad(w) ==
    /\ pc[w] = "down"
    /\ file # Torn
    /\ mem' = [mem EXCEPT ![w] = tmp]
    /\ Goto(w, "ready")
    /\ UNCHANGED <<disk, locks, change, polls, hist>>

(* StateManager(path): read the whole file, or start empty.  An unreadable *)
(* file raises SCRSCorruptError and no manager comes to exist.             *)
Load(w) ==
    /\ pc[w] = "down"
    /\ file # Torn
    /\ mem' = [mem EXCEPT ![w] = file]
    /\ Goto(w, "ready")
    /\ UNCHANGED <<disk, locks, change, polls, hist>>

(* The request or the program that owns the manager ends.                  *)
Discard(w) ==
    /\ pc[w] = "ready"
    /\ Goto(w, "down")
    /\ UNCHANGED <<disk, locks, own, hist>>

(* A public write method stages its change and calls _persist.             *)
Stage(w, c) ==
    /\ pc[w] = "ready"
    /\ c \notin started
    /\ started' = started \cup {c}
    /\ mem' = [mem EXCEPT ![w] = [version |-> mem[w].version,
                                  changes |-> mem[w].changes \cup {c}]]
    /\ change' = [change EXCEPT ![w] = c]
    /\ polls' = [polls EXCEPT ![w] = 0]
    /\ Goto(w, "waiting")
    /\ UNCHANGED <<disk, locks, acked, crashes>>

----------------------------------------------------------------------------
(* os.open(lock_path, O_CREAT | O_EXCL) succeeds ...                       *)
Acquire(w) ==
    /\ pc[w] = "waiting"
    /\ lock = NoLock
    /\ lock' = w
    /\ stale' = FALSE
    /\ Goto(w, "locked")
    /\ UNCHANGED <<disk, own, hist>>

(* ... or raises FileExistsError.                                          *)
Denied(w) ==
    /\ pc[w] = "waiting"
    /\ lock # NoLock
    /\ Goto(w, "denied")
    /\ UNCHANGED <<disk, locks, own, hist>>

(* Mutant: the stale lock is not unlinked before the loop continues.       *)
MutantSeeStaleKept(w) ==
    /\ pc[w] = "denied"
    /\ lock # NoLock /\ stale
    /\ Goto(w, "waiting")
    /\ UNCHANGED <<disk, locks, own, hist>>

(* The stat finds a lock older than 60 s: unlink it and try again.  stat   *)
(* and unlink are two calls; AtomicBreak assumes nothing comes between.    *)
SeeStale(w) ==
    /\ pc[w] = "denied"
    /\ lock # NoLock /\ stale
    /\ IF AtomicBreak
       THEN /\ lock' = NoLock
            /\ stale' = FALSE
            /\ Goto(w, "waiting")
       ELSE /\ UNCHANGED locks
            /\ Goto(w, "breaking")
    /\ UNCHANGED <<disk, own, hist>>

(* unlink(missing_ok=True) removes whatever lock file is there by now.     *)
Unlink(w) ==
    /\ pc[w] = "breaking"
    /\ lock' = NoLock
    /\ stale' = FALSE
    /\ Goto(w, "waiting")
    /\ UNCHANGED <<disk, own, hist>>

(* The lock is younger than 60 s, or gone since: sleep and try again ...   *)
Sleep(w) ==
    /\ pc[w] = "denied"
    /\ ~stale
    /\ polls[w] < MaxPolls
    /\ polls' = [polls EXCEPT ![w] = @ + 1]
    /\ Goto(w, "waiting")
    /\ UNCHANGED <<disk, locks, mem, change, hist>>

(* Mutant: the deadline is looked at before the age of the lock.           *)
MutantGiveUp(w) ==
    /\ pc[w] = "denied"
    /\ change' = [change EXCEPT ![w] = NoChange]
    /\ Goto(w, "down")
    /\ UNCHANGED <<disk, locks, mem, polls, hist>>

(* ... until the deadline: ConcurrentWriteError, and the caller drops the  *)
(* manager with the change still staged in it.                             *)
GiveUp(w) ==
    /\ pc[w] = "denied"
    /\ ~stale
    /\ change' = [change EXCEPT ![w] = NoChange]
    /\ Goto(w, "down")
    /\ UNCHANGED <<disk, locks, mem, polls, hist>>

----------------------------------------------------------------------------
(* _version_on_disk: refuse if the file is newer than this copy.           *)
NewerOnDisk(w) == file = Torn \/ file.version > mem[w].version

(* Mutant: the version on disk is not compared.                            *)
MutantCheckVersion(w) ==
    /\ pc[w] = "locked"
    /\ Goto(w, "checked")
    /\ UNCHANGED <<disk, locks, own, hist>>

CheckVersion(w) ==
    /\ pc[w] = "locked"
    /\ Goto(w, IF NewerOnDisk(w) THEN "failing" ELSE "checked")
    /\ UNCHANGED <<disk, locks, own, hist>>

(* Mutant: the version is not incremented.                                 *)
MutantWriteTmp(w) ==
    /\ pc[w] = "checked"
    /\ tmp' = mem[w]
    /\ Goto(w, "written")
    /\ UNCHANGED <<file, bak, locks, own, hist>>

(* seal, state_version += 1, then write and fsync the temp file.           *)
WriteTmp(w) ==
    /\ pc[w] = "checked"
    /\ mem' = [mem EXCEPT ![w] = [version |-> mem[w].version + 1,
                                  changes |-> mem[w].changes]]
    /\ \/ tmp' = mem'[w] /\ Goto(w, "written")
       \/ tmp' = Torn /\ Goto(w, "failing")           \* OSError: disk full
    /\ UNCHANGED <<file, bak, locks, change, polls, hist>>

(* Mutant: an existing backup is kept.                                     *)
MutantBackup(w) ==
    /\ pc[w] = "written"
    /\ bak' = IF bak = NoFile /\ file # Empty THEN file ELSE bak
    /\ Goto(w, "backed")
    /\ UNCHANGED <<file, tmp, locks, own, hist>>

(* shutil.copy2 of the current file, if there is one, to .json.bak.        *)
Backup(w) ==
    /\ pc[w] = "written"
    /\ \/ /\ bak' = IF file = Empty THEN bak ELSE file
          /\ Goto(w, "backed")
       \/ bak' = Torn /\ file # Empty /\ Goto(w, "failing")
    /\ UNCHANGED <<file, tmp, locks, own, hist>>

(* The rename puts the temp file in place in one step, or fails.           *)
Rename(w) ==
    /\ pc[w] = "backed"
    /\ \/ /\ tmp # NoFile
          /\ file' = tmp
          /\ tmp' = NoFile
          /\ Goto(w, "renamed")
       \/ /\ UNCHANGED <<file, tmp>>
          /\ Goto(w, "failing")
    /\ UNCHANGED <<bak, locks, own, hist>>

(* The finally clause removes the lock file, whoever made it.  On success  *)
(* the save returns and the manager may be used again.                     *)
Release(w) ==
    /\ pc[w] = "renamed"
    /\ lock' = NoLock
    /\ stale' = FALSE
    /\ acked' = acked \cup {change[w]}
    /\ change' = [change EXCEPT ![w] = NoChange]
    /\ Goto(w, "ready")
    /\ UNCHANGED <<disk, mem, polls, started, crashes>>

(* After an exception no caller uses the manager again: a request handler  *)
(* ends, a command line tool exits.                                        *)
ReleaseFailed(w) ==
    /\ pc[w] = "failing"
    /\ lock' = NoLock
    /\ stale' = FALSE
    /\ change' = [change EXCEPT ![w] = NoChange]
    /\ Goto(w, "down")
    /\ UNCHANGED <<disk, mem, polls, hist>>

----------------------------------------------------------------------------
(* The process is killed.  A write it was in stays half done; its lock     *)
(* file, if it holds one, stays too.                                       *)
Crash(w) ==
    /\ pc[w] # "down"
    /\ crashes < MaxCrashes
    /\ crashes' = crashes + 1
    /\ tmp' \in {tmp} \cup {t \in {Torn} : pc[w] = "checked"}
    /\ bak' \in {bak} \cup {b \in {Torn} : pc[w] = "written" /\ file # Empty}
    /\ change' = [change EXCEPT ![w] = NoChange]
    /\ Goto(w, "down")
    /\ UNCHANGED <<file, locks, mem, polls, acked, started>>

(* 60 s pass since the lock file was made.  A live holder is done by then  *)
(* unless MayStall.                                                        *)
Age ==
    /\ lock # NoLock
    /\ ~stale
    /\ MayStall \/ pc[lock] \notin Critical
    /\ stale' = TRUE
    /\ UNCHANGED <<disk, lock, pc, own, hist>>

SaveStep(w) ==
    \/ Acquire(w) \/ Denied(w) \/ SeeStale(w) \/ Unlink(w) \/ Sleep(w)
    \/ GiveUp(w) \/ CheckVersion(w) \/ WriteTmp(w) \/ Backup(w) \/ Rename(w)
    \/ Release(w) \/ ReleaseFailed(w)

StoreNext ==
    \/ \E w \in Writers :
          \/ Load(w) \/ Discard(w) \/ Crash(w) \/ SaveStep(w)
          \/ \E c \in Changes : Stage(w, c)
    \/ Age

StoreSpec == StoreInit /\ [][StoreNext]_storevars

(* A process that is saving keeps running until it is killed, and time     *)
(* passes; nobody has to start a save.                                     *)
Fairness ==
    /\ \A w \in Writers : WF_storevars(SaveStep(w))
    /\ WF_storevars(Age)

FairSpec == StoreSpec /\ Fairness
----------------------------------------------------------------------------
StoreTypeOK ==
    /\ file \in Doc \cup {Torn}
    /\ tmp \in Doc \cup {Torn, NoFile}
    /\ bak \in Doc \cup {Torn, NoFile}
    /\ lock \in Writers \cup {NoLock}
    /\ stale \in BOOLEAN
    /\ pc \in [Writers -> Phases]
    /\ mem \in [Writers -> Doc]
    /\ change \in [Writers -> Changes \cup {NoChange}]
    /\ \A w \in Writers :
          change[w] = NoChange <=> pc[w] \in {"down", "ready"}
    /\ polls \in [Writers -> Nat]
    /\ acked \subseteq Changes
    /\ started \subseteq Changes
    /\ crashes \in Nat

(* The lock file is worth something only if a live holder is done within   *)
(* 60 s and no waiter is suspended between its stat and its unlink.        *)
PromptLocks == ~MayStall /\ AtomicBreak

(* Two managers are never between taking the lock and releasing it at the  *)
(* same time, whatever crashed before: the reason _persist may check the   *)
(* version and replace the file in separate steps.                         *)
MutualExclusion ==
    \A v, w \in Writers :
        pc[v] \in Critical /\ pc[w] \in Critical => v = w

(* No lost update and no half-written state: the file can be read, and it  *)
(* holds every change whose save returned, whatever other managers saved   *)
(* meanwhile from older copies and wherever processes were killed.         *)
SavedIsKept == file # Torn /\ acked \subseteq file.changes

(* The part of SavedIsKept the class comment promises by itself: no change *)
(* whose save returned is overwritten by a save from an older copy.        *)
NoLostUpdate == file = Torn \/ acked \subseteq file.changes

(* The .bak file, when whole, is the file's present or previous version,   *)
(* and no decision is in it that the file lacks: restoring it loses at     *)
(* most the last save ("the last good copy").                              *)
BackupIsLastGood ==
    bak \in Doc => /\ file.version - bak.version \in {0, 1}
                   /\ bak.changes \subseteq file.changes

(* The file behaves as one log that every save extends by its one change:  *)
(* a save either takes effect on top of all earlier ones or not at all.    *)
Log == INSTANCE DecisionLog WITH log <- file
ImplementsDecisionLog == Log!Spec

(* The inductive invariant behind the three, under PromptLocks.            *)
Saving == {"waiting", "denied", "locked", "checked", "written", "backed", "failing"}

LockInv ==
    /\ \A w \in Writers : pc[w] \in Critical => lock = w
    /\ stale => lock # NoLock /\ pc[lock] \notin Critical
    /\ \A w \in Writers : pc[w] # "breaking"

FreshInv ==
    /\ file \in Doc /\ file.changes \subseteq started
    /\ \A w \in Writers : change[w] # NoChange => change[w] \in started
    /\ \A v, w \in Writers : v # w /\ change[v] # NoChange => change[v] # change[w]
    /\ \A w \in Writers : pc[w] \in Saving => change[w] \notin file.changes

(* The document a save writes: the file and its one change on top of it.   *)
Extends(d, w) ==
    d = [version |-> file.version + 1, changes |-> file.changes \cup {change[w]}]

CopyInv ==
    \A w \in Writers :
        /\ pc[w] = "ready" => /\ mem[w].version <= file.version
                              /\ mem[w].version = file.version => mem[w] = file
        /\ pc[w] \in {"waiting", "denied", "locked", "checked"} =>
              /\ mem[w].version <= file.version
              /\ mem[w].version = file.version =>
                    mem[w].changes = file.changes \cup {change[w]}
        /\ pc[w] = "checked" => mem[w].version = file.version
        /\ pc[w] \in {"written", "backed"} => Extends(mem[w], w) /\ tmp = mem[w]
        /\ pc[w] = "renamed" => mem[w] = file /\ change[w] \in file.changes

BackupInv ==
    /\ file.version = 0 => bak = NoFile /\ file = Empty
    /\ bak \in Doc => /\ file.version - bak.version \in {0, 1}
                      /\ bak.changes \subseteq file.changes
    /\ \A w \in Writers : pc[w] = "backed" => bak = file \/ bak = NoFile

IInv ==
    /\ LockInv
    /\ FreshInv
    /\ CopyInv
    /\ BackupInv
    /\ acked \subseteq file.changes

(* Every save ends: it returns, raises, or its process is killed.  It      *)
(* never waits for ever on a lock, an orphaned one included.               *)
SaveReturns ==
    \A w \in Writers : pc[w] = "waiting" ~> pc[w] \in {"ready", "down"}

(* A lock file left by a killed process does not block saves for good: a   *)
(* save that meets it after 60 s removes it and does not give up (once     *)
(* processes are no longer killed).                                        *)
OrphanedLockCleared ==
    \A w \in Writers :
        stale /\ pc[w] = "waiting" /\ crashes = MaxCrashes ~> ~stale
=============================================================================
