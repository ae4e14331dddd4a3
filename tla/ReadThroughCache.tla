-------------------------- MODULE ReadThroughCache --------------------------
(***************************************************************************)
(* The copies of database rows that Redis keeps for reads: a project's     *)
(* detail, its owner's project list and profile, and the announcements.    *)
(* A reader that finds no entry reads the rows and stores what it read; a  *)
(* writer commits and then deletes the entries, one key at a time.         *)
(*                                                                         *)
(* What happens to the entry of one key depends on no other entry, so the  *)
(* module follows one, of any of the keys.  It, or the copy a reader       *)
(* holds, is "fresh" while the rows are the ones it was made from, and     *)
(* "stale" from the next commit on.                                        *)
(***************************************************************************)
EXTENDS Naturals, Sequences, SequencesExt

CONSTANTS
    Readers,    \* slots for reads that miss the cache
    Writers,    \* slots for writes
    MaxFaults,  \* bound on failed commands and processes that end
    NoReader    \* no holder of a lock

ASSUME MaxFaultsAssumption == MaxFaults \in Nat
ASSUME NoReaderAssumption == NoReader \notin Readers

VARIABLES
    key,     \* the key followed; it never changes
    cached,  \* its entry in Redis
    lock,    \* get_or_set's lock key, by the reader that set it
    reader,  \* reads under way
    writer,  \* writes under way: the steps left, and whether the scan found it
    causes,  \* history: why the entry may be stale, or the lock not held
    faults   \* history: failures so far

cacheVars == <<key, cached, lock, reader, writer, causes, faults>>

LockedKeys == {"detail", "list", "info"}
Keys == LockedKeys \cup {"announcements", "announcement"}

Copies == {"none", "fresh", "stale"}

\* raced: the entry was stored from a copy that was stale already; missed: it is
\* stale and no writer is going to delete it; lapsed: the lock was lost while a
\* read was filling the entry.
Causes == {"raced", "missed", "lapsed"}

\* The rows a kind of write changes show in these entries.
Touched(kind) ==
    CASE kind = "project" -> {"detail", "list", "info"}
      [] kind \in {"profile", "admin"} -> {"info"}
      [] kind = "announcement" -> {"announcements", "announcement"}

WriteKinds == {"project", "profile", "admin", "announcement"}

\* Mutant: the entries are deleted before the commit.
StepsLate(kind) ==
    CASE kind = "project" -> <<"detail", "scan", "list", "info", "commit">>
      [] kind = "announcement" -> <<"scan", "announcements", "announcement", "commit">>
      [] kind = "profile" -> <<"info", "commit">>
      [] OTHER -> <<"commit">>

\* _invalidate_project_cache, in a service or a task, runs after the commit; an
\* announcement's list goes before its detail.  An administrator's change of a
\* status or a quota deletes nothing: the profile is old until it expires.
StepsOf(kind) ==
    CASE kind = "project" -> <<"commit", "detail", "scan", "list", "info">>
      [] kind = "announcement" -> <<"commit", "scan", "announcements", "announcement">>
      [] kind = "profile" -> <<"commit", "info">>
      [] OTHER -> <<"commit">>

Steps == {"idle", "lock", "again", "fetch", "set", "release"}
Reader == [at : Steps, copy : Copies]
Writer == [kind : WriteKinds, steps : Seq(Keys \cup {"commit", "scan"}), found : BOOLEAN]

NoRead  == [at |-> "idle", copy |-> "none"]
NoWrite == [kind |-> "admin", steps |-> <<>>, found |-> FALSE]

CacheTypeOK ==
    /\ key \in Keys
    /\ cached \in Copies
    /\ lock \in Readers \cup {NoReader}
    /\ reader \in [Readers -> Reader]
    /\ writer \in [Writers -> Writer]
    /\ causes \in SUBSET Causes
    /\ faults \in 0..MaxFaults

CacheInit ==
    /\ key \in Keys
    /\ cached = "none"
    /\ lock = NoReader
    /\ reader = [c \in Readers |-> NoRead]
    /\ writer = [w \in Writers |-> NoWrite]
    /\ causes = {}
    /\ faults = 0

-----------------------------------------------------------------------------
(***************************************************************************)
(* Reads.  One that hits changes nothing.                                  *)
(***************************************************************************)
Locked == key \in LockedKeys

ReadGo(c, step) == reader' = [reader EXCEPT ![c].at = step]

ReadEnds(c) == reader' = [reader EXCEPT ![c] = NoRead]

\* Between taking the lock and giving it back.
Filling(c) == reader[c].at \in {"again", "fetch", "set", "release"}

\* No entry: get_or_set wants the lock, the announcements are read at once.
Miss(c) ==
    /\ reader[c] = NoRead
    /\ cached = "none"
    /\ ReadGo(c, IF Locked THEN "lock" ELSE "fetch")
    /\ UNCHANGED <<key, cached, lock, writer, causes, faults>>

MissGuarded(c) == Locked /\ Miss(c)

MissAnnouncements(c) == key = "announcements" /\ Miss(c)

MissAnnouncement(c) == key = "announcement" /\ Miss(c)

\* Mutant: SET without NX.
LockAlways == lock \in Readers \cup {NoReader}

\* SET NX.
LockFree == lock = NoReader

Lock(c) ==
    /\ reader[c].at = "lock"
    /\ LockFree
    /\ lock' = c
    /\ ReadGo(c, "again")
    /\ UNCHANGED <<key, cached, writer, causes, faults>>

\* The lock was held: the call starts again, and may find the entry now.
RetryHits(c) ==
    /\ reader[c].at = "lock"
    /\ cached # "none"
    /\ ReadEnds(c)
    /\ UNCHANGED <<key, cached, lock, writer, causes, faults>>

\* The entry is looked for again under the lock.
LookAgain(c) ==
    /\ reader[c].at = "again"
    /\ ReadGo(c, IF cached = "none" THEN "fetch" ELSE "release")
    /\ UNCHANGED <<key, cached, lock, writer, causes, faults>>

Fetch(c) ==
    /\ reader[c].at = "fetch"
    /\ reader' = [reader EXCEPT ![c] = [at |-> "set", copy |-> "fresh"]]
    /\ UNCHANGED <<key, cached, lock, writer, causes, faults>>

\* Mutant: that the row is missing is stored like a row.
FetchStored(c) ==
    /\ reader[c].at = "fetch"
    /\ reader' = [reader EXCEPT ![c] = [at |-> "set", copy |-> "missing"]]
    /\ UNCHANGED <<key, cached, lock, writer, causes, faults>>

FetchNothing(c) ==
    /\ reader[c].at = "fetch"
    /\ IF Locked THEN ReadGo(c, "release") ELSE ReadEnds(c)
    /\ UNCHANGED <<key, cached, lock, writer, causes, faults>>

\* The project is missing, not the user's or deleted, or the query failed:
\* nothing is stored.
FetchGuarded(c) == Locked /\ (Fetch(c) \/ FetchNothing(c))

\* A page without rows is not stored.
FetchAnnouncements(c) == key = "announcements" /\ (Fetch(c) \/ FetchNothing(c))

\* Nor is an announcement that is missing or not published.
FetchAnnouncement(c) == key = "announcement" /\ (Fetch(c) \/ FetchNothing(c))

\* SETEX.
Store(c) ==
    /\ reader[c].at = "set"
    /\ cached' = reader[c].copy
    /\ causes' = (causes \ {"raced", "missed"})
                  \cup {x \in {"raced"} : reader[c].copy = "stale"}
    /\ IF Locked
       THEN reader' = [reader EXCEPT ![c] = [at |-> "release", copy |-> "none"]]
       ELSE ReadEnds(c)
    /\ UNCHANGED <<key, lock, writer, faults>>

\* The lock key is deleted, whoever set it.
Release(c) ==
    /\ reader[c].at = "release"
    /\ lock' = NoReader
    /\ causes' = (causes \ {"lapsed"})
                  \cup {x \in {"lapsed"} : \E d \in Readers \ {c} : Filling(d)}
    /\ ReadEnds(c)
    /\ UNCHANGED <<key, cached, writer, faults>>

-----------------------------------------------------------------------------
(***************************************************************************)
(* Writes.                                                                 *)
(***************************************************************************)
WriteStarts(w, kind) ==
    /\ writer[w] = NoWrite
    /\ writer' = [writer EXCEPT ![w] = [NoWrite EXCEPT !.kind = kind, !.steps = StepsOf(kind)]]
    /\ UNCHANGED <<key, cached, lock, reader, causes, faults>>

\* The write w comes to this step, and goes on to the next one.
Comes(w, step, found) ==
    LET rest == Tail(writer[w].steps) IN
    /\ writer[w].steps # <<>>
    /\ Head(writer[w].steps) = step
    /\ writer' = [writer EXCEPT ![w] =
           IF rest = <<>> THEN NoWrite ELSE [@ EXCEPT !.steps = rest, !.found = found]]

Aged(copy) == IF copy = "fresh" THEN "stale" ELSE copy

Commit(w) ==
    /\ Comes(w, "commit", FALSE)
    /\ IF key \in Touched(writer[w].kind)
       THEN /\ cached' = Aged(cached)
            /\ reader' = [c \in Readers |-> [reader[c] EXCEPT !.copy = Aged(@)]]
            /\ causes' = causes \cup {x \in {"missed"} :
                              writer[w].kind = "admin" /\ cached' = "stale"}
       ELSE UNCHANGED <<cached, reader, causes>>
    /\ UNCHANGED <<key, lock, faults>>

\* KEYS or SCAN; which lists are deleted is settled here.
Scan(w) ==
    /\ Comes(w, "scan", cached # "none")
    /\ UNCHANGED <<key, cached, lock, reader, causes, faults>>

Gone ==
    /\ cached' = "none"
    /\ causes' = causes \ {"raced", "missed"}

\* DEL, of the key followed or of another one.
Invalidate(w) ==
    \E k \in Keys :
        /\ Comes(w, k, FALSE)
        /\ IF k # key \/ (k \in {"list", "announcements"} /\ ~writer[w].found)
           THEN UNCHANGED <<cached, causes>>
           ELSE Gone
        /\ UNCHANGED <<key, lock, reader, faults>>

InvalidateGuarded(w) == Invalidate(w) /\ Head(writer[w].steps) \in LockedKeys

InvalidateAnnouncements(w) == Invalidate(w) /\ Head(writer[w].steps) = "announcements"

InvalidateAnnouncement(w) == Invalidate(w) /\ Head(writer[w].steps) = "announcement"

-----------------------------------------------------------------------------
(***************************************************************************)
(* Time and failures.                                                      *)
(***************************************************************************)
EntryExpires ==
    /\ cached # "none"
    /\ Gone
    /\ UNCHANGED <<key, lock, reader, writer, faults>>

\* The lock expires, though its reader may still be reading.
LockExpires ==
    /\ lock # NoReader
    /\ lock' = NoReader
    /\ causes' = causes \cup {x \in {"lapsed"} : \E c \in Readers : Filling(c)}
    /\ UNCHANGED <<key, cached, reader, writer, faults>>

Fault == faults < MaxFaults /\ faults' = faults + 1

\* GET fails, which is logged: the read goes on as if there were no entry.
GetFails(c) ==
    /\ Fault
    /\ reader[c] = NoRead
    /\ ReadGo(c, IF Locked THEN "lock" ELSE "fetch")
    /\ UNCHANGED <<key, cached, lock, writer, causes>>

\* SETEX fails, which is logged; or the process that reads ends, and its lock
\* stays.
ReadFails(c) ==
    /\ Fault
    /\ reader[c] # NoRead
    /\ \/ /\ Locked
          /\ reader[c].at = "set"
          /\ reader' = [reader EXCEPT ![c] = [at |-> "release", copy |-> "none"]]
       \/ ReadEnds(c)
    /\ UNCHANGED <<key, cached, lock, writer, causes>>

\* A deletion fails, which is logged, or the process that writes ends: after the
\* commit, no one deletes the entry.
WriteFails(w) ==
    LET skipped == IF writer'[w] = NoWrite THEN Range(writer[w].steps)
                   ELSE {Head(writer[w].steps)}
    IN
    /\ Fault
    /\ writer[w] # NoWrite
    /\ \/ writer' = [writer EXCEPT ![w] = NoWrite]
       \/ Head(writer[w].steps) \in Keys /\ Comes(w, Head(writer[w].steps), FALSE)
    /\ causes' = causes \cup {x \in {"missed"} : key \in skipped /\ cached = "stale"}
    /\ UNCHANGED <<key, cached, lock, reader>>

-----------------------------------------------------------------------------
ReadStep(c) ==
    \/ MissGuarded(c) \/ MissAnnouncements(c) \/ MissAnnouncement(c)
    \/ Lock(c) \/ RetryHits(c) \/ LookAgain(c)
    \/ FetchGuarded(c) \/ FetchAnnouncements(c) \/ FetchAnnouncement(c)
    \/ Store(c) \/ Release(c)
    \/ GetFails(c) \/ ReadFails(c)

WriteStep(w) ==
    \/ \E kind \in WriteKinds : WriteStarts(w, kind)
    \/ Commit(w) \/ Scan(w)
    \/ InvalidateGuarded(w) \/ InvalidateAnnouncements(w) \/ InvalidateAnnouncement(w)
    \/ WriteFails(w)

CacheNext ==
    \/ \E c \in Readers : ReadStep(c)
    \/ \E w \in Writers : WriteStep(w)
    \/ EntryExpires
    \/ LockExpires

CacheSpec == CacheInit /\ [][CacheNext]_cacheVars

-----------------------------------------------------------------------------
(***************************************************************************)
(* What holds.                                                             *)
(***************************************************************************)

\* An entry older than the rows is about to be deleted by a writer, or it was
\* stored by a reader whose copy a commit had overtaken, or the write deletes
\* nothing or failed: nothing else leaves one to its expiry.
StaleHasACause ==
    cached = "stale" =>
        \/ {"raced", "missed"} \cap causes # {}
        \/ \E w \in Writers : key \in Range(writer[w].steps)

\* One read at a time fills an entry that get_or_set guards, unless the lock of
\* one expired meanwhile, or another one deleted it.
OneFill ==
    Locked /\ "lapsed" \notin causes =>
        \A c, d \in Readers : Filling(c) /\ Filling(d) => c = d
=============================================================================
