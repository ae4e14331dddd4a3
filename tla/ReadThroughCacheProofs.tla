----------------------- MODULE ReadThroughCacheProofs -----------------------
(***************************************************************************)
(* Theorems of ReadThroughCache: the type invariant, that get_or_set lets  *)
(* one read at a time fill an entry while its lock lasts, and that an      *)
(* entry older than the rows has one of the known causes.                  *)
(***************************************************************************)
EXTENDS ReadThroughCache, SequenceTheorems, TLAPS

\* What a write may have left to do.
IsRest(kind, s) ==
    \/ /\ kind = "project"
       /\ \/ s = <<"commit", "detail", "scan", "list", "info">>
          \/ s = <<"detail", "scan", "list", "info">>
          \/ s = <<"scan", "list", "info">>
          \/ s = <<"list", "info">>
          \/ s = <<"info">>
    \/ /\ kind = "announcement"
       /\ \/ s = <<"commit", "scan", "announcements", "announcement">>
          \/ s = <<"scan", "announcements", "announcement">>
          \/ s = <<"announcements", "announcement">>
          \/ s = <<"announcement">>
    \/ kind = "profile" /\ (s = <<"commit", "info">> \/ s = <<"info">>)
    \/ kind = "admin" /\ s = <<"commit">>

WritersOK ==
    \A w \in Writers : writer[w].steps # <<>> => IsRest(writer[w].kind, writer[w].steps)

ListKeys == {"list", "announcements"}

-----------------------------------------------------------------------------
LEMMA RestTails ==
    /\ Tail(<<"commit", "detail", "scan", "list", "info">>) = <<"detail", "scan", "list", "info">>
    /\ Tail(<<"detail", "scan", "list", "info">>) = <<"scan", "list", "info">>
    /\ Tail(<<"scan", "list", "info">>) = <<"list", "info">>
    /\ Tail(<<"list", "info">>) = <<"info">>
    /\ Tail(<<"info">>) = <<>>
    /\ Tail(<<"commit", "scan", "announcements", "announcement">>) = <<"scan", "announcements", "announcement">>
    /\ Tail(<<"scan", "announcements", "announcement">>) = <<"announcements", "announcement">>
    /\ Tail(<<"announcements", "announcement">>) = <<"announcement">>
    /\ Tail(<<"announcement">>) = <<>>
    /\ Tail(<<"commit", "info">>) = <<"info">>
    /\ Tail(<<"commit">>) = <<>>
  OBVIOUS

LEMMA RestHeads ==
    /\ Head(<<"commit", "detail", "scan", "list", "info">>) = "commit"
    /\ Head(<<"detail", "scan", "list", "info">>) = "detail"
    /\ Head(<<"scan", "list", "info">>) = "scan"
    /\ Head(<<"list", "info">>) = "list"
    /\ Head(<<"info">>) = "info"
    /\ Head(<<"commit", "scan", "announcements", "announcement">>) = "commit"
    /\ Head(<<"scan", "announcements", "announcement">>) = "scan"
    /\ Head(<<"announcements", "announcement">>) = "announcements"
    /\ Head(<<"announcement">>) = "announcement"
    /\ Head(<<"commit", "info">>) = "commit"
    /\ Head(<<"commit">>) = "commit"
  OBVIOUS

LEMMA RestRanges ==
    /\ Range(<<>>) = {}
    /\ Range(<<"commit", "detail", "scan", "list", "info">>) = {"commit", "detail", "scan", "list", "info"}
    /\ Range(<<"detail", "scan", "list", "info">>) = {"detail", "scan", "list", "info"}
    /\ Range(<<"scan", "list", "info">>) = {"scan", "list", "info"}
    /\ Range(<<"list", "info">>) = {"list", "info"}
    /\ Range(<<"info">>) = {"info"}
    /\ Range(<<"commit", "scan", "announcements", "announcement">>) = {"commit", "scan", "announcements", "announcement"}
    /\ Range(<<"scan", "announcements", "announcement">>) = {"scan", "announcements", "announcement"}
    /\ Range(<<"announcements", "announcement">>) = {"announcements", "announcement"}
    /\ Range(<<"announcement">>) = {"announcement"}
    /\ Range(<<"commit", "info">>) = {"commit", "info"}
    /\ Range(<<"commit">>) = {"commit"}
  BY DEF Range

LEMMA RestTyped ==
    ASSUME NEW kind, NEW s, IsRest(kind, s)
    PROVE  s \in Seq(Keys \cup {"commit", "scan"}) /\ s # <<>>
<1> DEFINE S == Keys \cup {"commit", "scan"}
<1>1. /\ "commit" \in S /\ "scan" \in S /\ "detail" \in S /\ "list" \in S /\ "info" \in S
      /\ "announcements" \in S /\ "announcement" \in S
  BY DEF Keys, LockedKeys
<1> HIDE DEF S
<1>2. /\ <<"commit", "detail", "scan", "list", "info">> \in Seq(S)
      /\ <<"detail", "scan", "list", "info">> \in Seq(S)
      /\ <<"scan", "list", "info">> \in Seq(S)
      /\ <<"list", "info">> \in Seq(S)
      /\ <<"info">> \in Seq(S)
      /\ <<"commit", "scan", "announcements", "announcement">> \in Seq(S)
      /\ <<"scan", "announcements", "announcement">> \in Seq(S)
      /\ <<"announcements", "announcement">> \in Seq(S)
      /\ <<"announcement">> \in Seq(S)
      /\ <<"commit", "info">> \in Seq(S)
      /\ <<"commit">> \in Seq(S)
  BY <1>1
<1>3. s \in Seq(S)
  BY <1>2, Zenon DEF IsRest
<1>4. s # <<>>
  BY DEF IsRest
<1> QED
  BY <1>3, <1>4 DEF S

LEMMA RestTail ==
    ASSUME NEW kind, NEW s, IsRest(kind, s), Tail(s) # <<>>
    PROVE  IsRest(kind, Tail(s))
  BY RestTails DEF IsRest

LEMMA RestRange ==
    ASSUME NEW kind, NEW s, IsRest(kind, s)
    PROVE  Range(s) = {Head(s)} \cup Range(Tail(s))
<1> DEFINE S == Keys \cup {"commit", "scan"}
<1>1. s \in Seq(S) /\ s # <<>>
  BY RestTyped
<1> HIDE DEF S
<1>2. /\ Head(s) = s[1] /\ Len(s) \in Nat \ {0} /\ DOMAIN s = 1..Len(s)
      /\ DOMAIN Tail(s) = 1..Len(s) - 1
      /\ \A i \in 1..Len(s) - 1 : Tail(s)[i] = s[i + 1]
  BY <1>1
<1>3. \A i \in 1..Len(s) : i = 1 \/ i - 1 \in 1..Len(s) - 1
  BY <1>2
<1>4. ASSUME NEW x \in Range(s) PROVE x \in {Head(s)} \cup Range(Tail(s))
  <2>1. PICK i \in 1..Len(s) : x = s[i]
    BY <1>2, <1>4 DEF Range
  <2>2. CASE i = 1
    BY <1>2, <2>1, <2>2
  <2>3. CASE i - 1 \in 1..Len(s) - 1
    <3>1. Tail(s)[i - 1] = s[i]
      BY <1>2, <2>3
    <3>2. i - 1 \in DOMAIN Tail(s)
      BY <1>2, <2>3
    <3> QED
      BY <2>1, <3>1, <3>2 DEF Range
  <2> QED
    BY <1>3, <2>2, <2>3
<1>5. ASSUME NEW x \in {Head(s)} \cup Range(Tail(s)) PROVE x \in Range(s)
  BY <1>2, <1>5 DEF Range
<1> QED
  BY <1>4, <1>5

LEMMA RestCommit ==
    ASSUME NEW kind, NEW s, IsRest(kind, s), Head(s) = "commit",
           NEW k \in Touched(kind), kind # "admin"
    PROVE  k \in Range(Tail(s)) /\ (k \in ListKeys => "scan" \in Range(Tail(s)))
<1>1. CASE kind = "project"
  BY <1>1, RestTails, RestHeads, RestRanges DEF IsRest, Touched, ListKeys
<1>2. CASE kind = "announcement"
  BY <1>2, RestTails, RestHeads, RestRanges DEF IsRest, Touched, ListKeys
<1>3. CASE kind = "profile"
  BY <1>3, RestTails, RestHeads, RestRanges DEF IsRest, Touched, ListKeys
<1> QED
  BY <1>1, <1>2, <1>3 DEF IsRest

LEMMA RestScan ==
    ASSUME NEW kind, NEW s, IsRest(kind, s), Head(s) = "scan",
           NEW k \in ListKeys, k \in Range(s)
    PROVE  Tail(s) # <<>> /\ Head(Tail(s)) = k
<1>1. CASE kind = "project"
  BY <1>1, RestTails, RestHeads, RestRanges DEF IsRest, ListKeys
<1>2. CASE kind # "project"
  BY <1>2, RestTails, RestHeads, RestRanges DEF IsRest, ListKeys
<1> QED
  BY <1>1, <1>2

LEMMA RestKey ==
    ASSUME NEW kind, NEW s, IsRest(kind, s), Head(s) \in Keys,
           NEW k \in ListKeys, k \in Range(s), k # Head(s)
    PROVE  "scan" \in Range(Tail(s))
<1>1. CASE kind = "project"
  BY <1>1, RestTails, RestHeads, RestRanges DEF IsRest, ListKeys, Keys, LockedKeys
<1>2. CASE kind # "project"
  BY <1>2, RestTails, RestHeads, RestRanges DEF IsRest, ListKeys, Keys, LockedKeys
<1> QED
  BY <1>1, <1>2

-----------------------------------------------------------------------------
\* A read that fills a guarded entry holds its lock.
FillersHold ==
    Locked /\ "lapsed" \notin causes => \A c \in Readers : Filling(c) => lock = c

\* Only a write under way that is going to delete the entry: a list is deleted
\* if the scan, right before, finds it.
Deletes(w) ==
    /\ key \in Range(writer[w].steps)
    /\ key \in ListKeys =>
          \/ "scan" \in Range(writer[w].steps)
          \/ writer[w].found /\ Head(writer[w].steps) = key

StaleIsKnown ==
    cached = "stale" =>
        \/ {"raced", "missed"} \cap causes # {}
        \/ \E w \in Writers : Deletes(w)

IInv == CacheTypeOK /\ WritersOK /\ FillersHold /\ StaleIsKnown

LEMMA Starts == CacheInit => IInv
  BY MaxFaultsAssumption
  DEF CacheInit, IInv, CacheTypeOK, WritersOK, FillersHold, StaleIsKnown, NoRead, NoWrite,
      Reader, Writer, Copies, Steps, WriteKinds, Filling

LEMMA WriterRests ==
    ASSUME CacheTypeOK, WritersOK, NEW w \in Writers, writer' = [writer EXCEPT ![w] = NoWrite]
    PROVE  /\ writer' \in [Writers -> Writer]
           /\ WritersOK'
           /\ \A v \in Writers \ {w} : writer'[v] = writer[v]
<1>1. NoWrite \in Writer /\ NoWrite.steps = <<>>
  BY DEF NoWrite, Writer, WriteKinds
<1>2. /\ writer' \in [Writers -> Writer]
      /\ writer'[w] = NoWrite
      /\ \A v \in Writers \ {w} : writer'[v] = writer[v]
  BY <1>1 DEF CacheTypeOK
<1> QED
  BY <1>1, <1>2 DEF WritersOK

\* Where a write stands after a step of it.
LEMMA WriterGoesOn ==
    ASSUME CacheTypeOK, WritersOK, NEW w \in Writers, NEW step, NEW found \in BOOLEAN,
           Comes(w, step, found)
    PROVE  /\ writer' \in [Writers -> Writer]
           /\ WritersOK'
           /\ \A v \in Writers \ {w} : writer'[v] = writer[v]
           /\ Tail(writer[w].steps) # <<>> =>
                 /\ writer'[w].steps = Tail(writer[w].steps)
                 /\ writer'[w].found = found
<1> DEFINE rest == Tail(writer[w].steps)
<1>1. writer[w] \in Writer /\ IsRest(writer[w].kind, writer[w].steps)
  BY DEF CacheTypeOK, WritersOK, Comes
<1>2. CASE rest = <<>>
  <2>1. writer' = [writer EXCEPT ![w] = NoWrite]
    BY <1>2 DEF Comes
  <2> QED
    BY <1>2, <2>1, WriterRests
<1>3. CASE rest # <<>>
  <2>1. IsRest(writer[w].kind, rest)
    BY <1>1, <1>3, RestTail
  <2>2. rest \in Seq(Keys \cup {"commit", "scan"})
    BY <2>1, RestTyped
  <2>3. writer' = [writer EXCEPT ![w] = [@ EXCEPT !.steps = rest, !.found = found]]
    BY <1>3 DEF Comes
  <2> HIDE DEF rest
  <2>4. /\ writer'[w] \in Writer /\ writer'[w].kind = writer[w].kind
        /\ writer'[w].steps = rest /\ writer'[w].found = found
    BY <1>1, <2>2, <2>3 DEF CacheTypeOK, Writer
  <2>5. \A v \in Writers \ {w} : writer'[v] = writer[v]
    BY <2>3 DEF CacheTypeOK
  <2>6. writer' \in [Writers -> Writer]
    BY <2>3, <2>4, <2>5 DEF CacheTypeOK
  <2>7. WritersOK'
    BY <2>1, <2>4, <2>5 DEF WritersOK
  <2> QED
    BY <2>4, <2>5, <2>6, <2>7 DEF rest
<1> QED
  BY <1>2, <1>3

\* A new write has all its steps before it.
LEMMA WriterBegins ==
    ASSUME CacheTypeOK, WritersOK, NEW w \in Writers, NEW kind \in WriteKinds,
           WriteStarts(w, kind)
    PROVE  /\ writer' \in [Writers -> Writer]
           /\ WritersOK'
           /\ \A v \in Writers \ {w} : writer'[v] = writer[v]
           /\ writer[w].steps = <<>>
<1>1. IsRest(kind, StepsOf(kind))
  BY DEF StepsOf, IsRest, WriteKinds
<1>2. StepsOf(kind) \in Seq(Keys \cup {"commit", "scan"})
  BY <1>1, RestTyped
<1>3. writer' = [writer EXCEPT ![w] = [NoWrite EXCEPT !.kind = kind, !.steps = StepsOf(kind)]]
  BY DEF WriteStarts
<1>4. /\ writer'[w] = [kind |-> kind, steps |-> StepsOf(kind), found |-> FALSE]
      /\ \A v \in Writers \ {w} : writer'[v] = writer[v]
      /\ writer' = [v \in Writers |-> writer'[v]]
  BY <1>3 DEF CacheTypeOK, NoWrite
<1>5. writer' \in [Writers -> Writer]
  <2>1. writer'[w] \in Writer
    BY <1>2, <1>4 DEF Writer
  <2>2. writer \in [Writers -> Writer]
    BY DEF CacheTypeOK
  <2> QED
    BY <1>4, <2>1, <2>2, Zenon
<1>6. WritersOK'
  BY <1>1, <1>4 DEF WritersOK
<1> QED
  BY <1>4, <1>5, <1>6 DEF WriteStarts, NoWrite

\* What a read's step does, whatever the key.
AnyRead(c) ==
    \/ Miss(c) \/ Lock(c) \/ RetryHits(c) \/ LookAgain(c) \/ Fetch(c) \/ FetchNothing(c)
    \/ Store(c) \/ Release(c) \/ GetFails(c) \/ ReadFails(c)

LEMMA ReadsAlike == ASSUME NEW c, ReadStep(c) PROVE AnyRead(c)
  BY DEF ReadStep, AnyRead, MissGuarded, MissAnnouncements, MissAnnouncement,
         FetchGuarded, FetchAnnouncements, FetchAnnouncement

\* What a write's step does, whatever the key.
AnyWrite(w) ==
    \/ \E kind \in WriteKinds : WriteStarts(w, kind)
    \/ Commit(w) \/ Scan(w) \/ Invalidate(w) \/ WriteFails(w)

LEMMA WritesAlike == ASSUME NEW w, WriteStep(w) PROVE AnyWrite(w)
  BY DEF WriteStep, AnyWrite, InvalidateGuarded, InvalidateAnnouncements, InvalidateAnnouncement

\* Writers keep to their plans, and every variable to its type.
LEMMA TypeStep == IInv /\ [CacheNext]_cacheVars => CacheTypeOK' /\ WritersOK'
<1> SUFFICES ASSUME IInv, [CacheNext]_cacheVars PROVE CacheTypeOK' /\ WritersOK'
  OBVIOUS
<1> USE DEF IInv
<1>1. ASSUME NEW c \in Readers, ReadStep(c) PROVE CacheTypeOK' /\ WritersOK'
  <2>1. key' = key /\ writer' = writer
    BY <1>1, ReadsAlike DEF AnyRead, Miss, Lock, RetryHits, LookAgain, Fetch, FetchNothing,
                Store, Release, GetFails, ReadFails
  <2>2. NoRead \in Reader
    BY DEF NoRead, Reader, Steps, Copies
  <2>3. CASE Miss(c) \/ Lock(c) \/ LookAgain(c)
    BY <2>1, <2>3 DEF Miss, Lock, LookAgain, ReadGo, CacheTypeOK, WritersOK, Reader, Steps
  <2>4. CASE RetryHits(c) \/ Release(c)
    BY <2>1, <2>2, <2>4 DEF RetryHits, Release, ReadEnds, CacheTypeOK, WritersOK, Causes
  <2>5. CASE Fetch(c)
    BY <2>1, <2>5 DEF Fetch, CacheTypeOK, WritersOK, Reader, Steps, Copies
  <2>6. CASE FetchNothing(c)
    BY <2>1, <2>2, <2>6 DEF FetchNothing, ReadEnds, ReadGo, CacheTypeOK, WritersOK, Reader, Steps
  <2>7. CASE Store(c)
    <3>1. /\ cached' \in Copies /\ causes' \in SUBSET Causes
          /\ UNCHANGED <<lock, faults>>
      BY <2>7 DEF Store, CacheTypeOK, Reader, Causes
    <3>2. reader' \in [Readers -> Reader]
      BY <2>2, <2>7 DEF Store, ReadEnds, CacheTypeOK, Reader, Steps, Copies
    <3> QED
      BY <2>1, <3>1, <3>2 DEF CacheTypeOK, WritersOK
  <2>8. CASE GetFails(c)
    <3>1. faults' \in 0..MaxFaults /\ UNCHANGED <<cached, lock, causes>>
      BY <2>8, MaxFaultsAssumption DEF GetFails, Fault, CacheTypeOK
    <3>2. reader' \in [Readers -> Reader]
      BY <2>8 DEF GetFails, ReadGo, CacheTypeOK, Reader, Steps
    <3> QED
      BY <2>1, <3>1, <3>2 DEF CacheTypeOK, WritersOK
  <2>9. CASE ReadFails(c)
    <3>1. faults' \in 0..MaxFaults /\ UNCHANGED <<cached, lock, causes>>
      BY <2>9, MaxFaultsAssumption DEF ReadFails, Fault, CacheTypeOK
    <3>2. reader' \in [Readers -> Reader]
      BY <2>2, <2>9 DEF ReadFails, ReadEnds, CacheTypeOK, Reader, Steps, Copies
    <3> QED
      BY <2>1, <3>1, <3>2 DEF CacheTypeOK, WritersOK
  <2> QED
    BY <1>1, <2>3, <2>4, <2>5, <2>6, <2>7, <2>8, <2>9, ReadsAlike DEF AnyRead
<1>2. ASSUME NEW w \in Writers, NEW kind \in WriteKinds, WriteStarts(w, kind)
      PROVE  CacheTypeOK' /\ WritersOK'
  BY <1>2, WriterBegins DEF WriteStarts, CacheTypeOK
<1>3. ASSUME NEW w \in Writers, Commit(w) PROVE CacheTypeOK' /\ WritersOK'
  <2>1. writer' \in [Writers -> Writer] /\ WritersOK'
    BY <1>3, WriterGoesOn DEF Commit
  <2>2. cached' \in Copies
    BY <1>3 DEF Commit, CacheTypeOK, Copies, Aged
  <2>3. reader' \in [Readers -> Reader]
    BY <1>3 DEF Commit, CacheTypeOK, Copies, Aged, Reader
  <2>4. causes' \in SUBSET Causes /\ UNCHANGED <<key, lock, faults>>
    BY <1>3 DEF Commit, CacheTypeOK, Causes
  <2> QED
    BY <2>1, <2>2, <2>3, <2>4 DEF CacheTypeOK
<1>4. ASSUME NEW w \in Writers, Scan(w) PROVE CacheTypeOK' /\ WritersOK'
  <2>1. writer' \in [Writers -> Writer] /\ WritersOK'
    BY <1>4, WriterGoesOn DEF Scan
  <2> QED
    BY <1>4, <2>1 DEF Scan, CacheTypeOK
<1>5. ASSUME NEW w \in Writers, Invalidate(w) PROVE CacheTypeOK' /\ WritersOK'
  <2>1. writer' \in [Writers -> Writer] /\ WritersOK'
    BY <1>5, WriterGoesOn DEF Invalidate
  <2>2. /\ cached' \in Copies /\ causes' \in SUBSET Causes
        /\ UNCHANGED <<key, lock, reader, faults>>
    BY <1>5 DEF Invalidate, Gone, CacheTypeOK, Copies
  <2> QED
    BY <2>1, <2>2 DEF CacheTypeOK
<1>6. ASSUME NEW w \in Writers, WriteFails(w) PROVE CacheTypeOK' /\ WritersOK'
  <2>1. \/ writer' = [writer EXCEPT ![w] = NoWrite]
        \/ Comes(w, Head(writer[w].steps), FALSE)
    BY <1>6 DEF WriteFails
  <2>2. writer' \in [Writers -> Writer] /\ WritersOK'
    BY <2>1, WriterRests, WriterGoesOn
  <2>3. causes' \in SUBSET Causes
    <3>1. \E skipped : causes' = causes \cup {x \in {"missed"} : key \in skipped /\ cached = "stale"}
      BY <1>6 DEF WriteFails
    <3> QED
      BY <3>1 DEF CacheTypeOK, Causes
  <2>4. faults' \in 0..MaxFaults /\ UNCHANGED <<key, cached, lock, reader>>
    BY <1>6, MaxFaultsAssumption DEF WriteFails, Fault, CacheTypeOK
  <2> QED
    BY <2>2, <2>3, <2>4 DEF CacheTypeOK
<1>7. CASE EntryExpires
  BY <1>7 DEF EntryExpires, Gone, CacheTypeOK, WritersOK, Copies
<1>8. CASE LockExpires
  BY <1>8 DEF LockExpires, CacheTypeOK, WritersOK, Causes
<1>9. CASE UNCHANGED cacheVars
  BY <1>9 DEF cacheVars, CacheTypeOK, WritersOK
<1> QED
  BY <1>1, <1>2, <1>3, <1>4, <1>5, <1>6, <1>7, <1>8, <1>9, WritesAlike
  DEF CacheNext, AnyWrite

LEMMA FillStep == IInv /\ [CacheNext]_cacheVars => FillersHold'
<1> SUFFICES ASSUME IInv, [CacheNext]_cacheVars, Locked', "lapsed" \notin causes',
                    NEW d \in Readers, Filling(d)'
             PROVE  lock' = d
  BY DEF FillersHold
<1> USE DEF IInv, Locked, Filling
<1>1. ASSUME NEW c \in Readers, ReadStep(c) PROVE lock' = d
  <2>1. CASE \/ Miss(c) \/ GetFails(c) \/ RetryHits(c) \/ Fetch(c) \/ FetchNothing(c)
             \/ LookAgain(c)
    BY <2>1 DEF Miss, GetFails, RetryHits, Fetch, FetchNothing, LookAgain, ReadGo, ReadEnds, NoRead,
                CacheTypeOK, Reader, FillersHold
  <2>2. CASE Lock(c)
    BY <2>2, NoReaderAssumption DEF Lock, LockFree, ReadGo, CacheTypeOK, Reader, FillersHold
  <2>3. CASE Store(c)
    BY <2>3 DEF Store, ReadEnds, NoRead, CacheTypeOK, Reader, FillersHold
  <2>4. CASE Release(c)
    BY <2>4 DEF Release, ReadEnds, NoRead, CacheTypeOK
  <2>5. CASE ReadFails(c)
    BY <2>5 DEF ReadFails, ReadEnds, NoRead, CacheTypeOK, Reader, FillersHold
  <2> QED
    BY <1>1, <2>1, <2>2, <2>3, <2>4, <2>5, ReadsAlike DEF AnyRead
<1>2. ASSUME NEW w \in Writers, WriteStep(w) PROVE lock' = d
  <2>1. key' = key /\ lock' = lock /\ ("lapsed" \in causes => "lapsed" \in causes')
    BY <1>2, WritesAlike DEF AnyWrite, WriteStarts, Commit, Scan, Invalidate, WriteFails, Gone
  <2>2. reader'[d].at = reader[d].at
    <3>1. \/ reader' = reader
          \/ reader' = [c \in Readers |-> [reader[c] EXCEPT !.copy = Aged(@)]]
      BY <1>2, WritesAlike DEF AnyWrite, WriteStarts, Commit, Scan, Invalidate, WriteFails
    <3> QED
      BY <3>1 DEF CacheTypeOK, Reader
  <2> QED
    BY <2>1, <2>2 DEF FillersHold
<1>3. CASE EntryExpires
  BY <1>3 DEF EntryExpires, Gone, FillersHold
<1>4. CASE LockExpires
  BY <1>4 DEF LockExpires
<1>5. CASE UNCHANGED cacheVars
  BY <1>5 DEF cacheVars, FillersHold
<1> QED
  BY <1>1, <1>2, <1>3, <1>4, <1>5 DEF CacheNext

\* A step of the write w takes no other write's deletion away.
LEMMA OthersDelete ==
    ASSUME NEW w, key' = key, \A v \in Writers \ {w} : writer'[v] = writer[v],
           NEW v \in Writers \ {w}, Deletes(v)
    PROVE  Deletes(v)'
  BY DEF Deletes

LEMMA StaleStep == IInv /\ [CacheNext]_cacheVars => StaleIsKnown'
<1> SUFFICES ASSUME IInv, [CacheNext]_cacheVars, cached' = "stale",
                    {"raced", "missed"} \cap causes' = {}
             PROVE  \E v \in Writers : Deletes(v)'
  BY DEF StaleIsKnown
<1> USE DEF IInv
<1>1. ASSUME NEW c \in Readers, ReadStep(c) PROVE \E v \in Writers : Deletes(v)'
  <2>1. UNCHANGED <<key, writer>>
    BY <1>1, ReadsAlike DEF AnyRead, Miss, Lock, RetryHits, LookAgain, Fetch, FetchNothing,
                Store, Release, GetFails, ReadFails
  <2>2. ~Store(c)
    BY DEF Store
  <2>3. cached = "stale" /\ {"raced", "missed"} \cap causes = {}
    BY <1>1, <2>2, ReadsAlike DEF AnyRead, Miss, Lock, RetryHits, LookAgain, Fetch,
                FetchNothing, Release, GetFails, ReadFails
  <2> QED
    BY <2>1, <2>3 DEF StaleIsKnown, Deletes
<1>2. ASSUME NEW w \in Writers, NEW kind \in WriteKinds, WriteStarts(w, kind)
      PROVE  \E v \in Writers : Deletes(v)'
  <2>1. PICK v \in Writers : Deletes(v)
    BY <1>2 DEF WriteStarts, StaleIsKnown
  <2>2. v # w
    BY <1>2, <2>1, WriterBegins, RestRanges DEF Deletes
  <2> QED
    BY <1>2, <2>1, <2>2, WriterBegins, OthersDelete DEF WriteStarts
<1>3. ASSUME NEW w \in Writers, Commit(w) PROVE \E v \in Writers : Deletes(v)'
  <2>1. /\ key' = key /\ writer[w].steps # <<>> /\ Head(writer[w].steps) = "commit"
        /\ IsRest(writer[w].kind, writer[w].steps)
    BY <1>3 DEF Commit, Comes, WritersOK
  <2>2. /\ \A v \in Writers \ {w} : writer'[v] = writer[v]
        /\ Tail(writer[w].steps) # <<>> => writer'[w].steps = Tail(writer[w].steps)
    BY <1>3, WriterGoesOn DEF Commit
  <2>3. CASE key \in Touched(writer[w].kind)
    <3>1. writer[w].kind # "admin"
      BY <1>3, <2>3 DEF Commit
    <3>2. /\ key \in Range(Tail(writer[w].steps))
          /\ key \in ListKeys => "scan" \in Range(Tail(writer[w].steps))
      BY <2>1, <2>3, <3>1, RestCommit
    <3>3. Tail(writer[w].steps) # <<>>
      BY <3>2, RestRanges
    <3> QED
      BY <2>1, <2>2, <3>2, <3>3 DEF Deletes
  <2>4. CASE key \notin Touched(writer[w].kind)
    <3>1. PICK v \in Writers : Deletes(v)
      BY <1>3, <2>4 DEF Commit, StaleIsKnown
    <3>2. v # w
      <4>1. Range(writer[w].steps) \subseteq Touched(writer[w].kind) \cup {"commit", "scan"}
        BY <2>1, RestRanges DEF IsRest, Touched
      <4>2. key \notin {"commit", "scan"}
        BY DEF CacheTypeOK, Keys, LockedKeys
      <4> QED
        BY <2>4, <3>1, <4>1, <4>2 DEF Deletes
    <3> QED
      BY <2>1, <2>2, <3>1, <3>2, OthersDelete
  <2> QED
    BY <2>3, <2>4
<1>4. ASSUME NEW w \in Writers, Scan(w) PROVE \E v \in Writers : Deletes(v)'
  <2>1. PICK v \in Writers : Deletes(v)
    BY <1>4 DEF Scan, StaleIsKnown
  <2>2. CASE v = w
    <3>1. /\ writer[w].steps # <<>> /\ Head(writer[w].steps) = "scan"
          /\ IsRest(writer[w].kind, writer[w].steps)
      BY <1>4 DEF Scan, Comes, WritersOK
    <3>2. key \in Range(writer[w].steps) /\ key # "scan"
      BY <2>1, <2>2 DEF Deletes, CacheTypeOK, Keys, LockedKeys
    <3>3. key \in Range(Tail(writer[w].steps))
      BY <3>1, <3>2, RestRange
    <3>4. Tail(writer[w].steps) # <<>>
      BY <3>3, RestRanges
    <3>5. writer'[w].steps = Tail(writer[w].steps) /\ writer'[w].found = TRUE /\ key' = key
      BY <1>4, <3>4, WriterGoesOn DEF Scan
    <3>6. key \in ListKeys => Head(Tail(writer[w].steps)) = key
      BY <3>1, <3>2, RestScan
    <3> QED
      BY <3>3, <3>5, <3>6 DEF Deletes
  <2>3. CASE v # w
    BY <1>4, <2>1, <2>3, WriterGoesOn, OthersDelete DEF Scan
  <2> QED
    BY <2>2, <2>3
<1>5. ASSUME NEW w \in Writers, NEW k \in Keys, Comes(w, k, FALSE), key' = key,
             NEW v \in Writers, Deletes(v), k # key
      PROVE  \E u \in Writers : Deletes(u)'
  <2>1. CASE v = w
    <3>1. /\ writer[w].steps # <<>> /\ Head(writer[w].steps) = k
          /\ IsRest(writer[w].kind, writer[w].steps)
      BY <1>5 DEF Comes, WritersOK
    <3>2. key \in Range(Tail(writer[w].steps))
      BY <1>5, <2>1, <3>1, RestRange DEF Deletes
    <3>3. Tail(writer[w].steps) # <<>>
      BY <3>2, RestRanges
    <3>4. writer'[w].steps = Tail(writer[w].steps)
      BY <1>5, <3>3, WriterGoesOn
    <3>5. key \in ListKeys => "scan" \in Range(Tail(writer[w].steps))
      BY <1>5, <2>1, <3>1, RestKey DEF Deletes
    <3> QED
      BY <1>5, <3>2, <3>4, <3>5 DEF Deletes
  <2>2. CASE v # w
    BY <1>5, <2>2, WriterGoesOn, OthersDelete
  <2> QED
    BY <2>1, <2>2
<1>6. ASSUME NEW w \in Writers, Invalidate(w) PROVE \E v \in Writers : Deletes(v)'
  <2>1. PICK k \in Keys :
          /\ Comes(w, k, FALSE) /\ key' = key
          /\ IF k # key \/ (k \in ListKeys /\ ~writer[w].found)
             THEN UNCHANGED <<cached, causes>> ELSE Gone
    BY <1>6 DEF Invalidate, ListKeys
  <2>2. UNCHANGED <<cached, causes>>
    BY <2>1 DEF Gone
  <2>3. PICK v \in Writers : Deletes(v)
    BY <2>2 DEF StaleIsKnown
  <2>4. CASE k # key
    BY <1>5, <2>1, <2>3, <2>4
  <2>5. CASE k = key
    <3>1. /\ writer[w].steps # <<>> /\ Head(writer[w].steps) = k
          /\ IsRest(writer[w].kind, writer[w].steps) /\ k \in ListKeys /\ ~writer[w].found
      BY <2>1, <2>2, <2>5 DEF Comes, WritersOK, Gone
    <3>2. "scan" \notin Range(writer[w].steps)
      BY <3>1, RestHeads, RestRanges DEF IsRest, ListKeys
    <3>3. v # w
      BY <2>3, <2>5, <3>1, <3>2 DEF Deletes
    <3> QED
      BY <2>1, <2>3, <3>3, WriterGoesOn, OthersDelete
  <2> QED
    BY <2>4, <2>5
<1>7. ASSUME NEW w \in Writers, WriteFails(w) PROVE \E v \in Writers : Deletes(v)'
  <2>1. /\ UNCHANGED <<key, cached>> /\ writer[w] # NoWrite
        /\ \/ writer' = [writer EXCEPT ![w] = NoWrite]
           \/ Head(writer[w].steps) \in Keys /\ Comes(w, Head(writer[w].steps), FALSE)
        /\ causes' = causes \cup {x \in {"missed"} :
              /\ key \in IF writer'[w] = NoWrite THEN Range(writer[w].steps)
                         ELSE {Head(writer[w].steps)}
              /\ cached = "stale"}
    BY <1>7 DEF WriteFails
  <2>2. {"raced", "missed"} \cap causes = {} /\ cached = "stale"
    BY <2>1
  <2>3. key \notin IF writer'[w] = NoWrite THEN Range(writer[w].steps)
                   ELSE {Head(writer[w].steps)}
    BY <2>1, <2>2
  <2>4. PICK v \in Writers : Deletes(v)
    BY <2>2 DEF StaleIsKnown
  <2>5. CASE writer' = [writer EXCEPT ![w] = NoWrite]
    <3>1. writer'[w] = NoWrite
      BY <2>5 DEF CacheTypeOK
    <3>2. v # w
      BY <2>3, <2>4, <3>1 DEF Deletes
    <3> QED
      BY <2>1, <2>4, <2>5, <3>2, WriterRests, OthersDelete
  <2>6. CASE Head(writer[w].steps) \in Keys /\ Comes(w, Head(writer[w].steps), FALSE)
    <3>1. CASE key = Head(writer[w].steps)
      <4>1. writer'[w] = NoWrite
        BY <2>3, <3>1
      <4>2. key \in Range(writer[w].steps)
        BY <2>6, <3>1, RestRange DEF Comes, WritersOK
      <4> QED
        BY <2>3, <4>1, <4>2
    <3>2. CASE key # Head(writer[w].steps)
      BY <1>5, <2>1, <2>4, <2>6, <3>2
    <3> QED
      BY <3>1, <3>2
  <2> QED
    BY <2>1, <2>5, <2>6
<1>8. CASE EntryExpires
  BY <1>8 DEF EntryExpires, Gone
<1>9. CASE LockExpires
  <2>1. cached = "stale" /\ {"raced", "missed"} \cap causes = {} /\ UNCHANGED <<key, writer>>
    BY <1>9 DEF LockExpires
  <2> QED
    BY <2>1 DEF StaleIsKnown, Deletes
<1>10. CASE UNCHANGED cacheVars
  BY <1>10 DEF cacheVars, StaleIsKnown, Deletes
<1> QED
  BY <1>1, <1>2, <1>3, <1>4, <1>6, <1>7, <1>8, <1>9, <1>10, WritesAlike
  DEF CacheNext, AnyWrite

LEMMA Inductive == CacheSpec => []IInv
<1>1. IInv /\ [CacheNext]_cacheVars => IInv'
  BY TypeStep, FillStep, StaleStep DEF IInv
<1> QED
  BY Starts, <1>1, PTL DEF CacheSpec

-----------------------------------------------------------------------------
\* Entries, locks, reads and writes keep their types; a missing row is never
\* stored (get_or_set).
THEOREM TypeCorrect == CacheSpec => []CacheTypeOK
<1>1. IInv => CacheTypeOK
  BY DEF IInv
<1> QED
  BY Inductive, <1>1, PTL

\* get_or_set: one read at a time fills an entry, as long as no lock was lost.
THEOREM FillsAlone == CacheSpec => []OneFill
<1>1. IInv => OneFill
  BY DEF IInv, OneFill, FillersHold
<1> QED
  BY Inductive, <1>1, PTL

\* _invalidate_project_cache and the announcements' invalidation leave an old
\* entry to its expiry only where a read raced, a step failed, or the write
\* deletes nothing.
THEOREM StaleExplained == CacheSpec => []StaleHasACause
<1>1. IInv => StaleHasACause
  BY DEF IInv, StaleHasACause, StaleIsKnown, Deletes
<1> QED
  BY Inductive, <1>1, PTL
=============================================================================
