------------------------------ MODULE Recorder ------------------------------
(***************************************************************************)
(* The audio recorder (internal/media/recorder.go): a table of recordings  *)
(* in progress, a catalogue of the completed ones, and the WAV files.      *)
(* Every operation holds r.mu and is one step.  The files outlive the      *)
(* process; the table and the catalogue do not, and NewRecorder rebuilds   *)
(* the catalogue from what it can read of the directory.                   *)
(*                                                                         *)
(* A recording is named by its caller and the millisecond it was opened    *)
(* in, as the callers in vcs/service.go build their ids; the file's name   *)
(* is the start time and that id, so the id names the file as well.  Voice *)
(* is counted, in blocks of samples.  Type and channel of an entry are     *)
(* display text and left out.                                              *)
(***************************************************************************)
EXTENDS Integers, FiniteSets, Sequences

CONSTANTS
    Callers,        \* who opens recordings: a channel's key, its squelch, ...
    Limits,         \* values of max_recordings the configuration may hold
    DefaultMaxRecordings, HardLimitMaxRecordings,
    MaxSamples,     \* the longest recording: maxDurationSeconds * 8000
    MaxClock,       \* bound: milliseconds that pass
    SameMs          \* a caller may open two recordings within a millisecond

ASSUME RecorderAssumption ==
    /\ Limits \subseteq Int /\ Limits # {}
    /\ DefaultMaxRecordings \in 1..HardLimitMaxRecordings
    /\ HardLimitMaxRecordings \in Nat
    /\ MaxSamples \in Nat \ {0}
    /\ MaxClock \in Nat
    /\ SameMs \in BOOLEAN

VARIABLES
    clock,          \* time.Now(), in milliseconds
    maxRecordings,  \* r.maxRecordings
    activeRecord,   \* r.activeRecord: from id to the samples collected
    recordings,     \* r.recordings, newest first
    files,          \* the directory: from id to the samples in the file
    unread          \* history: files the last start could not read

vars == <<clock, maxRecordings, activeRecord, recordings, files, unread>>

Ids == [caller : Callers, ms : 0..MaxClock]
Entry == [id : Ids, samples : 0..MaxSamples]
Tables == UNION {[S -> 0..MaxSamples] : S \in SUBSET Ids}

TypeOK ==
    /\ clock \in 0..MaxClock
    /\ maxRecordings \in 1..HardLimitMaxRecordings
    /\ activeRecord \in Tables
    /\ recordings \in Seq(Entry) /\ Len(recordings) <= maxRecordings
    /\ files \in Tables
    /\ unread \subseteq Ids

-----------------------------------------------------------------------------
With(t, id, n) == [x \in DOMAIN t \cup {id} |-> IF x = id THEN n ELSE t[x]]
Without(t, S)  == [x \in DOMAIN t \ S |-> t[x]]
Entries(q)     == {q[i] : i \in DOMAIN q}

\* (Definitions named Mut_ are broken variants; the mutation checks put each in
\* the place of the definition below it.)
\* Broken variant: the configured limit as it stands.
Mut_Limit(n) == n

\* The configured limit, as NewRecorderWithConfig corrects it.
Limit(n) == IF n <= 0 THEN DefaultMaxRecordings
            ELSE IF n > HardLimitMaxRecordings THEN HardLimitMaxRecordings
            ELSE n

\* Broken variant: the file of the last entry kept goes too.
Mut_PurgedOffByOne(q, max) == {q[i].id : i \in max..Len(q)}

\* Retention: the first max entries stay; the files of the others are removed,
\* those of them that can be: the errors of os.Remove are ignored.
Kept(q, max)   == IF Len(q) > max THEN SubSeq(q, 1, max) ELSE q
Purged(q, max) == {q[i].id : i \in max + 1..Len(q)}

Retain(f, q, max) ==
    /\ recordings' = Kept(q, max)
    /\ \E gone \in SUBSET Purged(q, max) : files' = Without(f, gone)

\* The order of the catalogue after a load: by start time, newest first.  Files
\* of the same millisecond are ordered by name, which is any fixed order.
Newer(a, b) == a.id.ms > b.id.ms

\* loadExistingRecordings before retention: one entry for each file, sorted.
Listing(f) ==
    LET E == {[id |-> x, samples |-> f[x]] : x \in DOMAIN f}
    IN CHOOSE q \in [1..Cardinality(E) -> E] :
         \A i, j \in 1..Cardinality(E) :
           i < j => q[i] # q[j] /\ ~Newer(q[j], q[i])

-----------------------------------------------------------------------------
Init ==
    /\ clock = 0
    /\ maxRecordings \in {Limit(n) : n \in Limits}
    /\ activeRecord = << >> /\ recordings = << >> /\ files = << >> /\ unread = {}

Tick ==
    /\ clock < MaxClock
    /\ clock' = clock + 1
    /\ UNCHANGED <<maxRecordings, activeRecord, recordings, files, unread>>

\* A second StartRecording of an id still open drops what was collected.
StartRecording(c) ==
    LET id == [caller |-> c, ms |-> clock] IN
    /\ SameMs \/ id \notin DOMAIN activeRecord \cup DOMAIN files
    /\ activeRecord' = With(activeRecord, id, 0)
    /\ UNCHANGED <<clock, maxRecordings, recordings, files, unread>>

\* What a recording holds after n more samples: the cap cuts the last block.
Capped(have, n) == IF have + n > MaxSamples THEN MaxSamples ELSE have + n

AppendSamples(id, n) ==
    /\ id \in DOMAIN activeRecord
    /\ activeRecord' = [activeRecord EXCEPT ![id] = Capped(@, n)]
    /\ UNCHANGED <<clock, maxRecordings, recordings, files, unread>>

\* An empty recording is dropped without a trace.
StopEmpty(id) ==
    /\ activeRecord[id] = 0
    /\ UNCHANGED <<recordings, files>>

\* The file cannot be written: it may stay behind, cut anywhere, and the
\* recording has no entry.
StopWriteFails(id) ==
    /\ activeRecord[id] > 0
    /\ \/ UNCHANGED files
       \/ \E n \in 0..activeRecord[id] - 1 : files' = With(files, id, n)
    /\ UNCHANGED recordings

StopWritten(id) ==
    /\ activeRecord[id] > 0
    /\ Retain(With(files, id, activeRecord[id]),
              <<[id |-> id, samples |-> activeRecord[id]]>> \o recordings,
              maxRecordings)

StopRecording(id) ==
    /\ id \in DOMAIN activeRecord
    /\ activeRecord' = Without(activeRecord, {id})
    /\ StopEmpty(id) \/ StopWriteFails(id) \/ StopWritten(id)
    /\ UNCHANGED <<clock, maxRecordings, unread>>

\* Broken variant: the first file is skipped.
Mut_NewRecorderSkips(f, max) ==
    /\ maxRecordings' = max /\ activeRecord' = << >> /\ unread' = {}
    /\ Retain(f, SubSeq(Listing(f), 2, Cardinality(DOMAIN f)), max)

\* NewRecorderWithConfig.  A file whose Info fails is skipped; all of them are
\* when the directory itself cannot be read.
NewRecorder(f, max) ==
    /\ maxRecordings' = max /\ activeRecord' = << >>
    /\ unread' \in SUBSET DOMAIN f
    /\ Retain(f, Listing(Without(f, unread')), max)

\* The process ends, by a crash or by Close, and starts again, perhaps with
\* another limit.  A crash may cut the file that was being written.
Restart ==
    /\ \E n \in Limits :
         \/ NewRecorder(files, Limit(n))
         \/ \E id \in DOMAIN activeRecord : \E k \in 0..activeRecord[id] :
              activeRecord[id] > 0 /\ NewRecorder(With(files, id, k), Limit(n))
    /\ UNCHANGED clock

Next == \/ Tick
        \/ \E c \in Callers : StartRecording(c)
        \/ \E id \in Ids : StopRecording(id) \/ \E n \in 1..MaxSamples : AppendSamples(id, n)
        \/ Restart

Spec == Init /\ [][Next]_vars

-----------------------------------------------------------------------------
\* WAVData: the content behind the first entry with this id, -1 for an error.
WAVData(id) ==
    IF id \in {e.id : e \in Entries(recordings)} /\ id \in DOMAIN files
    THEN files[id] ELSE -1

\* "WAVData reads WAV file content for a recording": every recording the console
\* lists can be downloaded, and the file holds what
\* the list says: neither retention, a failed write, a crash in the middle of
\* one nor the load at start separates an entry from its file.  (Two recordings of
\* one caller within a millisecond do: SameMs.)
CatalogueBacked ==
    \A e \in Entries(recordings) : WAVData(e.id) = e.samples

\* No completed recording is lost, by a stop, a failed write or a restart, except
\* to retention: then the catalogue is full.  What a start could not read is not
\* lost: its file is still there, as it was, for the next one.
LostOnlyToRetention ==
    [][ \A e \in Entries(recordings) :
          \/ e \in Entries(recordings')
          \/ Len(recordings') = maxRecordings'
          \/ /\ e.id \in unread' /\ e.id \in DOMAIN files'
             /\ files'[e.id] = e.samples ]_vars

-----------------------------------------------------------------------------
(* What comments say and the code does not do.                             *)

\* "FIFO retention, ~480MB max budget" (README.md): the directory holds no more
\* files than the limit allows.
StorageBounded == Cardinality(DOMAIN files) <= maxRecordings

\* "Enforce FIFO retention: purge oldest files exceeding maxRecordings": what a
\* stop purges is older than everything it keeps.
OldestPurged ==
    [][ \A id \in DOMAIN activeRecord : StopWritten(id) =>
          \A e \in Entries(recordings) \ Entries(recordings'),
             k \in Entries(recordings') : ~Newer(e, k) ]_vars
=============================================================================
