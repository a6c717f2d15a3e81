------------------------------ MODULE AuditSink ------------------------------
(***************************************************************************)
(* FilesystemAuditSink (deployment/audit.py): the hash-chained event file  *)
(* events.jsonl, its rotations, their delayed compression and retention.   *)
(*                                                                         *)
(* append holds an exclusive flock throughout, so appends happen one after *)
(* the other; the steps of one append are its filesystem operations, any   *)
(* of which may raise, and the process may be killed between two of them.  *)
(* A record's hash stands for the record and everything before it; it is   *)
(* modelled by the record's serial number, and the twelve hash digits of a *)
(* rotation's name by an arbitrary rank.  Sizes are counted in lines.      *)
(***************************************************************************)
EXTENDS Integers, Sequences, FiniteSets, SequencesExt

CONSTANTS
    Ids,         \* event ids
    MaxStamp,    \* bound on event timestamps
    DayOf,       \* the calendar day of a timestamp
    HashRank,    \* position of a record's hash among all hashes
    MaxLines,    \* lines that fit in rotate_bytes
    Retention,   \* rotations that are kept
    MaxRecords,  \* bound on the records written
    MaxErrors    \* bound on errors and kills

Times == 0..MaxStamp
Serials == 1..MaxRecords

AuditAssumption ==
    /\ DayOf \in [Times -> Nat]
    /\ HashRank \in [Serials -> Nat]
    /\ \A m, n \in Serials : HashRank[m] = HashRank[n] => m = n
    /\ MaxLines \in Nat \ {0} /\ Retention \in Nat \ {0} /\ MaxErrors \in Nat
    /\ MaxStamp \in Nat /\ MaxRecords \in Nat

VARIABLES
    active,   \* lines of events.jsonl, none if there is no such file
    torn,     \* events.jsonl ends in a partial line
    rotated,  \* rotated files: timestamp, hash and suffix of the name, and lines
    at,       \* next step of the append in progress
    event,    \* event being appended
    prev,     \* hash of the last record when the append began
    newest,   \* hash in the name of the rotation just made
    written,  \* every record ever written in full (history)
    lapses,   \* what has happened that the sink does not survive (history)
    errors

auditFiles == <<active, torn, rotated>>
auditVars == <<auditFiles, at, event, prev, newest, written, lapses, errors>>

Events == [id : Ids, time : Times]
NoEvent == << >>

AuditInit ==
    /\ active = << >>
    /\ torn = FALSE
    /\ rotated = {}
    /\ at = "idle"
    /\ event = NoEvent
    /\ prev = 0
    /\ newest = 0
    /\ written = << >>
    /\ lapses = {}
    /\ errors = 0

-----------------------------------------------------------------------------
(* _files and _validate_history.                                           *)

\* Files sort by name: timestamp, hash, then the .gz suffix.
Sorts(f, g) ==
    \/ f.time < g.time
    \/ f.time = g.time /\ HashRank[f.hash] < HashRank[g.hash]
    \/ f.time = g.time /\ f.hash = g.hash /\ ~f.gz /\ g.gz

IsFirst(f, S) == f \in S /\ \A g \in S \ {f} : Sorts(f, g)

\* _files: the rotations in the order of their names, then events.jsonl, which
\* has no name of this form.
ActiveFile == [time |-> 0, hash |-> 0, gz |-> FALSE, lines |-> active]
Files == rotated \cup {ActiveFile}
Before(f, g) == f # ActiveFile /\ (g = ActiveFile \/ Sorts(f, g))
Precedes(f, g) == Before(f, g) /\ \A h \in Files : ~(Before(f, h) /\ Before(h, g))

\* Every record that is kept.
Retained == UNION {ToSet(f.lines) : f \in Files}

\* Continuity is required from the first record on, which may refer to a
\* record that is no longer kept only if it is in a rotation.
HistoryValid ==
    /\ ~torn
    /\ (rotated = {} /\ active # << >>) => active[1].prev = 0
    /\ \A f \in Files : \A i \in 2..Len(f.lines) : f.lines[i].prev = f.lines[i - 1].serial
    /\ \A f, g \in Files :
          (Precedes(f, g) /\ g.lines # << >>) => g.lines[1].prev = Last(f.lines).serial
    /\ \A f, g \in Files : \A i \in DOMAIN f.lines, j \in DOMAIN g.lines :
          f.lines[i].id = g.lines[j].id => f = g /\ i = j

\* The file with the last record.
Latest == IF active # << >> THEN ActiveFile
          ELSE CHOOSE f \in rotated : \A g \in rotated \ {f} : Sorts(g, f)

LastHash == IF Retained = {} THEN 0 ELSE Last(Latest.lines).serial

-----------------------------------------------------------------------------
(* append.                                                                 *)

Error == errors < MaxErrors /\ errors' = errors + 1

\* The append is over and its locals are gone.
Raise == at' = "idle" /\ event' = NoEvent /\ prev' = 0 /\ newest' = 0

\* A step of the append that has its effect, or raises without it.
AppendStep(step, effect) ==
    /\ at = step
    /\ \/ effect /\ UNCHANGED errors
       \/ Error /\ Raise /\ UNCHANGED <<auditFiles, written, lapses>>

Proceed(next) == at' = next /\ UNCHANGED <<event, prev, newest>>

\* The active file is full, or its last event is of another day.
MustRotate(e) ==
    /\ active # << >>
    /\ \/ Len(active) + 1 > MaxLines
       \/ DayOf[Last(active).time] # DayOf[e.time]

\* Mutant: only the active file is searched for the event id.
BeginActiveOnly(e) ==
    /\ at = "idle"
    /\ Len(written) < MaxRecords
    /\ HistoryValid
    /\ e.id \notin {r.id : r \in ToSet(active)}
    /\ event' = e
    /\ prev' = LastHash
    /\ at' = IF MustRotate(e) THEN "rotate" ELSE "write"
    /\ UNCHANGED <<auditFiles, newest, written, lapses, errors>>

\* The lock is taken and the whole history validated; otherwise append raises
\* and nothing changes.
Begin(e) ==
    /\ at = "idle"
    /\ Len(written) < MaxRecords
    /\ HistoryValid
    /\ e.id \notin {r.id : r \in Retained}
    /\ event' = e
    /\ prev' = LastHash
    /\ at' = IF MustRotate(e) THEN "rotate" ELSE "write"
    /\ UNCHANGED <<auditFiles, newest, written, lapses, errors>>

\* _rotate: the target is named after the last record.  The sink relies on the
\* timestamps of successive rotations to increase.
Rotate ==
    LET last == Last(active)
        target == [time |-> last.time, hash |-> last.serial, gz |-> FALSE, lines |-> active]
    IN  AppendStep("rotate",
            /\ rotated' = rotated \cup {target}
            /\ active' = << >>
            /\ newest' = last.serial
            /\ at' = "compress"
            /\ lapses' = IF \E f \in rotated : f.time >= last.time
                         THEN lapses \cup {"clock"} ELSE lapses
            /\ UNCHANGED <<torn, event, prev, written>>)

\* _compress_delayed: every plain rotation but the newest, one after the
\* other.  The compressed copy appears first, then the source is unlinked.
Plain == {f \in rotated : ~f.gz /\ f.hash # newest}

Compress ==
    \/ AppendStep("compress",
            /\ \E f \in Plain : /\ IsFirst(f, Plain)
                              /\ rotated' = rotated \cup {[f EXCEPT !.gz = TRUE]}
            /\ Proceed("unlink")
            /\ UNCHANGED <<active, torn, written, lapses>>)
    \/ /\ at = "compress"
       /\ Plain = {}
       /\ Proceed("retain")
       /\ UNCHANGED <<auditFiles, written, lapses, errors>>

\* An unlink that raises leaves the events in two files.
Unlink ==
    /\ at = "unlink"
    /\ \/ /\ \E f \in Plain : IsFirst(f, Plain) /\ rotated' = rotated \ {f}
          /\ Proceed("compress")
          /\ UNCHANGED <<lapses, errors>>
       \/ Error /\ Raise /\ lapses' = lapses \cup {"copied"} /\ UNCHANGED rotated
    /\ UNCHANGED <<active, torn, written>>

\* Mutant: the rotations that sort last are unlinked.
RetainLast ==
    /\ at = "retain"
    /\ Cardinality(rotated) > Retention
    /\ \E f \in rotated : (\A g \in rotated \ {f} : Sorts(g, f)) /\ rotated' = rotated \ {f}
    /\ UNCHANGED <<active, torn, at, event, prev, newest, written, lapses, errors>>

\* The rotations that sort first are unlinked until Retention are left.
Retain ==
    \/ AppendStep("retain",
            /\ Cardinality(rotated) > Retention
            /\ \E f \in rotated : IsFirst(f, rotated) /\ rotated' = rotated \ {f}
            /\ UNCHANGED <<active, torn, at, event, prev, newest, written, lapses>>)
    \/ /\ at = "retain"
       /\ Cardinality(rotated) =< Retention
       /\ Proceed("write")
       /\ UNCHANGED <<auditFiles, written, lapses, errors>>

\* The chain hash was taken before the rotation.
Record == [serial |-> Len(written) + 1, prev |-> prev, id |-> event.id, time |-> event.time]

\* One write call.  It may raise before any byte is written, with the file
\* created or not, or leave a partial line.
WriteRecord ==
    /\ at = "write"
    /\ \/ /\ active' = Append(active, Record)
          /\ written' = Append(written, Record)
          /\ Proceed("sync")
          /\ UNCHANGED <<torn, errors, lapses>>
       \/ /\ Error
          /\ Raise
          /\ \/ UNCHANGED <<torn, lapses>>
             \/ torn' = TRUE /\ lapses' = lapses \cup {"torn"}
          /\ UNCHANGED <<active, written>>
    /\ UNCHANGED rotated

\* The file and the directory are synced and append returns.
SyncAppend ==
    AppendStep("sync",
        /\ Raise
        /\ UNCHANGED <<auditFiles, written, lapses>>)

\* The process is killed between two steps.
KillAppend ==
    /\ at # "idle"
    /\ Error
    /\ Raise
    /\ lapses' = IF at = "unlink" THEN lapses \cup {"copied"} ELSE lapses
    /\ UNCHANGED <<auditFiles, written>>

AuditNext ==
    \/ \E e \in Events : Begin(e)
    \/ Rotate \/ Compress \/ Unlink \/ Retain \/ WriteRecord \/ SyncAppend
    \/ KillAppend

AuditSpec == AuditInit /\ [][AuditNext]_auditVars

-----------------------------------------------------------------------------
\* The sink stays usable: whatever step of an append raises or is cut off, the
\* next append finds a valid history, except after a partial line, after the
\* compressed copy of a rotation was installed and its source not unlinked,
\* or after a rotation whose name does not sort last.
StaysUsable == (at = "idle" /\ lapses = {}) => HistoryValid

\* Rotation, compression and retention lose no evidence: at every moment the
\* files hold exactly the most recent records ever written, and something is
\* missing only while the full number of rotations is kept.  This is the
\* case even after a partial line or an uncompleted compression.
RetainedSuffix ==
    "clock" \notin lapses =>
        \E k \in 0..Len(written) :
            /\ Retained = {written[i] : i \in (k + 1)..Len(written)}
            /\ k > 0 => Cardinality(rotated) >= Retention
=============================================================================
