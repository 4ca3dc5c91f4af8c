------------------------------ MODULE LogFiles ------------------------------
(***************************************************************************)
(* internal/manager/log_starter.go and log_cleaner.go: the log of one app. *)
(* Every start of the app makes a LogRotator, to which a goroutine copies  *)
(* what the process writes; the rotator of a process that has been told to *)
(* stop may still be at work when the next one opens the same file.  The   *)
(* cleaner walks the directory at any time.  They share nothing but the    *)
(* names in it: name 0 is the current file, name i the backup *.log.i.     *)
(*                                                                         *)
(* Lines are numbered as they are written and are one unit long each.      *)
(***************************************************************************)
EXTENDS Integers, FiniteSets, Sequences, SequencesExt

CONSTANTS
    Rotators,      \* one per process of the app whose output is copied
    MaxBackups, MaxSize,
    Lengths,       \* of what is written at once, none above MaxSize
    MaxTotal,      \* MaxTotalMB of the cleaner, 0 for none
    MaxLines,      \* bound: lines in all
    Faults,        \* do renames, removals and writes fail at times?
    None

Names == 0..MaxBackups
File  == [lines : SUBSET (1..MaxLines), stamp : Nat]
NoName == -1

ASSUME LogAssumption ==
    /\ MaxBackups \in Nat \ {0} /\ MaxSize \in Nat \ {0}
    /\ Lengths \subseteq 1..MaxSize /\ Lengths # {}
    /\ MaxTotal \in Nat /\ MaxLines \in Nat
    /\ Faults \in BOOLEAN
    /\ None \notin Names /\ None \notin File

VARIABLES
    file,       \* name -> its file: lines and modification time
    written,    \* lines written so far
    pc,         \* rotator -> what it is about to do
    handle,     \* rotator -> the name its open file has by now, or NoName
    size,       \* rotator -> its count of what is in it
    pending,    \* rotator -> the length of what is to be written
    at,         \* rotator -> the backup to be shifted next
    cleaner,    \* what the cleaner is about to do
    mishaps     \* history: what has happened that takes promises away

rotatorVars == <<pc, handle, size, pending, at>>
fileVars == <<file, written>>
vars == <<fileVars, rotatorVars, cleaner, mishaps>>

Mishap == {"overlap", "clash", "fault", "race", "active", "cut", "crash"}
Entry == [name : Names, size : Nat, stamp : Nat]

(* walk: the names that filepath.Walk has read and not visited yet; doomed:*)
(* a file that is found too old; list: the files that are found, or, once  *)
(* they are sorted, are to be removed.                                     *)
Cleaner == [pc : {"idle", "age", "list", "remove"}, walk : SUBSET Names,
            cutoff : Int, doomed : Names \cup {None}, list : Seq(Entry),
            total : Int]
Resting == [pc |-> "idle", walk |-> {}, cutoff |-> 0, doomed |-> None,
            list |-> << >>, total |-> 0]

TypeOK ==
    /\ file \in [Names -> File \cup {None}]
    /\ written \in 0..MaxLines
    /\ pc \in [Rotators -> {"off", "open", "shift", "reopen", "append",
                            "plain"}]
    /\ handle \in [Rotators -> Names \cup {NoName}]
    /\ size \in [Rotators -> Nat]
    /\ pending \in [Rotators -> Lengths \cup {0}]
    /\ at \in [Rotators -> 0..MaxBackups]
    /\ cleaner \in Cleaner
    /\ mishaps \subseteq Mishap

Init ==
    /\ file = [i \in Names |-> None]
    /\ written = 0
    /\ pc = [r \in Rotators |-> "off"]
    /\ handle = [r \in Rotators |-> NoName]
    /\ size = [r \in Rotators |-> 0]
    /\ pending = [r \in Rotators |-> 0]
    /\ at = [r \in Rotators |-> 0]
    /\ cleaner = Resting
    /\ mishaps = {}
-----------------------------------------------------------------------------
(* The directory.  A file that loses its name takes what is written to it *)
(* with it; a new file is younger than the last line.                      *)

Existing == {i \in Names : file[i] # None}
Length(i) == Cardinality(file[i].lines)

(* Mutant: what the file holds already is not counted. *)
OpensUncounted(r, was) ==
    /\ handle' = [handle EXCEPT ![r] = 0]
    /\ size' = [size EXCEPT ![r] = was]
    /\ IF 0 \in Existing THEN UNCHANGED file
       ELSE file' = [file EXCEPT ![0] = [lines |-> {}, stamp |-> 2 * written + 1]]

(* os.OpenFile with O_CREATE and O_APPEND, after the Stat that gives the   *)
(* size; a Stat that finds no file leaves the size as it was.              *)
open(r, was) ==
    /\ handle' = [handle EXCEPT ![r] = 0]
    /\ IF 0 \in Existing
       THEN /\ size' = [size EXCEPT ![r] = Length(0)]
            /\ UNCHANGED file
       ELSE /\ size' = [size EXCEPT ![r] = was]
            /\ file' = [file EXCEPT ![0] = [lines |-> {}, stamp |-> 2 * written + 1]]

(* Mutant: a copy stays behind. *)
Copies(i, j) ==
    /\ file' = [file EXCEPT ![j] = file[i]]
    /\ UNCHANGED handle

rename(i, j) ==
    /\ file' = [file EXCEPT ![j] = file[i], ![i] = None]
    /\ handle' = [r \in Rotators |-> CASE handle[r] = i -> j
                                       [] handle[r] = j -> NoName
                                       [] OTHER -> handle[r]]

remove(i) ==
    /\ file' = [file EXCEPT ![i] = None]
    /\ handle' = [r \in Rotators |-> IF handle[r] = i THEN NoName ELSE handle[r]]

Busy(r) == pc[r] \in {"shift", "reopen"}

(* The names change while the cleaner goes by what it has read. *)
Racing == IF cleaner.pc # "idle" THEN {"race"} ELSE {}

(* The last write of a rotator: Write returns an error, and the goroutine  *)
(* that copies the output of the process ends.                             *)
Ended(r) ==
    /\ pc' = [pc EXCEPT ![r] = "off"]
    /\ handle' = [handle EXCEPT ![r] = NoName]
    /\ size' = [size EXCEPT ![r] = 0]
    /\ pending' = [pending EXCEPT ![r] = 0]
    /\ at' = [at EXCEPT ![r] = 0]
-----------------------------------------------------------------------------
(* LogRotator *)

Joining == IF \E u \in Rotators : pc[u] # "off" THEN {"overlap"} ELSE {}

NewLogRotator(r) ==
    /\ pc[r] = "off"
    /\ pc' = [pc EXCEPT ![r] = "open"]
    /\ open(r, 0)
    /\ mishaps' = mishaps \cup Joining
    /\ UNCHANGED <<written, pending, at, cleaner>>

(* Without a rotator the process gets the file itself. *)
StartsPlain(r) ==
    /\ Faults /\ pc[r] = "off"
    /\ pc' = [pc EXCEPT ![r] = "plain"]
    /\ open(r, 0)
    /\ mishaps' = mishaps \cup {"fault"} \cup Joining
    /\ UNCHANGED <<written, pending, at, cleaner>>

Appends(r, n) ==
    /\ n <= MaxLines - written
    /\ written' = written + n
    /\ file' = [i \in Names |->
                    IF i = handle[r]
                    THEN [lines |-> file[i].lines \cup (written + 1)..(written + n),
                          stamp |-> 2 * (written + n)]
                    ELSE file[i]]
    /\ size' = [size EXCEPT ![r] = @ + n]
    /\ UNCHANGED <<handle, at, cleaner>>

WritesPlain(r) ==
    /\ pc[r] = "plain"
    /\ \E n \in Lengths : Appends(r, n)
    /\ UNCHANGED <<pc, pending, mishaps>>

(* Mutant: the limit is looked at before the line, not after it. *)
FitsBefore(r, n) == size[r] + 1 <= MaxSize

Fits(r, n) == size[r] + n <= MaxSize

(* Mutant: the last backup but one is where shifting starts. *)
ShiftsTooFew == MaxBackups - 2

(* Mutant: shifting starts with the last one. *)
ShiftsTooMany == MaxBackups

FirstShift == MaxBackups - 1

(* The file is closed for the rotation, which ends with opening another.   *)
Write(r) ==
    /\ pc[r] = "open"
    /\ \E n \in Lengths :
        \/ Fits(r, n) /\ Appends(r, n) /\ UNCHANGED <<pc, pending, mishaps>>
        \/ /\ ~Fits(r, n)
           /\ pc' = [pc EXCEPT ![r] = "shift"]
           /\ pending' = [pending EXCEPT ![r] = n]
           /\ at' = [at EXCEPT ![r] = FirstShift]
           /\ mishaps' = mishaps \cup
                (IF \E u \in Rotators : Busy(u) THEN {"clash"} ELSE {})
           /\ UNCHANGED <<fileVars, handle, size, cleaner>>

(* A file gets the next higher number; an error is ignored. *)
Moves(i) ==
    \/ i \in Existing /\ rename(i, i + 1) /\ mishaps' = mishaps \cup Racing
    \/ i \notin Existing /\ UNCHANGED <<file, handle, mishaps>>
    \/ /\ Faults /\ i \in Existing
       /\ mishaps' = mishaps \cup {"fault"} /\ UNCHANGED <<file, handle>>

(* One backup after the other, the oldest first. *)
Shifts(r) ==
    /\ pc[r] = "shift" /\ at[r] >= 1
    /\ at' = [at EXCEPT ![r] = @ - 1]
    /\ Moves(at[r])
    /\ UNCHANGED <<written, pc, size, pending, cleaner>>

Renames(r) ==
    /\ pc[r] = "shift" /\ at[r] = 0
    /\ pc' = [pc EXCEPT ![r] = "reopen"]
    /\ size' = [size EXCEPT ![r] = 0]
    /\ Moves(0)
    /\ UNCHANGED <<written, pending, at, cleaner>>

Reopens(r) ==
    /\ pc[r] = "reopen"
    /\ pc' = [pc EXCEPT ![r] = "append"]
    /\ open(r, size[r])
    /\ UNCHANGED <<written, pending, at, cleaner, mishaps>>

(* What the file had no room for is written, without another look. *)
WritesPending(r) ==
    /\ pc[r] = "append"
    /\ Appends(r, pending[r])
    /\ pc' = [pc EXCEPT ![r] = "open"]
    /\ pending' = [pending EXCEPT ![r] = 0]
    /\ UNCHANGED mishaps

WriteFails(r) ==
    /\ Faults /\ pc[r] \in {"open", "reopen", "append"}
    /\ Ended(r)
    /\ mishaps' = mishaps \cup {"fault"}
    /\ UNCHANGED <<fileVars, cleaner>>

(* The process has exited. *)
ProcessEnds(r) ==
    /\ pc[r] \in {"open", "plain"}
    /\ Ended(r)
    /\ UNCHANGED <<fileVars, cleaner, mishaps>>
-----------------------------------------------------------------------------
(* LogCleaner: first the files that are too old, then, oldest first, what  *)
(* exceeds the total.  Each is a walk over the names that the directory    *)
(* had at its start; a file that is not there any more ends it all.        *)

Next_(walk) == CHOOSE i \in walk : \A j \in walk : i <= j

Aborts ==
    /\ cleaner' = Resting
    /\ mishaps' = IF cleaner.pc = "age" THEN mishaps \cup {"cut"} ELSE mishaps
    /\ UNCHANGED <<file, handle>>

Removes(i) ==
    /\ remove(i)
    /\ mishaps' = IF i = 0 THEN mishaps \cup {"active"} ELSE mishaps

(* The cutoff is any time in the past: an app may write nothing for days. *)
cleanByAge ==
    /\ cleaner.pc = "idle"
    /\ \E c \in {0} \cup {file[i].stamp + 1 : i \in Existing} :
         cleaner' = [Resting EXCEPT !.pc = "age", !.walk = Existing, !.cutoff = c]
    /\ UNCHANGED <<fileVars, rotatorVars, mishaps>>

ChecksAge ==
    /\ cleaner.pc = "age" /\ cleaner.doomed = None /\ cleaner.walk # {}
    /\ LET i == Next_(cleaner.walk) IN
        IF i \notin Existing THEN Aborts
        ELSE /\ cleaner' = [cleaner EXCEPT
                  !.walk = @ \ {i},
                  !.doomed = IF file[i].stamp < cleaner.cutoff THEN i ELSE None]
             /\ UNCHANGED <<file, handle, mishaps>>
    /\ UNCHANGED <<written, pc, size, pending, at>>

RemovesOld ==
    /\ cleaner.pc = "age" /\ cleaner.doomed # None
    /\ \/ /\ cleaner.doomed \in Existing
          /\ Removes(cleaner.doomed)
          /\ cleaner' = [cleaner EXCEPT !.doomed = None]
       \/ (Faults \/ cleaner.doomed \notin Existing) /\ Aborts
    /\ UNCHANGED <<written, pc, size, pending, at>>

cleanByTotalSize ==
    /\ cleaner.pc = "age" /\ cleaner.doomed = None /\ cleaner.walk = {}
    /\ cleaner' = IF MaxTotal = 0 THEN Resting
                  ELSE [Resting EXCEPT !.pc = "list", !.walk = Existing]
    /\ UNCHANGED <<fileVars, rotatorVars, mishaps>>

Lists ==
    /\ cleaner.pc = "list" /\ cleaner.walk # {}
    /\ LET i == Next_(cleaner.walk) IN
        IF i \notin Existing THEN Aborts
        ELSE /\ cleaner' = [cleaner EXCEPT
                  !.walk = @ \ {i},
                  !.total = @ + Length(i),
                  !.list = Append(@, [name |-> i, size |-> Length(i),
                                      stamp |-> file[i].stamp])]
             /\ UNCHANGED <<file, handle, mishaps>>
    /\ UNCHANGED <<written, pc, size, pending, at>>

(* Mutant: the largest files first. *)
SortedBySize(list) ==
    {s \in SetToSeqs(ToSet(list)) :
        \A i, j \in 1..Len(s) : i < j => s[i].size >= s[j].size}

(* sort.Slice, which is not stable. *)
Sorted(list) ==
    {s \in SetToSeqs(ToSet(list)) :
        \A i, j \in 1..Len(s) : i < j => s[i].stamp <= s[j].stamp}

Sorts ==
    /\ cleaner.pc = "list" /\ cleaner.walk = {}
    /\ IF cleaner.total <= MaxTotal THEN cleaner' = Resting
       ELSE \E s \in Sorted(cleaner.list) :
                cleaner' = [cleaner EXCEPT !.pc = "remove", !.list = s]
    /\ UNCHANGED <<fileVars, rotatorVars, mishaps>>

Enough == cleaner.total <= MaxTotal

RemovesOldest ==
    /\ cleaner.pc = "remove" /\ ~Enough /\ cleaner.list # << >>
    /\ LET e == Head(cleaner.list) IN
        \/ /\ e.name \in Existing
           /\ Removes(e.name)
           /\ cleaner' = [cleaner EXCEPT !.list = Tail(@), !.total = @ - e.size]
        \/ (Faults \/ e.name \notin Existing) /\ Aborts
    /\ UNCHANGED <<written, pc, size, pending, at>>

Finishes ==
    /\ cleaner.pc = "remove" /\ (Enough \/ cleaner.list = << >>)
    /\ cleaner' = Resting
    /\ UNCHANGED <<fileVars, rotatorVars, mishaps>>

Run == \/ cleanByAge \/ ChecksAge \/ RemovesOld
       \/ cleanByTotalSize \/ Lists \/ Sorts \/ RemovesOldest \/ Finishes

(* The server dies, and with it every reader of its processes' output; a   *)
(* process that got the file itself goes on.                               *)
Restart ==
    LET on(r) == pc[r] = "plain" IN
    /\ pc' = [r \in Rotators |-> IF on(r) THEN "plain" ELSE "off"]
    /\ handle' = [r \in Rotators |-> IF on(r) THEN handle[r] ELSE NoName]
    /\ size' = [r \in Rotators |-> IF on(r) THEN size[r] ELSE 0]
    /\ pending' = [r \in Rotators |-> 0]
    /\ at' = [r \in Rotators |-> 0]
    /\ cleaner' = Resting
    /\ mishaps' = mishaps
          \cup (IF \E r \in Rotators : pc[r] = "shift" THEN {"crash"} ELSE {})
          \cup (IF cleaner.pc = "age" THEN {"cut"} ELSE {})
    /\ UNCHANGED fileVars

rotate(r) == Shifts(r) \/ Renames(r) \/ Reopens(r) \/ WritesPending(r)

Next ==
    \/ \E r \in Rotators :
        \/ NewLogRotator(r) \/ StartsPlain(r)
        \/ Write(r) \/ WritesPlain(r) \/ rotate(r)
        \/ WriteFails(r) \/ ProcessEnds(r)
    \/ Run
    \/ Restart

Spec == Init /\ [][Next]_vars
-----------------------------------------------------------------------------
(* Properties *)

Kept == UNION {file[i].lines : i \in Existing}
Only(M) == mishaps \subseteq M

(* process-governance: rotation goes on to a new file and keeps the older  *)
(* ones as history.  A backup with a higher number holds older lines, at   *)
(* any point of a rotation, after failed renames, after a crash in the     *)
(* middle of it and whatever the cleaner does, as long as no two rotators  *)
(* had the file open at once.                                              *)
HistoryInOrder ==
    Only(Mishap \ {"overlap"}) =>
        \A i, j \in Existing : i < j =>
            \A x \in file[i].lines, y \in file[j].lines : y < x

(* What the files hold is the latest that was written, without a gap: what *)
(* rotation and cleaning drop is always the oldest.  The mishaps left out  *)
(* are the ways this code loses younger lines: two rotators, an ignored    *)
(* rename error, the cleaner deleting the active file or a name that has   *)
(* become another file's, and a cleaning by age, which starts with the     *)
(* youngest file, that is cut short.                                       *)
OldestGoFirst ==
    (Only({"crash"}) /\ cleaner.pc # "age") =>
        \A x \in Kept : x..written \subseteq Kept

(* No file exceeds the limit, over restarts of the app and of the server,  *)
(* unless two rotators count for one file or a rename failed.              *)
FilesWithinLimit ==
    Only(Mishap \ {"overlap", "fault"}) =>
        \A i \in Existing : Length(i) <= MaxSize

Dropped == Kept \ Kept'
Full(i) == \E len \in Lengths : Length(i) + len > MaxSize

(* process-governance: history backups are kept.  Apart from the cleaner,  *)
(* lines disappear only with the last backup, also after crashes and when  *)
(* several rotators share the file, unless two rotate at once or a rename  *)
(* failed; if nothing has gone wrong, only when all backups exist and each *)
(* of them is full.                                                        *)
KeepsBackups ==
    UNCHANGED cleaner /\ Dropped # {} =>
        /\ mishaps' \cap {"clash", "fault"} = {} =>
               MaxBackups \in Existing /\ Dropped \subseteq file[MaxBackups].lines
        /\ mishaps' = {} =>
               \A i \in 1..MaxBackups : i \in Existing /\ Full(i)

BackupsAreKept == [][KeepsBackups]_vars

(* process-governance: cleaning MUST only delete rotated files and MUST NOT*)
(* delete the current file that is being written.                          *)
OnlyBackupsRemoved ==
    [][\A r \in Rotators :
          pc[r] = "open" /\ pc'[r] = "open" /\ handle[r] = 0
              => handle'[r] = 0 \/ \E u \in Rotators : Busy(u)
      ]_vars
-----------------------------------------------------------------------------
(* The inductive invariant the proofs use.  Its parts hold as long as      *)
(* fewer and fewer mishaps have happened.                                  *)

(* Files hold what was written, an open file is one of them or nobody's,   *)
(* and a rotation has something to write when it is done.                  *)
DiskInv ==
    /\ \A i \in Existing : /\ file[i].lines \subseteq 1..written
                           /\ file[i].stamp <= 2 * written + 1
    /\ \A r \in Rotators :
        /\ handle[r] = NoName \/ handle[r] \in Existing
        /\ pc[r] \in {"shift", "reopen", "append"} => pending[r] \in Lengths
        /\ at[r] < MaxBackups

(* One rotator at a time writes to the current file, if that has a name.   *)
AloneInv == "overlap" \notin mishaps =>
    /\ \A r, u \in Rotators : pc[r] # "off" /\ pc[u] # "off" => r = u
    /\ \A r \in Rotators :
           pc[r] \in {"open", "plain", "shift", "append"} =>
               handle[r] \in {0, NoName}

(* It knows how long the file is, and what did not fit goes to a new one.  *)
SizeInv == mishaps \cap {"overlap", "fault"} = {} =>
    \A r \in Rotators :
        /\ pc[r] # "plain"
        /\ pc[r] = "open" /\ handle[r] = 0 => size[r] = Length(0)
        /\ pc[r] = "reopen" => size[r] = 0 /\ 0 \notin Existing
        /\ pc[r] = "append" =>
               size[r] = 0 /\ (handle[r] = 0 => file[0].lines = {})

(* Who shifts a backup has made room for it, but for the last one. *)
RoomInv == mishaps \cap {"clash", "fault"} = {} =>
    /\ \A r, u \in Rotators : Busy(r) /\ Busy(u) => r = u
    /\ \A r \in Rotators : pc[r] = "shift" =>
           at[r] = MaxBackups - 1 \/ file[at[r] + 1] = None

(* The current file has a name, backups are full and older the higher      *)
(* their number.                                                           *)
AgeInv == Only({"crash"}) =>
    /\ \A r \in Rotators :
        /\ pc[r] \in {"open", "shift", "append"} => handle[r] = 0
        /\ pc[r] = "shift" => Full(0)
    /\ \A i \in Existing : /\ i # 0 => Full(i)
                           /\ file[i].lines # {} => file[i].stamp <= 2 * written
    /\ \A i, j \in Existing : i < j => file[j].stamp < file[i].stamp

(* A cleaning by age is going to remove this file. *)
Condemned(i) ==
    cleaner.pc = "age" /\ i # 0 /\ file[i].stamp < cleaner.cutoff

(* It has yet to come by the files it is going to remove. *)
AgeWalkInv == cleaner.pc = "age" =>
    \A i \in Existing \ {0} : IF i = cleaner.doomed THEN Condemned(i)
                              ELSE Condemned(i) => i \in cleaner.walk

(* What it found is still so, except of the current file. *)
ListInv == cleaner.pc \in {"list", "remove"} =>
    /\ \A i \in Existing \ ({0} \cup cleaner.walk) :
           \E k \in 1..Len(cleaner.list) : cleaner.list[k].name = i
    /\ \A k \in 1..Len(cleaner.list) :
           cleaner.list[k].name \in Existing \ {0} =>
               cleaner.list[k].stamp = file[cleaner.list[k].name].stamp

SortedInv == cleaner.pc = "remove" =>
    /\ cleaner.walk = {}
    /\ \A k, m \in 1..Len(cleaner.list) :
           k < m => cleaner.list[k].stamp <= cleaner.list[m].stamp

(* But for what it is about to remove, the latest lines are kept. *)
LatestKept == \A i \in Existing : ~Condemned(i) =>
    \A x \in file[i].lines : x..written \subseteq Kept

CleanerInv == Only({"crash"}) =>
    AgeWalkInv /\ ListInv /\ SortedInv /\ LatestKept

(* There is no backup missing among the others, but for the one whose      *)
(* place a rotation has made free.                                         *)
NoneMissing == mishaps = {} =>
    \A i \in Existing, k \in 1..MaxBackups : k < i /\ ~Condemned(i) =>
        \/ k \in Existing
        \/ \E r \in Rotators : pc[r] = "shift" /\ at[r] = k - 1

IInv ==
    /\ TypeOK /\ DiskInv /\ AloneInv /\ SizeInv /\ RoomInv
    /\ HistoryInOrder /\ FilesWithinLimit
    /\ AgeInv /\ CleanerInv /\ NoneMissing
=============================================================================
