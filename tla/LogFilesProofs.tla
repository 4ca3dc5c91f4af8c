--------------------------- MODULE LogFilesProofs ---------------------------
(***************************************************************************)
(* Theorems about LogFiles, for any number of rotators and backups and any *)
(* limits: what rotation and cleaning keep, and in which order.            *)
(***************************************************************************)
EXTENDS LogFiles, FiniteSetTheorems, SequenceTheorems, TLAPS

-----------------------------------------------------------------------------
(* Files, lengths and lists *)

LEMMA Numbers ==
    /\ MaxBackups \in Nat /\ MaxBackups >= 1
    /\ MaxSize \in Nat /\ MaxTotal \in Nat /\ MaxLines \in Nat
    /\ Names = 0..MaxBackups /\ 0 \in Names /\ MaxBackups \in Names
    /\ NoName \notin Names
    /\ \A n \in Lengths : n \in Nat /\ 1 <= n /\ n <= MaxSize
  BY LogAssumption DEF Names, NoName

LEMMA FileFacts ==
    ASSUME TypeOK, NEW i \in Existing
    PROVE  /\ i \in Names
           /\ file[i] \in File /\ file[i] # None
           /\ file[i].lines \subseteq 1..MaxLines
           /\ file[i].stamp \in Nat
  BY LogAssumption DEF TypeOK, Existing, File

LEMMA LengthFacts ==
    ASSUME TypeOK, NEW i \in Existing
    PROVE  /\ IsFiniteSet(file[i].lines)
           /\ Length(i) \in Nat
           /\ Length(i) = 0 <=> file[i].lines = {}
<1>1. IsFiniteSet(1..MaxLines)
  BY FS_Interval, Numbers
<1>2. IsFiniteSet(file[i].lines)
  BY <1>1, FileFacts, FS_Subset
<1>3. QED
  BY <1>2, FS_CardinalityType, FS_EmptySet DEF Length

(* Appending n lines makes a file longer by n. *)
LEMMA AppendedLength ==
    ASSUME NEW w \in Nat, NEW n \in Nat, NEW S \in SUBSET (1..w)
    PROVE  Cardinality(S \cup (w + 1)..(w + n)) = Cardinality(S) + n
<1> DEFINE T == (w + 1)..(w + n)
<1>1. IsFiniteSet(S) /\ Cardinality(S) \in Nat
  <2>1. 1 \in Int /\ w \in Int
    OBVIOUS
  <2>2. IsFiniteSet(1..w)
    BY <2>1, FS_Interval
  <2>3. IsFiniteSet(S)
    BY <2>2, FS_Subset
  <2>4. QED
    BY <2>3, FS_CardinalityType
<1>2. IsFiniteSet(T) /\ Cardinality(T) = n
  <2>1. w + 1 \in Int /\ w + n \in Int
    OBVIOUS
  <2>2. Cardinality(T) = IF w + 1 > w + n THEN 0 ELSE (w + n) - (w + 1) + 1
    BY <2>1, FS_Interval
  <2>3. QED
    BY <2>1, <2>2, FS_Interval
<1>3. S \cap T = {}
  <2>1. \A x \in S : x \in Int /\ x <= w
    OBVIOUS
  <2>2. \A x \in T : x \in Int /\ x > w
    OBVIOUS
  <2>3. \A x : ~(x \in S /\ x \in T)
    BY <2>1, <2>2
  <2>4. QED
    BY <2>3
<1> HIDE DEF T
<1>4. Cardinality(S \cup T)
        = Cardinality(S) + Cardinality(T) - Cardinality(S \cap T)
  BY <1>1, <1>2, FS_Union
<1>5. Cardinality(S \cap T) = 0
  BY <1>3, FS_EmptySet
<1>6. Cardinality(S \cup T) = Cardinality(S) + n
  BY <1>1, <1>2, <1>4, <1>5
<1>7. QED
  BY <1>6 DEF T

LEMMA TailFacts ==
    ASSUME NEW s \in Seq(Entry), s # << >>
    PROVE  /\ Len(s) \in Nat /\ Len(s) >= 1
           /\ Head(s) = s[1] /\ s[1] \in Entry
           /\ Tail(s) \in Seq(Entry) /\ Len(Tail(s)) = Len(s) - 1
           /\ \A k \in 1..(Len(s) - 1) : Tail(s)[k] = s[k + 1]
           /\ Tail(s) # s
<1>1. Len(s) \in Nat /\ Len(s) >= 1
  OBVIOUS
<1>2. Tail(s) \in Seq(Entry) /\ Len(Tail(s)) = Len(s) - 1
  BY HeadTailProperties
<1>3. \A k \in 1..(Len(s) - 1) : Tail(s)[k] = s[k + 1]
  BY <1>2, HeadTailProperties
<1>4. Tail(s) # s
  <2>1. PICK t : t = Tail(s)
    OBVIOUS
  <2>2. Len(t) = Len(s) - 1
    BY <1>2, <2>1
  <2>3. t # s
    BY <1>1, <2>2
  <2>4. QED
    BY <2>1, <2>3
<1>5. Head(s) = s[1] /\ s[1] \in Entry
  BY <1>1
<1>6. QED
  BY <1>1, <1>2, <1>3, <1>4, <1>5, Zenon

(* Sorting only changes the order. *)
LEMMA SortedFacts ==
    ASSUME NEW list \in Seq(Entry), NEW s \in Sorted(list)
    PROVE  /\ s \in Seq(Entry)
           /\ \A k \in 1..Len(list) : \E m \in 1..Len(s) : s[m] = list[k]
           /\ \A m \in 1..Len(s) : \E k \in 1..Len(list) : s[m] = list[k]
           /\ \A k, m \in 1..Len(s) : k < m => s[k].stamp <= s[m].stamp
<1> DEFINE S == ToSet(list)
           N == Cardinality(S)
<1>1. S = {list[k] : k \in 1..Len(list)} /\ S \subseteq Entry
  BY DEF ToSet
<1>2. IsFiniteSet(S) /\ N \in Nat
  <2>1. list \in [1..Len(list) -> S]
    BY <1>1
  <2>2. list \in Surjection(1..Len(list), S)
    BY <1>1, <2>1 DEF Surjection
  <2>3. IsFiniteSet(1..Len(list))
    BY FS_Interval
  <2>4. QED
    BY <2>2, <2>3, FS_Surjection, FS_CardinalityType
<1> HIDE DEF S, N
<1>3. /\ s \in [1..N -> S]
      /\ \A i, j \in 1..N : i # j => s[i] # s[j]
      /\ \A i, j \in 1..Len(s) : i < j => s[i].stamp <= s[j].stamp
  BY DEF Sorted, SetToSeqs, S, N
<1>4. s \in Seq(Entry) /\ Len(s) = N
  BY <1>1, <1>2, <1>3
<1>5. s \in Surjection(1..N, S)
  <2>1. s \in Injection(1..N, S)
    BY <1>3 DEF Injection, IsInjective
  <2>2. Cardinality(1..N) = N /\ IsFiniteSet(1..N)
    BY <1>2, FS_Interval
  <2>3. QED
    BY <1>2, <2>1, <2>2, FS_Injection DEF N
<1>6. \A k \in 1..Len(list) : \E m \in 1..Len(s) : s[m] = list[k]
  BY <1>1, <1>4, <1>5 DEF Surjection
<1>7. \A m \in 1..Len(s) : \E k \in 1..Len(list) : s[m] = list[k]
  <2> SUFFICES ASSUME NEW m \in 1..Len(s)
               PROVE  s[m] \in S
    BY <1>1
  <2>1. QED
    BY <1>3, <1>4
<1>8. QED
  BY <1>3, <1>4, <1>6, <1>7
-----------------------------------------------------------------------------
(* What the steps do to the directory, name by name *)

LEMMA OpenFacts ==
    ASSUME TypeOK, NEW r \in Rotators, NEW was \in Nat, open(r, was)
    PROVE  /\ file' \in [Names -> File \cup {None}]
           /\ handle' \in [Rotators -> Names \cup {NoName}]
           /\ size' \in [Rotators -> Nat]
           /\ Existing' = Existing \cup {0}
           /\ \A j \in Existing : file'[j] = file[j]
           /\ 0 \notin Existing =>
                  file'[0] = [lines |-> {}, stamp |-> 2 * written + 1]
           /\ handle'[r] = 0 /\ size'[r] = IF 0 \in Existing THEN Length(0) ELSE was
           /\ \A u \in Rotators \ {r} : handle'[u] = handle[u] /\ size'[u] = size[u]
<1> DEFINE new == [lines |-> {}, stamp |-> 2 * written + 1]
<1>1. new \in File /\ new # None
  BY LogAssumption DEF TypeOK, File
<1> HIDE DEF new
<1>2. handle' \in [Rotators -> Names \cup {NoName}]
  BY Numbers DEF TypeOK, open
<1>3. CASE 0 \in Existing
  <2>1. Length(0) \in Nat
    BY <1>3, LengthFacts
  <2>2. size' = [size EXCEPT ![r] = Length(0)] /\ file' = file
    BY <1>3 DEF open
  <2>3. Existing' = Existing
    BY <2>2 DEF Existing
  <2>4. QED
    BY <1>2, <1>3, <2>1, <2>2, <2>3 DEF TypeOK, open
<1>4. CASE 0 \notin Existing
  <2>1. size' = [size EXCEPT ![r] = was] /\ file' = [file EXCEPT ![0] = new]
    BY <1>4 DEF open, new
  <2>2. /\ file' \in [Names -> File \cup {None}]
        /\ file'[0] = new /\ \A j \in Names \ {0} : file'[j] = file[j]
    BY <1>1, <2>1, Numbers DEF TypeOK
  <2>3. Existing' = Existing \cup {0}
    BY <1>1, <2>2, Numbers DEF Existing
  <2>4. \A j \in Existing : j \in Names \ {0}
    BY <1>4 DEF Existing
  <2>5. QED
    BY <1>2, <1>4, <2>1, <2>2, <2>3, <2>4 DEF TypeOK, open, new
<1>5. QED
  BY <1>3, <1>4

LEMMA AppendFacts ==
    ASSUME TypeOK, DiskInv, NEW r \in Rotators, NEW n \in Lengths, Appends(r, n)
    PROVE  /\ file' \in [Names -> File \cup {None}]
           /\ written' \in 0..MaxLines /\ written' = written + n
           /\ size' \in [Rotators -> Nat]
           /\ Existing' = Existing
           /\ \A j \in Names : j # handle[r] => file'[j] = file[j]
           /\ handle[r] \in Existing =>
                /\ file'[handle[r]].lines = file[handle[r]].lines
                                              \cup (written + 1)..(written + n)
                /\ file'[handle[r]].stamp = 2 * (written + n)
           /\ \A u \in Rotators : size'[u] = IF u = r THEN size[r] + n ELSE size[u]
           /\ handle' = handle /\ at' = at /\ cleaner' = cleaner
<1> DEFINE h == handle[r]
           new == [lines |-> file[h].lines \cup (written + 1)..(written + n),
                   stamp |-> 2 * (written + n)]
<1>1. n \in Nat /\ written \in Nat /\ written + n <= MaxLines /\ n <= MaxSize
  BY Numbers DEF TypeOK, Appends
<1>2. h = NoName \/ h \in Existing
  BY DEF DiskInv
<1>3. ASSUME h \in Existing PROVE new \in File /\ new # None
  <2>1. file[h].lines \subseteq 1..MaxLines
    BY <1>3, FileFacts
  <2>2. (written + 1)..(written + n) \subseteq 1..MaxLines
    BY <1>1, Numbers
  <2>3. new \in File
    BY <1>1, <2>1, <2>2 DEF File
  <2>4. QED
    BY <2>3, LogAssumption
<1>4. file' = [i \in Names |-> IF i = h THEN [lines |-> file[i].lines \cup (written + 1)..(written + n),
                          stamp |-> 2 * (written + n)] ELSE file[i]]
  BY DEF Appends
<1>5. \A j \in Names : j # h => file'[j] = file[j]
  BY <1>4
<1>6. h \in Existing => h \in Names /\ file'[h] = new
  BY <1>4 DEF Existing
<1>7. DOMAIN file' = Names /\ file' = [j \in Names |-> file'[j]]
  BY <1>4
<1>8. NoName \notin Names
  BY Numbers
<1> HIDE DEF new, h
<1>9. \A j \in Names : file'[j] \in File \cup {None}
  BY <1>2, <1>3, <1>5, <1>6, <1>8 DEF TypeOK
<1>10. Existing' = Existing
  BY <1>2, <1>3, <1>5, <1>6, <1>8 DEF Existing
<1>11. file' \in [Names -> File \cup {None}]
  BY <1>7, <1>9
<1>12. size' \in [Rotators -> Nat]
  BY <1>1 DEF TypeOK, Appends
<1>13. written' \in 0..MaxLines /\ written' = written + n
  BY <1>1, Numbers DEF Appends
<1>14. handle' = handle /\ at' = at /\ cleaner' = cleaner
  BY DEF Appends
<1>15. \A u \in Rotators : size'[u] = IF u = r THEN size[r] + n ELSE size[u]
  BY DEF Appends, TypeOK
<1>16. h \in Existing =>
         /\ file'[h].lines = file[h].lines \cup (written + 1)..(written + n)
         /\ file'[h].stamp = 2 * (written + n)
  BY <1>6 DEF new
<1>17. QED
  BY <1>5, <1>10, <1>11, <1>12, <1>13, <1>14, <1>15, <1>16 DEF h

(* A file that is written to is longer by what is written. *)
LEMMA AppendLength ==
    ASSUME TypeOK, DiskInv, NEW r \in Rotators, NEW n \in Lengths,
           Appends(r, n), handle[r] \in Existing
    PROVE  Length(handle[r])' = Length(handle[r]) + n
<1>1. PICK h \in Existing : h = handle[r]
  OBVIOUS
<1>2. file'[h].lines = file[h].lines \cup (written + 1)..(written + n)
  BY <1>1, AppendFacts
<1>3. file[h].lines \subseteq 1..written /\ written \in Nat /\ n \in Nat
  BY Numbers DEF DiskInv, TypeOK
<1>4. handle' = handle
  BY AppendFacts
<1>5. Cardinality(file'[h].lines) = Cardinality(file[h].lines) + n
  BY <1>2, <1>3, AppendedLength
<1>6. QED
  BY <1>1, <1>4, <1>5 DEF Length

LEMMA RenameFacts ==
    ASSUME TypeOK, NEW i \in Existing, i < MaxBackups, rename(i, i + 1)
    PROVE  /\ file' \in [Names -> File \cup {None}]
           /\ handle' \in [Rotators -> Names \cup {NoName}]
           /\ i + 1 \in Names
           /\ Existing' = (Existing \ {i}) \cup {i + 1}
           /\ file'[i + 1] = file[i] /\ file'[i] = None
           /\ \A j \in Names \ {i, i + 1} : file'[j] = file[j]
           /\ \A u \in Rotators : handle'[u] = CASE handle[u] = i -> i + 1
                                                 [] handle[u] = i + 1 -> NoName
                                                 [] OTHER -> handle[u]
<1>1. i \in Names /\ i + 1 \in Names /\ i # i + 1 /\ file[i] # None
  BY Numbers DEF Existing
<1>2. file' = [file EXCEPT ![i + 1] = file[i], ![i] = None]
  BY DEF rename
<1>3. /\ file' \in [Names -> File \cup {None}]
      /\ file'[i + 1] = file[i] /\ file'[i] = None
      /\ \A j \in Names \ {i, i + 1} : file'[j] = file[j]
  BY <1>1, <1>2 DEF TypeOK
<1>4. Existing' = (Existing \ {i}) \cup {i + 1}
  BY <1>1, <1>3 DEF Existing
<1>5. \A u \in Rotators : handle'[u] = CASE handle[u] = i -> i + 1
                                         [] handle[u] = i + 1 -> NoName
                                         [] OTHER -> handle[u]
  BY DEF rename
<1>6. handle' \in [Rotators -> Names \cup {NoName}]
  BY <1>1 DEF rename, TypeOK
<1>7. QED
  BY <1>1, <1>3, <1>4, <1>5, <1>6

LEMMA RemoveFacts ==
    ASSUME TypeOK, NEW i \in Existing, remove(i)
    PROVE  /\ file' \in [Names -> File \cup {None}]
           /\ handle' \in [Rotators -> Names \cup {NoName}]
           /\ Existing' = Existing \ {i}
           /\ \A j \in Names \ {i} : file'[j] = file[j]
           /\ \A u \in Rotators :
                  handle'[u] = IF handle[u] = i THEN NoName ELSE handle[u]
<1>1. i \in Names /\ file[i] # None
  BY DEF Existing
<1>2. /\ file' \in [Names -> File \cup {None}]
      /\ file'[i] = None /\ \A j \in Names \ {i} : file'[j] = file[j]
  BY <1>1 DEF remove, TypeOK
<1>3. QED
  BY <1>1, <1>2 DEF remove, TypeOK, Existing
-----------------------------------------------------------------------------
(* Type correctness *)

RotatorStep(r) ==
    \/ NewLogRotator(r) \/ StartsPlain(r)
    \/ Write(r) \/ WritesPlain(r) \/ rotate(r)
    \/ WriteFails(r) \/ ProcessEnds(r)

LEMMA CleanerFacts ==
    ASSUME TypeOK
    PROVE  /\ cleaner.pc \in {"idle", "age", "list", "remove"}
           /\ cleaner.walk \subseteq Names /\ cleaner.cutoff \in Int
           /\ cleaner.doomed \in Names \cup {None}
           /\ cleaner.list \in Seq(Entry) /\ cleaner.total \in Int
           /\ Resting \in Cleaner
           /\ Existing \subseteq Names
  BY Numbers DEF TypeOK, Cleaner, Resting, Existing

LEMMA MovesFacts ==
    ASSUME TypeOK, NEW i \in 0..(MaxBackups - 1), Moves(i)
    PROVE  /\ file' \in [Names -> File \cup {None}]
           /\ handle' \in [Rotators -> Names \cup {NoName}]
           /\ mishaps' \subseteq Mishap /\ mishaps \subseteq mishaps'
<1>1. i < MaxBackups
  BY Numbers
<1>2. CASE i \in Existing /\ rename(i, i + 1)
  BY <1>1, <1>2, RenameFacts DEF Moves, TypeOK, Mishap, Racing
<1>3. CASE UNCHANGED <<file, handle>>
  BY <1>3 DEF Moves, TypeOK, Mishap, Racing
<1>4. QED
  BY <1>2, <1>3 DEF Moves

LEMMA TypeOfRotators ==
    ASSUME TypeOK, DiskInv, NEW r \in Rotators, RotatorStep(r)
    PROVE  TypeOK'
<1>1. ASSUME NewLogRotator(r) \/ StartsPlain(r) PROVE TypeOK'
  <2>1. open(r, 0) /\ 0 \in Nat
    BY <1>1 DEF NewLogRotator, StartsPlain
  <2>2. /\ file' \in [Names -> File \cup {None}]
        /\ handle' \in [Rotators -> Names \cup {NoName}]
        /\ size' \in [Rotators -> Nat]
    BY <2>1, OpenFacts
  <2>3. QED
    BY <1>1, <2>2
    DEF NewLogRotator, StartsPlain, Joining, TypeOK, Mishap
<1>2. ASSUME NEW n \in Lengths, Appends(r, n)
      PROVE  /\ file' \in [Names -> File \cup {None}]
             /\ written' \in 0..MaxLines
             /\ size' \in [Rotators -> Nat]
             /\ handle' = handle /\ at' = at /\ cleaner' = cleaner
  BY <1>2, AppendFacts
<1>3. ASSUME Write(r) PROVE TypeOK'
  <2>1. PICK n \in Lengths :
          \/ Fits(r, n) /\ Appends(r, n) /\ UNCHANGED <<pc, pending, mishaps>>
          \/ /\ pc' = [pc EXCEPT ![r] = "shift"]
             /\ pending' = [pending EXCEPT ![r] = n]
             /\ at' = [at EXCEPT ![r] = FirstShift]
             /\ mishaps' = mishaps \cup
                  (IF \E u \in Rotators : Busy(u) THEN {"clash"} ELSE {})
             /\ UNCHANGED <<fileVars, handle, size, cleaner>>
    BY <1>3 DEF Write
  <2>2. CASE Appends(r, n) /\ UNCHANGED <<pc, pending, mishaps>>
    BY <1>2, <2>2 DEF TypeOK
  <2>3. CASE /\ pc' = [pc EXCEPT ![r] = "shift"]
             /\ pending' = [pending EXCEPT ![r] = n]
             /\ at' = [at EXCEPT ![r] = FirstShift]
             /\ mishaps' = mishaps \cup
                  (IF \E u \in Rotators : Busy(u) THEN {"clash"} ELSE {})
             /\ UNCHANGED <<fileVars, handle, size, cleaner>>
    <3>1. FirstShift \in 0..MaxBackups
      BY Numbers DEF FirstShift
    <3>2. QED
      BY <2>3, <3>1 DEF TypeOK, fileVars, Mishap
  <2>4. QED
    BY <2>1, <2>2, <2>3
<1>4. ASSUME WritesPlain(r) PROVE TypeOK'
  BY <1>2, <1>4 DEF WritesPlain, TypeOK
<1>5. ASSUME Shifts(r) PROVE TypeOK'
  <2>1. at[r] \in 0..(MaxBackups - 1) /\ at[r] >= 1
    BY <1>5, Numbers DEF Shifts, TypeOK, DiskInv
  <2>2. /\ file' \in [Names -> File \cup {None}]
        /\ handle' \in [Rotators -> Names \cup {NoName}]
        /\ mishaps' \subseteq Mishap
    BY <1>5, <2>1, MovesFacts DEF Shifts
  <2>3. at' \in [Rotators -> 0..MaxBackups]
    BY <1>5, <2>1, Numbers DEF Shifts, TypeOK
  <2>4. QED
    BY <1>5, <2>2, <2>3 DEF Shifts, TypeOK
<1>6. ASSUME Renames(r) PROVE TypeOK'
  <2>1. 0 \in 0..(MaxBackups - 1)
    BY Numbers
  <2>2. /\ file' \in [Names -> File \cup {None}]
        /\ handle' \in [Rotators -> Names \cup {NoName}]
        /\ mishaps' \subseteq Mishap
    BY <1>6, <2>1, MovesFacts DEF Renames
  <2>3. QED
    BY <1>6, <2>2 DEF Renames, TypeOK
<1>7. ASSUME Reopens(r) PROVE TypeOK'
  <2>1. size[r] \in Nat /\ open(r, size[r])
    BY <1>7 DEF Reopens, TypeOK
  <2>2. /\ file' \in [Names -> File \cup {None}]
        /\ handle' \in [Rotators -> Names \cup {NoName}]
        /\ size' \in [Rotators -> Nat]
    BY <2>1, OpenFacts
  <2>3. QED
    BY <1>7, <2>2 DEF Reopens, TypeOK
<1>8. ASSUME WritesPending(r) PROVE TypeOK'
  <2>1. pending[r] \in Lengths /\ Appends(r, pending[r])
    BY <1>8 DEF WritesPending, DiskInv
  <2>2. QED
    BY <1>2, <1>8, <2>1 DEF WritesPending, TypeOK
<1>9. ASSUME WriteFails(r) \/ ProcessEnds(r) PROVE TypeOK'
  <2>1. /\ Ended(r) /\ UNCHANGED <<fileVars, cleaner>>
        /\ mishaps' \subseteq Mishap
    BY <1>9 DEF WriteFails, ProcessEnds, TypeOK, Mishap
  <2>2. /\ 0 \in Nat /\ 0 \in 0..MaxBackups /\ 0 \in Lengths \cup {0}
        /\ NoName \in Names \cup {NoName}
    BY Numbers
  <2>3. /\ size' \in [Rotators -> Nat]
        /\ pending' \in [Rotators -> Lengths \cup {0}]
        /\ at' \in [Rotators -> 0..MaxBackups]
        /\ handle' \in [Rotators -> Names \cup {NoName}]
    BY <2>1, <2>2 DEF Ended, TypeOK
  <2>4. QED
    BY <2>1, <2>3 DEF Ended, TypeOK, fileVars
<1>10. QED
  BY <1>1, <1>3, <1>4, <1>5, <1>6, <1>7, <1>8, <1>9 DEF RotatorStep, rotate

LEMMA TypeOfRun ==
    ASSUME TypeOK, Run
    PROVE  TypeOK'
<1> USE CleanerFacts
<1>1. /\ cleaner \in Cleaner
      /\ UNCHANGED <<written, pc, size, pending, at>>
  BY DEF TypeOK, Run, cleanByAge, ChecksAge, RemovesOld, cleanByTotalSize,
         Lists, Sorts, RemovesOldest, Finishes, fileVars, rotatorVars
<1>2. SUFFICES /\ file' \in [Names -> File \cup {None}]
               /\ handle' \in [Rotators -> Names \cup {NoName}]
               /\ cleaner' \in Cleaner
               /\ mishaps' \subseteq Mishap
  BY <1>1 DEF TypeOK
<1>3. /\ file \in [Names -> File \cup {None}]
      /\ handle \in [Rotators -> Names \cup {NoName}]
      /\ mishaps \subseteq Mishap
  BY DEF TypeOK
<1>4. Aborts => /\ UNCHANGED <<file, handle>>
                /\ cleaner' \in Cleaner /\ mishaps' \subseteq Mishap
  BY <1>3 DEF Aborts, Mishap
<1>5. ASSUME NEW i \in Existing, Removes(i)
      PROVE  /\ file' \in [Names -> File \cup {None}]
             /\ handle' \in [Rotators -> Names \cup {NoName}]
             /\ mishaps' \subseteq Mishap
  BY <1>3, <1>5, RemoveFacts DEF Removes, Mishap
<1>6. CASE cleanByAge
  <2>1. PICK c \in {0} \cup {file[i].stamp + 1 : i \in Existing} :
          cleaner' = [Resting EXCEPT !.pc = "age", !.walk = Existing, !.cutoff = c]
    BY <1>6 DEF cleanByAge
  <2>2. c \in Int
    BY FileFacts
  <2>3. cleaner' \in Cleaner
    BY <2>1, <2>2 DEF Cleaner
  <2>4. QED
    BY <1>3, <1>6, <2>3 DEF cleanByAge, fileVars, rotatorVars
<1>7. CASE ChecksAge
  <2>1. PICK i : i = Next_(cleaner.walk)
    OBVIOUS
  <2>2. CASE i \notin Existing
    BY <1>3, <1>4, <1>7, <2>1, <2>2 DEF ChecksAge
  <2>3. CASE i \in Existing
    <3>1. /\ cleaner' = [cleaner EXCEPT !.walk = @ \ {i},
                  !.doomed = IF file[i].stamp < cleaner.cutoff THEN i ELSE None]
          /\ UNCHANGED <<file, handle, mishaps>>
      BY <1>7, <2>1, <2>3 DEF ChecksAge
    <3>2. cleaner' \in Cleaner
      BY <1>1, <2>3, <3>1 DEF Cleaner
    <3>3. QED
      BY <1>3, <3>1, <3>2
  <2>4. QED
    BY <2>2, <2>3
<1>8. CASE RemovesOld
  <2>1. [cleaner EXCEPT !.doomed = None] \in Cleaner
    BY <1>1 DEF Cleaner
  <2>2. QED
    BY <1>3, <1>4, <1>5, <1>8, <2>1 DEF RemovesOld
<1>9. CASE cleanByTotalSize
  <2>1. [Resting EXCEPT !.pc = "list", !.walk = Existing] \in Cleaner
    BY DEF Cleaner
  <2>2. QED
    BY <1>3, <1>9, <2>1 DEF cleanByTotalSize, fileVars, rotatorVars
<1>10. CASE Lists
  <2>1. PICK i : i = Next_(cleaner.walk)
    OBVIOUS
  <2>2. CASE i \notin Existing
    BY <1>3, <1>4, <1>10, <2>1, <2>2 DEF Lists
  <2>3. CASE i \in Existing
    <3> DEFINE e == [name |-> i, size |-> Length(i), stamp |-> file[i].stamp]
    <3>1. /\ cleaner' = [cleaner EXCEPT !.walk = @ \ {i},
                                        !.total = @ + Length(i),
                                        !.list = Append(@, e)]
          /\ UNCHANGED <<file, handle, mishaps>>
      BY <1>10, <2>1, <2>3 DEF Lists
    <3>2. Length(i) \in Nat /\ e \in Entry
      BY <2>3, FileFacts, LengthFacts DEF Entry
    <3> HIDE DEF e
    <3>3. Append(cleaner.list, e) \in Seq(Entry) /\ cleaner.total + Length(i) \in Int
      BY <3>2
    <3>4. cleaner' \in Cleaner
      BY <1>1, <3>1, <3>3 DEF Cleaner
    <3>5. QED
      BY <1>3, <3>1, <3>4
  <2>4. QED
    BY <2>2, <2>3
<1>11. CASE Sorts
  <2>1. ASSUME NEW s \in Sorted(cleaner.list)
        PROVE  [cleaner EXCEPT !.pc = "remove", !.list = s] \in Cleaner
    BY <1>1, SortedFacts DEF Cleaner
  <2>2. cleaner' \in Cleaner
    BY <1>11, <2>1 DEF Sorts
  <2>3. QED
    BY <1>3, <1>11, <2>2 DEF Sorts, fileVars, rotatorVars
<1>12. CASE RemovesOldest
  <2>1. PICK e \in Entry : e = Head(cleaner.list)
    BY <1>12 DEF RemovesOldest
  <2>2. CASE e.name \in Existing /\ Removes(e.name)
             /\ cleaner' = [cleaner EXCEPT !.list = Tail(@), !.total = @ - e.size]
    <3>1. Tail(cleaner.list) \in Seq(Entry) /\ cleaner.total - e.size \in Int
      BY <1>12, <2>1 DEF RemovesOldest, Entry
    <3>2. cleaner' \in Cleaner
      BY <1>1, <2>2, <3>1 DEF Cleaner
    <3>3. QED
      BY <1>5, <2>2, <3>2
  <2>3. CASE Aborts
    BY <1>3, <1>4, <2>3
  <2>4. QED
    BY <1>12, <2>1, <2>2, <2>3 DEF RemovesOldest
<1>13. CASE Finishes
  BY <1>3, <1>13 DEF Finishes, fileVars, rotatorVars
<1>14. QED
  BY <1>6, <1>7, <1>8, <1>9, <1>10, <1>11, <1>12, <1>13 DEF Run

LEMMA TypeStep ==
    ASSUME TypeOK, DiskInv, [Next]_vars
    PROVE  TypeOK'
<1>1. CASE UNCHANGED vars
  BY <1>1 DEF vars, fileVars, rotatorVars, TypeOK
<1>2. CASE Run
  BY <1>2, TypeOfRun
<1>3. CASE Restart
  <2>1. /\ 0 \in Nat /\ 0 \in 0..MaxBackups /\ 0 \in Lengths \cup {0}
        /\ NoName \in Names \cup {NoName}
    BY Numbers
  <2>2. /\ size' \in [Rotators -> Nat]
        /\ pending' \in [Rotators -> Lengths \cup {0}]
        /\ at' \in [Rotators -> 0..MaxBackups]
        /\ handle' \in [Rotators -> Names \cup {NoName}]
    BY <1>3, <2>1 DEF Restart, TypeOK
  <2>3. cleaner' \in Cleaner /\ mishaps' \subseteq Mishap
    BY <1>3, CleanerFacts DEF Restart, TypeOK, Mishap
  <2>4. QED
    BY <1>3, <2>2, <2>3 DEF Restart, TypeOK, fileVars
<1>4. QED
  BY <1>1, <1>2, <1>3, TypeOfRotators DEF Next, RotatorStep
-----------------------------------------------------------------------------
(* The kinds of steps, by what they do to the directory *)

Quiet == UNCHANGED fileVars /\ \A u \in Rotators : handle'[u] \in {handle[u], NoName}

Opened(r) ==
    /\ pc[r] \in {"off", "reopen"}
    /\ \E was \in Nat : open(r, was)
    /\ UNCHANGED <<written, cleaner>>

Appended(r) ==
    /\ pc[r] \in {"open", "plain", "append"}
    /\ \E n \in Lengths : Appends(r, n)

Renamed(r) ==
    /\ pc[r] = "shift" /\ at[r] \in Existing
    /\ rename(at[r], at[r] + 1)
    /\ mishaps' = mishaps \cup Racing
    /\ UNCHANGED <<written, cleaner>>

Removed(i) ==
    /\ i \in Existing /\ Removes(i)
    /\ cleaner.pc \in {"age", "remove"} /\ cleaner' # cleaner
    /\ UNCHANGED <<written, pc, size, pending, at>>

(* What a rotator does is about itself, but for the names of the files. *)
LEMMA Others ==
    ASSUME TypeOK, NEW r \in Rotators, RotatorStep(r)
    PROVE  /\ \A u \in Rotators \ {r} :
                /\ pc'[u] = pc[u] /\ at'[u] = at[u]
                /\ pending'[u] = pending[u] /\ size'[u] = size[u]
           /\ cleaner' = cleaner
           /\ mishaps \subseteq mishaps'
<1> USE DEF TypeOK
<1>1. CASE NewLogRotator(r) \/ StartsPlain(r)
  <2>1. \A u \in Rotators \ {r} : size'[u] = size[u]
    BY <1>1 DEF NewLogRotator, StartsPlain, open
  <2>2. QED
    BY <1>1, <2>1 DEF NewLogRotator, StartsPlain
<1>2. CASE Write(r)
  BY <1>2 DEF Write, Appends
<1>3. CASE WritesPlain(r) \/ WritesPending(r)
  BY <1>3 DEF WritesPlain, WritesPending, Appends
<1>4. CASE Shifts(r)
  BY <1>4 DEF Shifts, Moves
<1>5. CASE Renames(r)
  BY <1>5 DEF Renames, Moves
<1>6. CASE Reopens(r)
  <2>1. \A u \in Rotators \ {r} : size'[u] = size[u]
    BY <1>6 DEF Reopens, open
  <2>2. QED
    BY <1>6, <2>1 DEF Reopens
<1>7. CASE WriteFails(r) \/ ProcessEnds(r)
  BY <1>7 DEF WriteFails, ProcessEnds, Ended
<1>8. QED
  BY <1>1, <1>2, <1>3, <1>4, <1>5, <1>6, <1>7 DEF RotatorStep, rotate

LEMMA KindOfRotatorStep ==
    ASSUME TypeOK, DiskInv, NEW r \in Rotators, RotatorStep(r)
    PROVE  Quiet \/ Opened(r) \/ Appended(r) \/ Renamed(r)
<1>1. CASE NewLogRotator(r) \/ StartsPlain(r)
  <2>1. open(r, 0) /\ 0 \in Nat
    BY <1>1 DEF NewLogRotator, StartsPlain
  <2>2. QED
    BY <1>1, <2>1 DEF NewLogRotator, StartsPlain, Opened
<1>2. CASE Write(r)
  BY <1>2 DEF Write, Appended, Quiet
<1>3. CASE WritesPlain(r) \/ WritesPending(r)
  BY <1>3 DEF WritesPlain, WritesPending, Appended, DiskInv
<1>4. CASE Shifts(r)
  <2>1. CASE at[r] \in Existing /\ rename(at[r], at[r] + 1)
             /\ mishaps' = mishaps \cup Racing
    BY <1>4, <2>1 DEF Shifts, Renamed
  <2>2. CASE UNCHANGED <<file, handle>>
    BY <1>4, <2>2 DEF Shifts, Quiet, fileVars
  <2>3. QED
    BY <1>4, <2>1, <2>2 DEF Shifts, Moves
<1>5. CASE Renames(r)
  <2>1. CASE 0 \in Existing /\ rename(0, 0 + 1)
             /\ mishaps' = mishaps \cup Racing
    BY <1>5, <2>1 DEF Renames, Renamed
  <2>2. CASE UNCHANGED <<file, handle>>
    BY <1>5, <2>2 DEF Renames, Quiet, fileVars
  <2>3. QED
    BY <1>5, <2>1, <2>2 DEF Renames, Moves
<1>6. CASE Reopens(r)
  <2>1. size[r] \in Nat /\ open(r, size[r])
    BY <1>6 DEF Reopens, TypeOK
  <2>2. QED
    BY <1>6, <2>1 DEF Reopens, Opened
<1>7. CASE WriteFails(r) \/ ProcessEnds(r)
  <2>1. Ended(r) /\ UNCHANGED fileVars
    BY <1>7 DEF WriteFails, ProcessEnds
  <2>2. \A u \in Rotators : handle'[u] \in {handle[u], NoName}
    BY <2>1 DEF Ended, TypeOK
  <2>3. QED
    BY <2>1, <2>2 DEF Quiet
<1>8. QED
  BY <1>1, <1>2, <1>3, <1>4, <1>5, <1>6, <1>7 DEF RotatorStep, rotate

LEMMA KindOfRun ==
    ASSUME TypeOK, Run
    PROVE  /\ UNCHANGED <<written, pc, size, pending, at>>
           /\ mishaps \subseteq mishaps'
           /\ \/ UNCHANGED <<file, handle>>
              \/ \E i \in Existing : Removed(i)
<1> USE DEF fileVars, rotatorVars
<1>1. CASE cleanByAge \/ cleanByTotalSize \/ Sorts \/ Finishes
  BY <1>1 DEF cleanByAge, cleanByTotalSize, Sorts, Finishes
<1>2. CASE ChecksAge
  BY <1>2 DEF ChecksAge, Aborts
<1>3. CASE Lists
  BY <1>3 DEF Lists, Aborts
<1>4. CASE RemovesOld
  <2>1. UNCHANGED <<written, pc, size, pending, at>> /\ cleaner.pc = "age"
    BY <1>4 DEF RemovesOld
  <2>2. CASE Aborts
    BY <2>1, <2>2 DEF Aborts
  <2>3. CASE /\ cleaner.doomed \in Existing /\ Removes(cleaner.doomed)
             /\ cleaner' = [cleaner EXCEPT !.doomed = None]
    <3>1. cleaner' # cleaner
      BY <1>4, <2>3 DEF RemovesOld, TypeOK, Cleaner
    <3>2. Removed(cleaner.doomed)
      BY <2>1, <2>3, <3>1 DEF Removed
    <3>3. QED
      BY <2>1, <2>3, <3>2 DEF Removes
  <2>4. QED
    BY <1>4, <2>2, <2>3 DEF RemovesOld
<1>5. CASE RemovesOldest
  <2>1. UNCHANGED <<written, pc, size, pending, at>> /\ cleaner.pc = "remove"
    BY <1>5 DEF RemovesOldest
  <2>2. PICK e : e = Head(cleaner.list)
    OBVIOUS
  <2>3. CASE Aborts
    BY <2>1, <2>3 DEF Aborts
  <2>4. CASE /\ e.name \in Existing /\ Removes(e.name)
             /\ cleaner' = [cleaner EXCEPT !.list = Tail(@), !.total = @ - e.size]
    <3>1. cleaner.list \in Seq(Entry) /\ cleaner.list # << >>
      BY <1>5, CleanerFacts DEF RemovesOldest
    <3>2. Tail(cleaner.list) # cleaner.list
      BY <3>1, TailFacts
    <3>3. cleaner' # cleaner
      BY <2>4, <3>2 DEF TypeOK, Cleaner
    <3>4. Removed(e.name)
      BY <2>1, <2>4, <3>3 DEF Removed
    <3>5. QED
      BY <2>1, <2>4, <3>4 DEF Removes
  <2>5. QED
    BY <1>5, <2>2, <2>3, <2>4 DEF RemovesOldest
<1>6. QED
  BY <1>1, <1>2, <1>3, <1>4, <1>5 DEF Run

LEMMA KindOfStep ==
    ASSUME TypeOK, DiskInv, [Next]_vars
    PROVE  /\ mishaps \subseteq mishaps'
           /\ \/ Quiet
              \/ \E r \in Rotators : Opened(r) \/ Appended(r) \/ Renamed(r)
              \/ \E i \in Existing : Removed(i)
<1>1. CASE UNCHANGED vars
  BY <1>1 DEF vars, fileVars, rotatorVars, Quiet
<1>2. ASSUME NEW r \in Rotators, RotatorStep(r)
      PROVE  /\ mishaps \subseteq mishaps'
             /\ Quiet \/ Opened(r) \/ Appended(r) \/ Renamed(r)
  BY <1>2, Others, KindOfRotatorStep
<1>3. CASE Run
  BY <1>3, KindOfRun DEF Quiet, fileVars
<1>4. CASE Restart
  BY <1>4 DEF Restart, Quiet
<1>5. QED
  BY <1>1, <1>2, <1>3, <1>4 DEF Next, RotatorStep
-----------------------------------------------------------------------------
(* What the files hold, whatever happens *)

LEMMA DiskStep ==
    ASSUME TypeOK, DiskInv, [Next]_vars
    PROVE  DiskInv'
<1>1. TypeOK'
  BY TypeStep
<1>2. written \in Nat /\ Existing \subseteq Names
  BY CleanerFacts DEF TypeOK
<1>3. \A i \in Existing : /\ file[i].lines \subseteq 1..written
                          /\ file[i].stamp <= 2 * written + 1
                          /\ file[i].stamp \in Nat
  BY FileFacts DEF DiskInv
<1>4. \A u \in Rotators : handle[u] = NoName \/ handle[u] \in Existing
  BY DEF DiskInv
<1> DEFINE Files == \A i \in Existing' : /\ file'[i].lines \subseteq 1..written'
                                         /\ file'[i].stamp <= 2 * written' + 1
           Handles == \A u \in Rotators :
                          handle'[u] = NoName \/ handle'[u] \in Existing'
<1>5. Files /\ Handles
  <2>1. CASE Quiet
    <3>1. Existing' = Existing /\ file' = file /\ written' = written
      BY <2>1 DEF Quiet, fileVars, Existing
    <3>2. QED
      BY <1>3, <1>4, <2>1, <3>1 DEF Quiet
  <2>2. ASSUME NEW r \in Rotators, Opened(r) PROVE Files /\ Handles
    <3>1. PICK was \in Nat : open(r, was)
      BY <2>2 DEF Opened
    <3>2. /\ Existing' = Existing \cup {0} /\ written' = written
          /\ \A j \in Existing : file'[j] = file[j]
          /\ 0 \notin Existing =>
                 file'[0] = [lines |-> {}, stamp |-> 2 * written + 1]
          /\ handle'[r] = 0 /\ \A u \in Rotators \ {r} : handle'[u] = handle[u]
      BY <2>2, <3>1, OpenFacts DEF Opened
    <3>3. Files
      BY <1>2, <1>3, <3>2
    <3>4. QED
      BY <1>4, <3>2, <3>3
  <2>3. ASSUME NEW r \in Rotators, Appended(r) PROVE Files /\ Handles
    <3>1. PICK n \in Lengths : Appends(r, n)
      BY <2>3 DEF Appended
    <3>2. n \in Nat /\ n >= 1
      BY Numbers
    <3>3. /\ Existing' = Existing /\ written' = written + n
          /\ \A j \in Names : j # handle[r] => file'[j] = file[j]
          /\ handle[r] \in Existing =>
               /\ file'[handle[r]].lines = file[handle[r]].lines
                                             \cup (written + 1)..(written + n)
               /\ file'[handle[r]].stamp = 2 * (written + n)
          /\ handle' = handle
      BY <3>1, AppendFacts
    <3>4. ASSUME NEW i \in Existing
          PROVE  /\ file'[i].lines \subseteq 1..written'
                 /\ file'[i].stamp <= 2 * written' + 1
      <4>1. CASE i # handle[r]
        BY <1>2, <1>3, <3>2, <3>3, <4>1
      <4>2. CASE i = handle[r]
        <5>1. /\ file'[i].lines = file[i].lines \cup (written + 1)..(written + n)
              /\ file'[i].stamp = 2 * (written + n)
          BY <3>3, <4>2
        <5>2. QED
          BY <1>2, <1>3, <3>2, <3>3, <5>1
      <4>3. QED
        BY <4>1, <4>2
    <3>5. QED
      BY <1>4, <3>3, <3>4
  <2>4. ASSUME NEW r \in Rotators, Renamed(r) PROVE Files /\ Handles
    <3>1. PICK i \in Existing : i = at[r]
      BY <2>4 DEF Renamed
    <3>2. i < MaxBackups /\ rename(i, i + 1) /\ written' = written
      BY <2>4, <3>1 DEF Renamed, DiskInv
    <3>3. /\ i + 1 \in Names /\ Existing' = (Existing \ {i}) \cup {i + 1}
          /\ file'[i + 1] = file[i]
          /\ \A j \in Names \ {i, i + 1} : file'[j] = file[j]
          /\ \A u \in Rotators : handle'[u] = CASE handle[u] = i -> i + 1
                                                [] handle[u] = i + 1 -> NoName
                                                [] OTHER -> handle[u]
      BY <3>2, RenameFacts
    <3>4. Files
      BY <1>2, <1>3, <3>2, <3>3
    <3>5. Handles
      BY <1>4, <3>3
    <3>6. QED
      BY <3>4, <3>5
  <2>5. ASSUME NEW i \in Existing, Removed(i) PROVE Files /\ Handles
    <3>1. remove(i) /\ written' = written
      BY <2>5 DEF Removed, Removes
    <3>2. /\ Existing' = Existing \ {i}
          /\ \A j \in Names \ {i} : file'[j] = file[j]
          /\ \A u \in Rotators :
                 handle'[u] = IF handle[u] = i THEN NoName ELSE handle[u]
      BY <3>1, RemoveFacts
    <3>3. QED
      BY <1>2, <1>3, <1>4, <3>1, <3>2
  <2>6. QED
    BY <2>1, <2>2, <2>3, <2>4, <2>5, KindOfStep
<1> HIDE DEF Files, Handles
<1> DEFINE Rotates == \A u \in Rotators :
              /\ pc'[u] \in {"shift", "reopen", "append"} => pending'[u] \in Lengths
              /\ at'[u] < MaxBackups
<1>6. Rotates
  <2>1. \A u \in Rotators :
           /\ pc[u] \in {"shift", "reopen", "append"} => pending[u] \in Lengths
           /\ at[u] < MaxBackups
    BY DEF DiskInv
  <2>2. CASE UNCHANGED <<pc, pending, at>>
    BY <2>1, <2>2
  <2>3. ASSUME NEW r \in Rotators, RotatorStep(r) PROVE Rotates
    <3>1. \A u \in Rotators \ {r} :
             pc'[u] = pc[u] /\ at'[u] = at[u] /\ pending'[u] = pending[u]
      BY <2>3, Others
    <3>2. SUFFICES
            /\ pc'[r] \in {"shift", "reopen", "append"} => pending'[r] \in Lengths
            /\ at'[r] < MaxBackups
      BY <2>1, <3>1
    <3>3. CASE NewLogRotator(r) \/ StartsPlain(r) \/ WritesPlain(r)
      BY <2>1, <3>3
      DEF NewLogRotator, StartsPlain, WritesPlain, Appends, TypeOK
    <3>4. CASE Write(r)
      BY <2>1, <3>4, Numbers DEF Write, Appends, FirstShift, TypeOK
    <3>5. CASE Shifts(r) \/ Renames(r) \/ Reopens(r)
      BY <2>1, <3>5, Numbers DEF Shifts, Renames, Reopens, TypeOK
    <3>6. CASE WritesPending(r)
      BY <2>1, <3>6 DEF WritesPending, Appends, TypeOK
    <3>7. CASE WriteFails(r) \/ ProcessEnds(r)
      BY <2>1, <3>7, Numbers DEF WriteFails, ProcessEnds, Ended, TypeOK
    <3>8. QED
      BY <2>3, <3>3, <3>4, <3>5, <3>6, <3>7 DEF RotatorStep, rotate
  <2>4. CASE Restart
    BY <2>4, Numbers DEF Restart
  <2>5. QED
    BY <2>2, <2>3, <2>4, KindOfRun
    DEF Next, RotatorStep, vars, rotatorVars
<1>7. QED
  BY <1>5, <1>6 DEF DiskInv, Files, Handles, Rotates
-----------------------------------------------------------------------------
(* As long as no two rotators have the file at once *)

LEMMA AloneStep ==
    ASSUME TypeOK, DiskInv, AloneInv, [Next]_vars
    PROVE  AloneInv'
<1>1. SUFFICES ASSUME "overlap" \notin mishaps'
               PROVE  AloneInv'
  BY DEF AloneInv
<1>2. mishaps \subseteq mishaps'
  BY KindOfStep
<1>3. /\ \A u, v \in Rotators : pc[u] # "off" /\ pc[v] # "off" => u = v
      /\ \A u \in Rotators : pc[u] \in {"open", "plain", "shift", "append"} =>
                                 handle[u] \in {0, NoName}
  BY <1>1, <1>2 DEF AloneInv
<1>4. CASE UNCHANGED vars \/ Run \/ Restart
  <2>1. CASE Quiet /\ pc' = pc
    BY <1>3, <2>1 DEF Quiet, AloneInv
  <2>2. CASE Restart
    BY <2>2 DEF Restart, AloneInv
  <2>3. ASSUME NEW i \in Existing, Removed(i) PROVE AloneInv'
    <3>1. remove(i) /\ pc' = pc
      BY <2>3 DEF Removed, Removes
    <3>2. \A u \in Rotators :
              handle'[u] = IF handle[u] = i THEN NoName ELSE handle[u]
      BY <3>1, RemoveFacts
    <3>3. QED
      BY <1>3, <3>1, <3>2 DEF AloneInv
  <2>4. QED
    BY <1>4, <2>1, <2>2, <2>3, KindOfRun
    DEF vars, fileVars, rotatorVars, Quiet
<1>5. ASSUME NEW r \in Rotators, RotatorStep(r) PROVE AloneInv'
  <2>1. \A u \in Rotators \ {r} : pc'[u] = pc[u]
    BY <1>5, Others
  <2>2. CASE NewLogRotator(r) \/ StartsPlain(r)
    <3>1. open(r, 0) /\ 0 \in Nat
      BY <2>2 DEF NewLogRotator, StartsPlain
    <3>2. handle'[r] = 0
      BY <3>1, OpenFacts
    <3>3. \A u \in Rotators : pc[u] = "off"
      BY <1>1, <2>2 DEF NewLogRotator, StartsPlain, Joining
    <3>4. QED
      BY <2>1, <3>2, <3>3 DEF AloneInv
  <2>3. SUFFICES ASSUME pc[r] # "off"
                 PROVE  pc'[r] \in {"open", "plain", "shift", "append"} =>
                            handle'[r] \in {0, NoName}
    <3>1. pc[r] # "off" \/ NewLogRotator(r) \/ StartsPlain(r)
      BY <1>5 DEF RotatorStep, rotate, Write, WritesPlain, Shifts, Renames,
                  Reopens, WritesPending, WriteFails, ProcessEnds
    <3>2. CASE pc[r] # "off"
      <4>1. \A u \in Rotators : u # r => pc'[u] = "off"
        BY <1>3, <2>1, <3>2
      <4>2. QED
        BY <2>3, <3>2, <4>1 DEF AloneInv
    <3>3. QED
      BY <2>2, <3>1, <3>2
  <2>4. CASE Quiet /\ ~Reopens(r)
    <3>1. pc'[r] \in {"open", "plain", "shift", "append"} =>
              pc[r] \in {"open", "plain", "shift", "append"}
      BY <1>5, <2>3, <2>4
      DEF RotatorStep, NewLogRotator, StartsPlain, rotate, Write, WritesPlain,
          Shifts, Renames, WritesPending, WriteFails, ProcessEnds, Ended, TypeOK
    <3>2. QED
      BY <1>3, <2>4, <3>1 DEF Quiet
  <2>5. CASE Opened(r) \/ Reopens(r)
    <3>1. PICK was : open(r, was)
      BY <2>5 DEF Opened, Reopens
    <3>2. QED
      BY <3>1 DEF open, TypeOK
  <2>6. CASE Appended(r)
    <3>1. handle' = handle
      BY <2>6 DEF Appended, Appends
    <3>2. QED
      BY <1>3, <2>6, <3>1 DEF Appended
  <2>7. CASE Renamed(r)
    <3>1. PICK i \in Existing : i = at[r]
      BY <2>7 DEF Renamed
    <3>2. i < MaxBackups /\ rename(i, i + 1) /\ pc[r] = "shift"
      BY <2>7, <3>1 DEF Renamed, DiskInv
    <3>3. handle[r] \in {0, NoName}
      BY <1>3, <3>2
    <3>4. CASE Shifts(r)
      <4>1. i >= 1
        BY <3>1, <3>4 DEF Shifts
      <4>2. handle'[r] = handle[r] \/ handle'[r] = NoName
        BY <3>2, <3>3, <4>1 DEF rename, NoName
      <4>3. QED
        BY <3>3, <4>2
    <3>5. CASE Renames(r)
      <4>1. pc'[r] = "reopen"
        BY <3>5 DEF Renames, TypeOK
      <4>2. QED
        BY <4>1
    <3>6. QED
      BY <1>5, <3>2, <3>4, <3>5
      DEF RotatorStep, rotate, NewLogRotator, StartsPlain, Write, WritesPlain,
          Reopens, WritesPending, WriteFails, ProcessEnds
  <2>8. QED
    BY <1>5, <2>4, <2>5, <2>6, <2>7, KindOfRotatorStep
<1>6. QED
  BY <1>4, <1>5 DEF Next, RotatorStep

(* Where the file with this name was before the shift. *)
Source(i, j) == IF j = i + 1 THEN i ELSE j

(* Shifting a backup changes names and not the order. *)
LEMMA RenameKeepsOrder ==
    ASSUME TypeOK, NEW i \in Existing, i < MaxBackups, rename(i, i + 1)
    PROVE  /\ \A j \in Existing' : /\ Source(i, j) \in Existing
                                   /\ file'[j] = file[Source(i, j)]
           /\ \A j, k \in Existing' : j < k => Source(i, j) < Source(i, k)
<1>1. /\ Existing' = (Existing \ {i}) \cup {i + 1} /\ i + 1 \in Names
      /\ file'[i + 1] = file[i]
      /\ \A j \in Names \ {i, i + 1} : file'[j] = file[j]
  BY RenameFacts
<1>2. Existing \subseteq Names /\ \A j \in Names : j \in Int
  BY CleanerFacts, Numbers
<1>3. \A j \in Existing' : Source(i, j) \in Existing
  BY <1>1 DEF Source
<1>4. \A j \in Existing' : file'[j] = file[Source(i, j)]
  BY <1>1, <1>2 DEF Source
<1>5. \A j, k \in Existing' : j < k => Source(i, j) < Source(i, k)
  BY <1>1, <1>2 DEF Source
<1>6. QED
  BY <1>3, <1>4, <1>5

LEMMA HistoryStep ==
    ASSUME TypeOK, DiskInv, AloneInv, HistoryInOrder, [Next]_vars
    PROVE  HistoryInOrder'
<1> DEFINE Before(f, i, j) == \A x \in f[i].lines, y \in f[j].lines : y < x
<1>1. TypeOK' /\ mishaps \subseteq mishaps'
  BY TypeStep, KindOfStep
<1>2. SUFFICES ASSUME "overlap" \notin mishaps'
               PROVE  \A i, j \in Existing' : i < j => Before(file', i, j)
  BY DEF HistoryInOrder, Only
<1>3. \A i, j \in Existing : i < j => Before(file, i, j)
  BY <1>1, <1>2 DEF HistoryInOrder, Only, TypeOK
<1>4. Existing \subseteq Names /\ written \in Nat
  BY CleanerFacts DEF TypeOK
<1>5. CASE Quiet
  BY <1>3, <1>5 DEF Quiet, fileVars, Existing
<1>6. ASSUME NEW r \in Rotators, Opened(r)
      PROVE  \A i, j \in Existing' : i < j => Before(file', i, j)
  <2>1. PICK was \in Nat : open(r, was)
    BY <1>6 DEF Opened
  <2>2. /\ Existing' = Existing \cup {0}
        /\ \A j \in Existing : file'[j] = file[j]
        /\ 0 \notin Existing => file'[0].lines = {}
    BY <2>1, OpenFacts
  <2>3. QED
    BY <1>3, <2>2
<1>7. ASSUME NEW r \in Rotators, Appended(r)
      PROVE  \A i, j \in Existing' : i < j => Before(file', i, j)
  <2>1. PICK n \in Lengths : Appends(r, n)
    BY <1>7 DEF Appended
  <2>2. /\ Existing' = Existing
        /\ \A j \in Names : j # handle[r] => file'[j] = file[j]
        /\ handle[r] \in Existing =>
               file'[handle[r]].lines = file[handle[r]].lines
                                          \cup (written + 1)..(written + n)
    BY <2>1, AppendFacts
  <2>3. handle[r] \in {0, NoName} /\ NoName \notin Names
    BY <1>1, <1>2, <1>7, Numbers DEF AloneInv, Appended
  <2>4. \A j \in Existing : file[j].lines \subseteq 1..written
    BY DEF DiskInv
  <2>5. ASSUME NEW i \in Existing, NEW j \in Existing, i < j,
               NEW x \in file'[i].lines, NEW y \in file'[j].lines
        PROVE  y < x
    <3>1. j # handle[r] /\ file'[j] = file[j]
      BY <1>4, <2>2, <2>3, <2>5, Numbers
    <3>2. y \in 1..written
      BY <2>4, <2>5, <3>1
    <3>3. CASE x \in file[i].lines
      BY <1>3, <2>5, <3>1, <3>3
    <3>4. CASE x \in (written + 1)..(written + n)
      <4>1. n \in Nat
        BY Numbers
      <4>2. QED
        BY <1>4, <3>2, <3>4, <4>1
    <3>5. x \in file[i].lines \/ x \in (written + 1)..(written + n)
      BY <1>4, <2>2, <2>5
    <3>6. QED
      BY <3>3, <3>4, <3>5
  <2>6. QED
    BY <2>2, <2>5
<1>8. ASSUME NEW r \in Rotators, Renamed(r)
      PROVE  \A i, j \in Existing' : i < j => Before(file', i, j)
  <2>1. PICK i \in Existing : i = at[r]
    BY <1>8 DEF Renamed
  <2>2. i < MaxBackups /\ rename(i, i + 1)
    BY <1>8, <2>1 DEF Renamed, DiskInv
  <2>3. /\ \A j \in Existing' : /\ Source(i, j) \in Existing
                                /\ file'[j] = file[Source(i, j)]
        /\ \A j, k \in Existing' : j < k => Source(i, j) < Source(i, k)
    BY <2>2, RenameKeepsOrder
  <2>4. QED
    BY <1>3, <2>3
<1>9. ASSUME NEW i \in Existing, Removed(i)
      PROVE  \A j, k \in Existing' : j < k => Before(file', j, k)
  <2>1. /\ Existing' = Existing \ {i}
        /\ \A j \in Names \ {i} : file'[j] = file[j]
    BY <1>9, RemoveFacts DEF Removed, Removes
  <2>2. QED
    BY <1>3, <1>4, <2>1
<1>10. QED
  BY <1>5, <1>6, <1>7, <1>8, <1>9, KindOfStep
-----------------------------------------------------------------------------
(* As long as, moreover, every rename succeeds *)

LEMMA OthersAreOff ==
    ASSUME TypeOK, DiskInv, AloneInv, "overlap" \notin mishaps',
           NEW r \in Rotators, RotatorStep(r)
    PROVE  \A u \in Rotators \ {r} : pc[u] = "off" /\ pc'[u] = "off"
<1>1. mishaps \subseteq mishaps' /\ \A u \in Rotators \ {r} : pc'[u] = pc[u]
  BY Others
<1>2. CASE NewLogRotator(r) \/ StartsPlain(r)
  BY <1>1, <1>2 DEF NewLogRotator, StartsPlain, Joining
<1>3. CASE pc[r] # "off"
  BY <1>1, <1>3 DEF AloneInv
<1>4. pc[r] # "off" \/ NewLogRotator(r) \/ StartsPlain(r)
  BY DEF RotatorStep, rotate, Write, WritesPlain, Shifts, Renames, Reopens,
         WritesPending, WriteFails, ProcessEnds
<1>5. QED
  BY <1>2, <1>3, <1>4

LEMMA SizeStep ==
    ASSUME TypeOK, DiskInv, AloneInv, SizeInv, [Next]_vars
    PROVE  SizeInv'
<1>1. TypeOK' /\ DiskInv' /\ mishaps \subseteq mishaps'
  BY TypeStep, DiskStep, KindOfStep
<1>2. SUFFICES ASSUME mishaps' \cap {"overlap", "fault"} = {}
               PROVE  \A u \in Rotators :
                        /\ pc'[u] # "plain"
                        /\ pc'[u] = "open" /\ handle'[u] = 0 => size'[u] = Length(0)'
                        /\ pc'[u] = "reopen" => size'[u] = 0 /\ 0 \notin Existing'
                        /\ pc'[u] = "append" =>
                               /\ size'[u] = 0
                               /\ handle'[u] = 0 => file'[0].lines = {}
  BY DEF SizeInv
<1>3. \A u \in Rotators :
        /\ pc[u] # "plain"
        /\ pc[u] = "open" /\ handle[u] = 0 => size[u] = Length(0)
        /\ pc[u] = "reopen" => size[u] = 0 /\ 0 \notin Existing
        /\ pc[u] = "append" =>
               size[u] = 0 /\ (handle[u] = 0 => file[0].lines = {})
  BY <1>1, <1>2 DEF SizeInv
<1>4. "overlap" \notin mishaps' /\ "fault" \notin mishaps'
  BY <1>2
<1>5. CASE UNCHANGED vars \/ Run \/ Restart
  <2>1. CASE UNCHANGED <<file, handle, pc, size>>
    BY <1>3, <2>1 DEF Existing, Length
  <2>2. CASE Restart
    <3>1. \A u \in Rotators : pc'[u] = "off"
      BY <1>3, <2>2 DEF Restart
    <3>2. QED
      BY <3>1
  <2>3. ASSUME NEW i \in Existing, Removed(i), NEW u \in Rotators
        PROVE  /\ pc'[u] # "plain"
               /\ pc'[u] = "open" /\ handle'[u] = 0 => size'[u] = Length(0)'
               /\ pc'[u] = "reopen" => size'[u] = 0 /\ 0 \notin Existing'
               /\ pc'[u] = "append" =>
                      /\ size'[u] = 0
                      /\ handle'[u] = 0 => file'[0].lines = {}
    <3>1. /\ Existing' = Existing \ {i} /\ pc' = pc /\ size' = size
          /\ \A j \in Names \ {i} : file'[j] = file[j]
          /\ handle'[u] = IF handle[u] = i THEN NoName ELSE handle[u]
      BY <2>3, RemoveFacts DEF Removed, Removes
    <3>2. handle'[u] = 0 => handle[u] = 0 /\ i # 0
      BY <3>1 DEF NoName
    <3>3. handle'[u] = 0 => file'[0] = file[0] /\ Length(0)' = Length(0)
      BY <3>1, <3>2, Numbers DEF Length
    <3>4. QED
      BY <1>3, <3>1, <3>2, <3>3
  <2>4. QED
    BY <1>5, <2>1, <2>2, <2>3, KindOfRun DEF vars, fileVars, rotatorVars
<1>6. ASSUME NEW r \in Rotators, RotatorStep(r), NEW u \in Rotators
      PROVE  /\ pc'[u] # "plain"
             /\ pc'[u] = "open" /\ handle'[u] = 0 => size'[u] = Length(0)'
             /\ pc'[u] = "reopen" => size'[u] = 0 /\ 0 \notin Existing'
             /\ pc'[u] = "append" =>
                    /\ size'[u] = 0
                    /\ handle'[u] = 0 => file'[0].lines = {}
  <2>1. CASE u # r
    BY <1>4, <1>6, <2>1, OthersAreOff
  <2>2. ASSUME NEW n \in Lengths, Appends(r, n), handle[r] = 0
        PROVE  Length(0)' = Length(0) + n /\ Length(0) \in Nat
    <3>1. handle[r] \in Existing
      BY <2>2 DEF DiskInv, NoName
    <3>2. Length(handle[r])' = Length(handle[r]) + n
      BY <2>2, <3>1, AppendLength
    <3>3. handle'[r] = 0
      BY <2>2 DEF Appends
    <3>4. QED
      BY <2>2, <3>1, <3>2, <3>3, LengthFacts DEF Length
  <2>3. CASE NewLogRotator(r)
    <3>1. open(r, 0) /\ 0 \in Nat /\ pc'[r] = "open"
      BY <2>3 DEF NewLogRotator, TypeOK
    <3>2. /\ \A j \in Existing : file'[j] = file[j]
          /\ 0 \notin Existing => file'[0].lines = {}
          /\ size'[r] = IF 0 \in Existing THEN Length(0) ELSE 0
      BY <3>1, OpenFacts
    <3>3. CASE 0 \in Existing
      BY <3>1, <3>2, <3>3, <2>1 DEF Length
    <3>4. CASE 0 \notin Existing
      <4>1. Length(0)' = 0
        BY <3>2, <3>4, FS_EmptySet DEF Length
      <4>2. QED
        BY <3>1, <3>2, <3>4, <4>1, <2>1
    <3>5. QED
      BY <3>3, <3>4
  <2>4. CASE StartsPlain(r) \/ WriteFails(r)
    BY <1>4, <2>4 DEF StartsPlain, WriteFails
  <2>5. CASE Write(r)
    <3>1. pc[r] = "open"
      BY <2>5 DEF Write
    <3>2. CASE pc'[r] = "shift"
      BY <3>2, <2>1
    <3>3. ASSUME NEW n \in Lengths, Appends(r, n), UNCHANGED pc
          PROVE  handle'[r] = 0 => size'[r] = Length(0)'
      <4>1. size'[r] = size[r] + n /\ handle' = handle
        BY <3>3, AppendFacts
      <4>2. QED
        BY <1>3, <2>2, <3>1, <3>3, <4>1
    <3>4. CASE UNCHANGED pc
      BY <2>1, <2>5, <3>1, <3>3, <3>4 DEF Write, TypeOK
    <3>5. QED
      BY <2>5, <3>2, <3>4 DEF Write, TypeOK
  <2>6. CASE WritesPlain(r)
    BY <1>3, <2>6 DEF WritesPlain
  <2>7. CASE Shifts(r)
    BY <2>1, <2>7 DEF Shifts
  <2>8. CASE Renames(r)
    <3>1. pc'[r] = "reopen" /\ size'[r] = 0
      BY <2>8 DEF Renames, TypeOK
    <3>2. CASE 0 \in Existing /\ rename(0, 0 + 1)
      <4>1. 0 < MaxBackups /\ 0 + 1 # 0
        BY Numbers
      <4>2. 0 \notin Existing'
        BY <3>2, <4>1, RenameFacts
      <4>3. QED
        BY <2>1, <3>1, <4>2
    <3>3. CASE 0 \notin Existing /\ UNCHANGED file
      BY <2>1, <3>1, <3>3 DEF Existing
    <3>4. QED
      BY <1>4, <2>8, <3>2, <3>3 DEF Renames, Moves
  <2>9. CASE Reopens(r)
    <3>1. /\ pc[r] = "reopen" /\ pc'[r] = "append"
          /\ size[r] \in Nat /\ open(r, size[r])
      BY <2>9 DEF Reopens, TypeOK
    <3>2. 0 \notin Existing /\ size[r] = 0
      BY <1>3, <3>1
    <3>3. size'[r] = 0 /\ file'[0].lines = {}
      BY <3>1, <3>2, OpenFacts
    <3>4. QED
      BY <2>1, <3>1, <3>3
  <2>10. CASE WritesPending(r)
    <3>1. PICK n \in Lengths : n = pending[r]
      BY <2>10 DEF WritesPending, DiskInv
    <3>2. Appends(r, n) /\ pc[r] = "append" /\ pc'[r] = "open"
      BY <2>10, <3>1 DEF WritesPending, TypeOK
    <3>3. size'[r] = size[r] + n /\ handle' = handle
      BY <3>2, AppendFacts
    <3>4. ASSUME handle[r] = 0 PROVE size'[r] = Length(0)'
      <4>1. file[0].lines = {} /\ size[r] = 0
        BY <1>3, <3>2, <3>4
      <4>2. Length(0) = 0
        BY <4>1, FS_EmptySet DEF Length
      <4>3. QED
        BY <2>2, <3>2, <3>3, <3>4, <4>1, <4>2
    <3>5. QED
      BY <2>1, <3>2, <3>3, <3>4
  <2>11. CASE ProcessEnds(r)
    BY <2>1, <2>11 DEF ProcessEnds, Ended, TypeOK
  <2>12. QED
    BY <1>6, <2>3, <2>4, <2>5, <2>6, <2>7, <2>8, <2>9, <2>10, <2>11
    DEF RotatorStep, rotate
<1>7. QED
  BY <1>5, <1>6 DEF Next, RotatorStep

LEMMA LimitStep ==
    ASSUME TypeOK, DiskInv, AloneInv, SizeInv, FilesWithinLimit, [Next]_vars
    PROVE  FilesWithinLimit'
<1>1. TypeOK' /\ mishaps \subseteq mishaps'
  BY TypeStep, KindOfStep
<1>2. SUFFICES ASSUME "overlap" \notin mishaps', "fault" \notin mishaps'
               PROVE  \A i \in Existing' : Length(i)' <= MaxSize
  BY DEF FilesWithinLimit, Only
<1>3. \A i \in Existing : Length(i) <= MaxSize /\ Length(i) \in Nat
  BY <1>1, <1>2, LengthFacts DEF FilesWithinLimit, Only, TypeOK
<1>4. Existing \subseteq Names
  BY CleanerFacts
<1>5. CASE Quiet
  BY <1>3, <1>5 DEF Quiet, fileVars, Existing, Length
<1>6. ASSUME NEW r \in Rotators, Opened(r)
      PROVE  \A i \in Existing' : Length(i)' <= MaxSize
  <2>1. PICK was \in Nat : open(r, was)
    BY <1>6 DEF Opened
  <2>2. /\ Existing' = Existing \cup {0}
        /\ \A j \in Existing : file'[j] = file[j]
        /\ 0 \notin Existing => file'[0].lines = {}
    BY <2>1, OpenFacts
  <2>3. 0 \notin Existing => Length(0)' = 0
    BY <2>2, FS_EmptySet DEF Length
  <2>4. \A j \in Existing : Length(j)' = Length(j)
    BY <2>2 DEF Length
  <2>5. QED
    BY <1>3, <2>2, <2>3, <2>4, Numbers
<1>7. ASSUME NEW r \in Rotators, NEW n \in Lengths, Appends(r, n),
             \/ pc[r] = "open" /\ Fits(r, n)
             \/ pc[r] = "append"
      PROVE  \A i \in Existing' : Length(i)' <= MaxSize
  <2>1. Appends(r, n) /\ (pc[r] = "open" => Fits(r, n))
    BY <1>7
  <2>2. /\ Existing' = Existing
        /\ \A j \in Names : j # handle[r] => file'[j] = file[j]
    BY <2>1, AppendFacts
  <2>3. \A j \in Existing : j # handle[r] => Length(j)' = Length(j)
    BY <1>4, <2>2 DEF Length
  <2>4. pc[r] \in {"open", "append"}
    BY <1>7
  <2>5. ASSUME handle[r] \in Existing PROVE Length(handle[r])' <= MaxSize
    <3>1. handle[r] = 0
      BY <1>1, <1>2, <1>4, <2>4, <2>5, Numbers DEF AloneInv
    <3>2. Length(handle[r])' = Length(handle[r]) + n
      BY <2>1, <2>5, AppendLength
    <3>3. /\ pc[r] = "open" => size[r] = Length(0)
          /\ pc[r] = "append" => file[0].lines = {}
      BY <1>1, <1>2, <3>1 DEF SizeInv
    <3>4. pc[r] = "append" => Length(0) = 0
      BY <3>3, FS_EmptySet DEF Length
    <3>5. CASE pc[r] = "open"
      BY <2>1, <3>1, <3>2, <3>3, <3>5 DEF Fits
    <3>6. CASE pc[r] = "append"
      BY <3>1, <3>2, <3>4, <3>6, Numbers
    <3>7. QED
      BY <2>4, <3>5, <3>6
  <2>6. handle' = handle
    BY <2>1 DEF Appends
  <2>7. ASSUME NEW i \in Existing, i = handle[r] PROVE Length(i)' <= MaxSize
    BY <2>5, <2>6, <2>7 DEF Length
  <2>8. QED
    BY <1>3, <2>2, <2>3, <2>7
<1>8. ASSUME NEW r \in Rotators, Renamed(r)
      PROVE  \A i \in Existing' : Length(i)' <= MaxSize
  <2>1. PICK i \in Existing : i = at[r]
    BY <1>8 DEF Renamed
  <2>2. i < MaxBackups /\ rename(i, i + 1)
    BY <1>8, <2>1 DEF Renamed, DiskInv
  <2>3. \A j \in Existing' : /\ Source(i, j) \in Existing
                             /\ file'[j] = file[Source(i, j)]
    BY <2>2, RenameKeepsOrder
  <2>4. \A j \in Existing' : Length(j)' = Length(Source(i, j))
    BY <2>3 DEF Length
  <2>5. QED
    BY <1>3, <2>3, <2>4
<1>9. ASSUME NEW i \in Existing, Removed(i)
      PROVE  \A j \in Existing' : Length(j)' <= MaxSize
  <2>1. /\ Existing' = Existing \ {i}
        /\ \A j \in Names \ {i} : file'[j] = file[j]
    BY <1>9, RemoveFacts DEF Removed, Removes
  <2>2. \A j \in Existing' : Length(j)' = Length(j)
    BY <1>4, <2>1 DEF Length
  <2>3. QED
    BY <1>3, <2>1, <2>2
<1>10. ASSUME NEW r \in Rotators, RotatorStep(r)
       PROVE  \A i \in Existing' : Length(i)' <= MaxSize
  <2>1. pc[r] # "plain"
    BY <1>1, <1>2 DEF SizeInv
  <2>2. CASE Write(r)
    <3>1. pc[r] = "open"
      BY <2>2 DEF Write
    <3>2. Quiet \/ \E n \in Lengths : Fits(r, n) /\ Appends(r, n)
      BY <2>2 DEF Write, Quiet
    <3>3. QED
      BY <1>5, <1>7, <3>1, <3>2
  <2>3. CASE WritesPending(r)
    BY <1>7, <2>3 DEF WritesPending, DiskInv
  <2>4. CASE Quiet \/ Opened(r) \/ Renamed(r)
    BY <1>5, <1>6, <1>8, <2>4
  <2>5. CASE ProcessEnds(r)
    <3>1. \A u \in Rotators : handle'[u] \in {handle[u], NoName}
      BY <2>5 DEF ProcessEnds, Ended, TypeOK
    <3>2. QED
      BY <1>5, <2>5, <3>1 DEF ProcessEnds, Quiet
  <2>6. Appended(r) => Write(r) \/ WritesPending(r) \/ ProcessEnds(r)
    <3>1. Appended(r) => pc[r] = "open" \/ pc[r] = "append"
      BY <2>1 DEF Appended
    <3>2. ~StartsPlain(r) /\ ~WriteFails(r)
      BY <1>2 DEF StartsPlain, WriteFails
    <3>3. QED
      BY <1>10, <3>1, <3>2
      DEF RotatorStep, rotate, NewLogRotator, WritesPlain, Shifts, Renames,
          Reopens
  <2>7. QED
    BY <1>10, <2>2, <2>3, <2>4, <2>5, <2>6, KindOfRotatorStep
<1>11. CASE ~\E r \in Rotators : RotatorStep(r)
  <2>1. Quiet \/ \E i \in Existing : Removed(i)
    BY <1>11, KindOfRun
    DEF Next, RotatorStep, Restart, Quiet, vars, fileVars, rotatorVars
  <2>2. QED
    BY <1>5, <1>9, <2>1
<1>12. QED
  BY <1>10, <1>11
-----------------------------------------------------------------------------
(* As long as one rotator at a time rotates and every rename succeeds *)

(* Backups come into being by renames only. *)
LEMMA NoNewBackups ==
    ASSUME TypeOK, DiskInv,
           \/ Quiet
           \/ \E r \in Rotators : Opened(r) \/ Appended(r)
           \/ \E i \in Existing : Removed(i)
    PROVE  \A j \in Names \ {0} : file[j] = None => file'[j] = None
<1>1. \A j \in Names : (j \in Existing <=> file[j] # None)
                    /\ (j \in Existing' <=> file'[j] # None)
  BY DEF Existing
<1>2. CASE Quiet
  BY <1>2 DEF Quiet, fileVars
<1>3. ASSUME NEW r \in Rotators, Opened(r)
      PROVE  \A j \in Names \ {0} : file[j] = None => file'[j] = None
  <2>1. PICK was \in Nat : open(r, was)
    BY <1>3 DEF Opened
  <2>2. Existing' = Existing \cup {0}
    BY <2>1, OpenFacts
  <2>3. QED
    BY <1>1, <2>2
<1>4. ASSUME NEW r \in Rotators, Appended(r)
      PROVE  \A j \in Names \ {0} : file[j] = None => file'[j] = None
  <2>1. Existing' = Existing
    BY <1>4, AppendFacts DEF Appended
  <2>2. QED
    BY <1>1, <2>1
<1>5. ASSUME NEW i \in Existing, Removed(i)
      PROVE  \A j \in Names \ {0} : file[j] = None => file'[j] = None
  <2>1. Existing' = Existing \ {i}
    BY <1>5, RemoveFacts DEF Removed, Removes
  <2>2. QED
    BY <1>1, <2>1
<1>6. QED
  BY <1>2, <1>3, <1>4, <1>5

LEMMA RoomStep ==
    ASSUME TypeOK, DiskInv, RoomInv, [Next]_vars
    PROVE  RoomInv'
<1>1. mishaps \subseteq mishaps'
  BY KindOfStep
<1>2. SUFFICES ASSUME "clash" \notin mishaps', "fault" \notin mishaps'
               PROVE  /\ \A u, v \in Rotators :
                             Busy(u)' /\ Busy(v)' => u = v
                      /\ \A u \in Rotators : pc'[u] = "shift" =>
                             \/ at'[u] = MaxBackups - 1
                             \/ file'[at'[u] + 1] = None
  BY DEF RoomInv, Busy
<1>3. /\ \A u, v \in Rotators : Busy(u) /\ Busy(v) => u = v
      /\ \A u \in Rotators : pc[u] = "shift" =>
             at[u] = MaxBackups - 1 \/ file[at[u] + 1] = None
  BY <1>1, <1>2 DEF RoomInv
<1>4. \A u \in Rotators : at[u] + 1 \in Names \ {0}
  BY Numbers DEF DiskInv, TypeOK
<1>5. CASE /\ \/ Quiet
              \/ \E r \in Rotators : Opened(r) \/ Appended(r)
              \/ \E i \in Existing : Removed(i)
           /\ \A u \in Rotators : Busy(u)' => Busy(u)
           /\ \A u \in Rotators : pc'[u] = "shift" =>
                  pc[u] = "shift" /\ at'[u] = at[u]
  <2>1. \A j \in Names \ {0} : file[j] = None => file'[j] = None
    BY <1>5, NoNewBackups
  <2>2. QED
    BY <1>3, <1>4, <1>5, <2>1
<1>6. CASE UNCHANGED vars \/ Run
  BY <1>5, <1>6, KindOfRun DEF vars, fileVars, rotatorVars, Quiet, Busy
<1>7. CASE Restart
  BY <1>7 DEF Restart, Busy
<1>8. ASSUME NEW r \in Rotators, RotatorStep(r)
      PROVE  /\ \A u, v \in Rotators : Busy(u)' /\ Busy(v)' => u = v
             /\ \A u \in Rotators : pc'[u] = "shift" =>
                    at'[u] = MaxBackups - 1 \/ file'[at'[u] + 1] = None
  <2>1. \A u \in Rotators \ {r} : pc'[u] = pc[u] /\ at'[u] = at[u]
    BY <1>8, Others
  <2>2. CASE /\ Quiet \/ Opened(r) \/ Appended(r)
             /\ Busy(r)' => Busy(r)
             /\ pc'[r] # "shift"
    BY <1>5, <2>1, <2>2 DEF Busy
  <2>3. CASE Write(r)
    <3>1. CASE UNCHANGED <<pc, at>> /\ (Quiet \/ Appended(r))
      BY <1>5, <3>1 DEF Busy
    <3>2. CASE /\ pc' = [pc EXCEPT ![r] = "shift"]
               /\ at' = [at EXCEPT ![r] = FirstShift]
               /\ mishaps' = mishaps \cup
                    (IF \E u \in Rotators : Busy(u) THEN {"clash"} ELSE {})
      <4>1. \A u \in Rotators : ~Busy(u)
        BY <1>2, <3>2
      <4>2. at'[r] = MaxBackups - 1
        BY <3>2 DEF TypeOK, FirstShift
      <4>3. QED
        BY <2>1, <4>1, <4>2 DEF Busy
    <3>3. pc[r] = "open"
      BY <2>3 DEF Write
    <3>4. (\E n \in Lengths : Appends(r, n)) => Appended(r) /\ UNCHANGED at
      BY <3>3 DEF Appended, Appends
    <3>5. QED
      BY <2>3, <3>1, <3>2, <3>4 DEF Write
  <2>4. CASE Shifts(r)
    <3>1. /\ pc[r] = "shift" /\ pc' = pc
          /\ at[r] \in 0..(MaxBackups - 1) /\ at'[r] + 1 = at[r]
      BY <2>4, Numbers DEF Shifts, TypeOK, DiskInv
    <3>2. file'[at[r]] = None
      <4>1. CASE at[r] \in Existing /\ rename(at[r], at[r] + 1)
        <5>1. at[r] < MaxBackups
          BY <3>1, Numbers
        <5>2. QED
          BY <4>1, <5>1, RenameFacts
      <4>2. CASE at[r] \notin Existing /\ UNCHANGED file
        BY <1>4, <3>1, <4>2, Numbers DEF Existing
      <4>3. QED
        BY <1>2, <2>4, <4>1, <4>2 DEF Shifts, Moves
    <3>3. \A u \in Rotators \ {r} : ~Busy(u)
      BY <1>3, <3>1 DEF Busy
    <3>4. QED
      BY <2>1, <3>1, <3>2, <3>3 DEF Busy
  <2>5. CASE Renames(r)
    <3>1. pc[r] = "shift" /\ pc'[r] = "reopen"
      BY <2>5 DEF Renames, TypeOK
    <3>2. \A u \in Rotators \ {r} : ~Busy(u)
      BY <1>3, <3>1 DEF Busy
    <3>3. QED
      BY <2>1, <3>1, <3>2 DEF Busy
  <2>6. CASE NewLogRotator(r) \/ StartsPlain(r) \/ WritesPlain(r)
             \/ Reopens(r) \/ WritesPending(r) \/ WriteFails(r) \/ ProcessEnds(r)
    <3>1. ~Busy(r)' /\ pc'[r] # "shift"
      BY <2>6 DEF NewLogRotator, StartsPlain, WritesPlain, Reopens,
         WritesPending, WriteFails, ProcessEnds, Ended, Busy, TypeOK
    <3>2. pc[r] # "shift"
      BY <2>6 DEF NewLogRotator, StartsPlain, WritesPlain, Reopens,
         WritesPending, WriteFails, ProcessEnds
    <3>3. ~Renamed(r)
      BY <3>2 DEF Renamed
    <3>4. QED
      BY <1>8, <2>2, <3>1, <3>3, KindOfRotatorStep
  <2>7. QED
    BY <1>8, <2>3, <2>4, <2>5, <2>6 DEF RotatorStep, rotate
<1>9. QED
  BY <1>6, <1>7, <1>8 DEF Next, RotatorStep
-----------------------------------------------------------------------------
(* As long as nothing but a crash has happened *)

LEMMA FullFacts ==
    ASSUME TypeOK, NEW i \in Existing, Full(i)
    PROVE  file[i].lines # {}
<1>1. PICK len \in Lengths : Length(i) + len > MaxSize
  BY DEF Full
<1>2. Length(i) # 0
  BY <1>1, Numbers
<1>3. QED
  BY <1>2, LengthFacts

LEMMA AgeOfFiles ==
    ASSUME TypeOK, DiskInv, SizeInv, AgeInv, [Next]_vars, Only({"crash"})'
    PROVE  /\ \A i \in Existing' : /\ i # 0 => Full(i)'
                                   /\ file'[i].lines # {} =>
                                          file'[i].stamp <= 2 * written'
           /\ \A i, j \in Existing' : i < j => file'[j].stamp < file'[i].stamp
<1> DEFINE Fulls == \A i \in Existing' : i # 0 => Full(i)'
           Pasts == \A i \in Existing' : file'[i].lines # {} =>
                                             file'[i].stamp <= 2 * written'
           Ordered == \A i, j \in Existing' : i < j =>
                                             file'[j].stamp < file'[i].stamp
<1>1. mishaps \subseteq mishaps' /\ mishaps' \subseteq {"crash"}
  BY KindOfStep DEF Only
<1>2. /\ \A r \in Rotators :
            /\ pc[r] # "plain"
            /\ pc[r] \in {"open", "shift", "append"} => handle[r] = 0
            /\ pc[r] = "shift" => Full(0)
      /\ \A i \in Existing : /\ i # 0 => Full(i)
                             /\ file[i].lines # {} => file[i].stamp <= 2 * written
      /\ \A i, j \in Existing : i < j => file[j].stamp < file[i].stamp
  BY <1>1 DEF AgeInv, SizeInv, Only
<1>3. Existing \subseteq Names /\ written \in Nat
  BY CleanerFacts DEF TypeOK
<1>4. \A i \in Existing : file[i].stamp \in Nat
  BY FileFacts
<1>5. \A i \in Existing : i # 0 => file[i].stamp <= 2 * written
  BY <1>2, FullFacts
<1>6. CASE Quiet
  BY <1>2, <1>6 DEF Quiet, fileVars, Existing, Full, Length
<1>7. ASSUME NEW r \in Rotators, Opened(r) PROVE Fulls /\ Pasts /\ Ordered
  <2>1. PICK was \in Nat : open(r, was)
    BY <1>7 DEF Opened
  <2>2. /\ Existing' = Existing \cup {0} /\ written' = written
        /\ \A j \in Existing : file'[j] = file[j]
        /\ 0 \notin Existing =>
               file'[0] = [lines |-> {}, stamp |-> 2 * written + 1]
    BY <1>7, <2>1, OpenFacts DEF Opened
  <2>3. Fulls
    BY <1>2, <2>2 DEF Full, Length
  <2>4. Pasts
    BY <1>2, <2>2
  <2>5. Ordered
    <3>1. \A i \in Existing' : i < 0 => FALSE
      BY <1>3, <2>2, Numbers
    <3>2. CASE 0 \in Existing
      BY <1>2, <2>2, <3>2
    <3>3. CASE 0 \notin Existing
      <4>1. file'[0].stamp = 2 * written + 1
        BY <2>2, <3>3
      <4>2. \A j \in Existing : file'[j].stamp < file'[0].stamp
        BY <1>3, <1>4, <1>5, <2>2, <3>3, <4>1
      <4>3. QED
        BY <1>2, <1>3, <2>2, <3>1, <4>2
    <3>4. QED
      BY <3>2, <3>3
  <2>6. QED
    BY <2>3, <2>4, <2>5
<1>8. ASSUME NEW r \in Rotators, Appended(r) PROVE Fulls /\ Pasts /\ Ordered
  <2>1. PICK n \in Lengths : Appends(r, n)
    BY <1>8 DEF Appended
  <2>2. handle[r] = 0 /\ 0 \in Existing
    BY <1>2, <1>8 DEF Appended, DiskInv, NoName
  <2>3. n \in Nat /\ n >= 1
    BY Numbers
  <2>4. /\ Existing' = Existing /\ written' = written + n
        /\ \A j \in Names : j # 0 => file'[j] = file[j]
        /\ file'[0].stamp = 2 * (written + n)
    BY <2>1, <2>2, AppendFacts
  <2>5. Fulls
    BY <1>2, <1>3, <2>4 DEF Full, Length
  <2>6. \A j \in Existing : j # 0 => /\ file'[j].stamp <= 2 * written
                                     /\ file'[j].stamp \in Nat
    BY <1>3, <1>4, <1>5, <2>4
  <2>7. Pasts
    <3>1. ASSUME NEW j \in Existing PROVE file'[j].stamp <= 2 * (written + n)
      <4>1. CASE j = 0
        BY <1>3, <2>3, <2>4, <4>1
      <4>2. CASE j # 0
        BY <1>3, <2>3, <2>6, <4>2
      <4>3. QED
        BY <4>1, <4>2
    <3>2. QED
      BY <2>4, <3>1
  <2>8. Ordered
    <3>1. ASSUME NEW i \in Existing, NEW j \in Existing, i < j
          PROVE  file'[j].stamp < file'[i].stamp
      <4>1. j # 0
        BY <1>3, <3>1, Numbers
      <4>2. CASE i = 0
        <5>1. file'[i].stamp = 2 * (written + n)
          BY <2>4, <4>2
        <5>2. file'[j].stamp <= 2 * written /\ file'[j].stamp \in Nat
          BY <2>6, <4>1
        <5>3. QED
          BY <1>3, <2>3, <5>1, <5>2
      <4>3. CASE i # 0
        BY <1>2, <1>3, <2>4, <3>1, <4>1, <4>3
      <4>4. QED
        BY <4>2, <4>3
    <3>2. QED
      BY <2>4, <3>1
  <2>9. QED
    BY <2>5, <2>7, <2>8
<1>9. ASSUME NEW r \in Rotators, Renamed(r) PROVE Fulls /\ Pasts /\ Ordered
  <2>1. PICK i \in Existing : i = at[r]
    BY <1>9 DEF Renamed
  <2>2. i < MaxBackups /\ rename(i, i + 1) /\ written' = written
    BY <1>9, <2>1 DEF Renamed, DiskInv
  <2>3. /\ \A j \in Existing' : /\ Source(i, j) \in Existing
                                /\ file'[j] = file[Source(i, j)]
        /\ \A j, k \in Existing' : j < k => Source(i, j) < Source(i, k)
    BY <2>2, RenameKeepsOrder
  <2>4. Full(i)
    BY <1>2, <1>9, <2>1 DEF Renamed
  <2>5. \A j \in Existing' : j # 0 => Full(Source(i, j))
    BY <1>2, <2>3, <2>4 DEF Source
  <2>6. Fulls
    BY <2>3, <2>5 DEF Full, Length
  <2>7. QED
    BY <1>2, <2>2, <2>3, <2>6
<1>10. ASSUME NEW i \in Existing, Removed(i) PROVE Fulls /\ Pasts /\ Ordered
  <2>1. /\ Existing' = Existing \ {i} /\ written' = written
        /\ \A j \in Names \ {i} : file'[j] = file[j]
    BY <1>10, RemoveFacts DEF Removed, Removes
  <2>2. Fulls
    BY <1>2, <1>3, <2>1 DEF Full, Length
  <2>3. QED
    BY <1>2, <1>3, <2>1, <2>2
<1>11. QED
  BY <1>6, <1>7, <1>8, <1>9, <1>10, KindOfStep

LEMMA AgeOfRotators ==
    ASSUME TypeOK, DiskInv, AloneInv, SizeInv, AgeInv, [Next]_vars,
           Only({"crash"})', NEW u \in Rotators
    PROVE  /\ pc'[u] \in {"open", "shift", "append"} => handle'[u] = 0
           /\ pc'[u] = "shift" => Full(0)'
<1>1. mishaps \subseteq mishaps' /\ mishaps' \subseteq {"crash"}
  BY KindOfStep DEF Only
<1>2. /\ pc[u] # "plain"
      /\ pc[u] \in {"open", "shift", "append"} => handle[u] = 0
      /\ pc[u] = "shift" => Full(0)
      /\ pc[u] = "open" /\ handle[u] = 0 => size[u] = Length(0)
  BY <1>1 DEF AgeInv, SizeInv, Only
<1>3. CASE UNCHANGED <<pc, handle, file>>
  BY <1>2, <1>3 DEF Full, Length
<1>4. ASSUME NEW i \in Existing, Removed(i)
      PROVE  /\ pc'[u] \in {"open", "shift", "append"} => handle'[u] = 0
             /\ pc'[u] = "shift" => Full(0)'
  <2>1. /\ pc' = pc /\ i # 0
        /\ \A j \in Names \ {i} : file'[j] = file[j]
        /\ handle'[u] = IF handle[u] = i THEN NoName ELSE handle[u]
    BY <1>1, <1>4, RemoveFacts DEF Removed, Removes
  <2>2. file'[0] = file[0]
    BY <2>1, Numbers
  <2>3. QED
    BY <1>2, <2>1, <2>2 DEF Full, Length
<1>5. CASE UNCHANGED vars \/ Run
  BY <1>3, <1>4, <1>5, KindOfRun DEF vars, fileVars, rotatorVars
<1>6. CASE Restart
  BY <1>6 DEF Restart
<1>7. ASSUME NEW r \in Rotators, RotatorStep(r), u # r
      PROVE  pc'[u] = "off"
  BY <1>1, <1>7, OthersAreOff
<1>8. CASE RotatorStep(u)
  <2>1. CASE NewLogRotator(u)
    BY <2>1 DEF NewLogRotator, open, TypeOK
  <2>2. CASE StartsPlain(u) \/ WriteFails(u)
    BY <1>1, <2>2 DEF StartsPlain, WriteFails
  <2>3. CASE Write(u)
    <3>1. pc[u] = "open" /\ handle[u] = 0 /\ handle' = handle
      BY <1>2, <2>3 DEF Write, Appends
    <3>2. PICK n \in Lengths : \/ UNCHANGED pc
                               \/ ~Fits(u, n) /\ UNCHANGED file
      BY <2>3 DEF Write, fileVars
    <3>3. CASE UNCHANGED pc
      BY <3>1, <3>3
    <3>4. CASE ~Fits(u, n) /\ UNCHANGED file
      <4>1. 0 \in Existing
        BY <3>1 DEF DiskInv, NoName
      <4>2. Length(0) \in Nat /\ size[u] = Length(0)
        BY <1>2, <3>1, <4>1, LengthFacts
      <4>3. Length(0) + n > MaxSize
        BY <3>4, <4>2, Numbers DEF Fits
      <4>4. Full(0)
        BY <4>3 DEF Full
      <4>5. QED
        BY <3>1, <3>4, <4>4 DEF Full, Length
    <3>5. QED
      BY <3>2, <3>3, <3>4
  <2>4. CASE WritesPlain(u)
    BY <1>2, <2>4 DEF WritesPlain
  <2>5. CASE Shifts(u)
    <3>1. pc[u] = "shift" /\ handle[u] = 0 /\ Full(0) /\ at[u] >= 1
      BY <1>2, <2>5 DEF Shifts
    <3>2. CASE UNCHANGED <<file, handle>>
      BY <3>1, <3>2 DEF Full, Length
    <3>3. CASE at[u] \in Existing /\ rename(at[u], at[u] + 1)
      <4>1. PICK i \in Existing : i = at[u]
        BY <3>3
      <4>2. i < MaxBackups /\ i >= 1 /\ i \in Int /\ rename(i, i + 1)
        BY <3>1, <3>3, <4>1, Numbers DEF DiskInv, Existing
      <4>3. /\ \A j \in Names \ {i, i + 1} : file'[j] = file[j]
            /\ handle'[u] = 0
        BY <3>1, <4>2, RenameFacts
      <4>4. file'[0] = file[0]
        BY <4>2, <4>3, Numbers
      <4>5. QED
        BY <3>1, <4>3, <4>4 DEF Full, Length
    <3>4. QED
      BY <2>5, <3>2, <3>3 DEF Shifts, Moves
  <2>6. CASE Renames(u)
    BY <2>6 DEF Renames, TypeOK
  <2>7. CASE Reopens(u)
    BY <2>7 DEF Reopens, open, TypeOK
  <2>8. CASE WritesPending(u)
    BY <1>2, <2>8 DEF WritesPending, Appends, TypeOK
  <2>9. CASE ProcessEnds(u)
    BY <2>9 DEF ProcessEnds, Ended, TypeOK
  <2>10. QED
    BY <1>8, <2>1, <2>2, <2>3, <2>4, <2>5, <2>6, <2>7, <2>8, <2>9
    DEF RotatorStep, rotate
<1>9. QED
  BY <1>5, <1>6, <1>7, <1>8 DEF Next, RotatorStep

LEMMA AgeStep ==
    ASSUME TypeOK, DiskInv, AloneInv, SizeInv, AgeInv, [Next]_vars
    PROVE  AgeInv'
  BY AgeOfFiles, AgeOfRotators DEF AgeInv

(* The steps of rotators leave the backups as the cleaner found them, but  *)
(* for renames, which do not happen while it is at work.                   *)
LEMMA CleanerWaits ==
    ASSUME TypeOK, AgeWalkInv, ListInv, SortedInv, UNCHANGED cleaner,
           \/ cleaner.pc = "idle"
           \/ \A j \in Names \ {0} : file'[j] = file[j]
    PROVE  (AgeWalkInv /\ ListInv /\ SortedInv)'
<1>1. CASE cleaner.pc = "idle"
  BY <1>1 DEF AgeWalkInv, ListInv, SortedInv
<1>2. CASE \A j \in Names \ {0} : file'[j] = file[j]
  <2>1. Existing' \ {0} = Existing \ {0} /\ Existing \subseteq Names
    BY <1>2 DEF Existing
  <2>2. \A i \in Existing \ {0} : file'[i] = file[i]
                               /\ (Condemned(i)' <=> Condemned(i))
    BY <1>2, <2>1 DEF Condemned
  <2>3. AgeWalkInv'
    BY <2>1, <2>2 DEF AgeWalkInv
  <2>4. ListInv'
    <3>1. \A i : i \in Existing' \ ({0} \cup cleaner'.walk) =>
                     i \in Existing \ ({0} \cup cleaner.walk)
      BY <2>1
    <3>2. QED
      BY <2>1, <2>2, <3>1 DEF ListInv
  <2>5. SortedInv'
    BY DEF SortedInv
  <2>6. QED
    BY <2>3, <2>4, <2>5
<1>3. QED
  BY <1>1, <1>2

LEMMA CleanerWalks ==
    ASSUME TypeOK, AgeWalkInv, ListInv, SortedInv, Run, Only({"crash"})'
    PROVE  (AgeWalkInv /\ ListInv /\ SortedInv)'
<1>1. CASE cleaner'.pc = "idle"
  BY <1>1 DEF AgeWalkInv, ListInv, SortedInv
<1>2. Aborts \/ Finishes => cleaner'.pc = "idle"
  BY DEF Aborts, Finishes, Resting
<1>3. cleaner \in Cleaner
  BY DEF TypeOK
<1>4. CASE cleanByAge
  <2>1. /\ cleaner'.pc = "age" /\ cleaner'.walk = Existing
        /\ cleaner'.doomed = None /\ file' = file
    BY <1>4 DEF cleanByAge, Resting, fileVars
  <2>2. Existing' = Existing /\ None \notin Existing
    BY <2>1, LogAssumption DEF Existing
  <2>3. QED
    BY <2>1, <2>2 DEF AgeWalkInv, ListInv, SortedInv
<1>5. CASE ChecksAge
  <2>1. PICK i : i = Next_(cleaner.walk)
    OBVIOUS
  <2>2. CASE i \notin Existing
    BY <1>1, <1>2, <1>5, <2>1, <2>2 DEF ChecksAge
  <2>3. CASE i \in Existing
    <3>1. /\ cleaner' = [cleaner EXCEPT !.walk = @ \ {i},
                  !.doomed = IF file[i].stamp < cleaner.cutoff THEN i ELSE None]
          /\ file' = file /\ cleaner.pc = "age" /\ cleaner.doomed = None
      BY <1>5, <2>1, <2>3 DEF ChecksAge
    <3>2. /\ cleaner'.pc = "age" /\ cleaner'.walk = cleaner.walk \ {i}
          /\ cleaner'.cutoff = cleaner.cutoff
          /\ cleaner'.doomed = IF file[i].stamp < cleaner.cutoff THEN i ELSE None
      BY <1>3, <3>1 DEF Cleaner
    <3>3. Existing' = Existing /\ None \notin Existing
      BY <3>1, LogAssumption DEF Existing
    <3>4. \A j \in Existing \ {0} : Condemned(j)' <=> Condemned(j)
      BY <3>1, <3>2 DEF Condemned
    <3>5. \A j \in Existing \ {0} : Condemned(j) => j \in cleaner.walk
      BY <3>1, <3>3 DEF AgeWalkInv
    <3>6. \A j \in Existing \ {0} : j = cleaner'.doomed => Condemned(j)
      BY <3>1, <3>2, <3>3 DEF Condemned
    <3>7. \A j \in Existing \ {0} :
              j # cleaner'.doomed /\ Condemned(j) => j \in cleaner'.walk
      BY <3>2, <3>5 DEF Condemned
    <3>8. AgeWalkInv'
      BY <3>3, <3>4, <3>6, <3>7 DEF AgeWalkInv
    <3>9. QED
      BY <3>2, <3>8 DEF ListInv, SortedInv
  <2>4. QED
    BY <2>2, <2>3
<1>6. CASE RemovesOld
  <2>1. CASE Aborts
    BY <1>1, <1>2, <2>1
  <2>2. CASE /\ cleaner.doomed \in Existing /\ Removes(cleaner.doomed)
             /\ cleaner' = [cleaner EXCEPT !.doomed = None]
    <3>1. PICK i \in Existing : i = cleaner.doomed
      BY <2>2
    <3>2. /\ Existing' = Existing \ {i}
          /\ \A j \in Names \ {i} : file'[j] = file[j]
      BY <2>2, <3>1, RemoveFacts DEF Removes
    <3>3. /\ cleaner.pc = "age" /\ cleaner'.pc = "age"
          /\ cleaner'.walk = cleaner.walk /\ cleaner'.cutoff = cleaner.cutoff
          /\ cleaner'.doomed = None
      BY <1>3, <1>6, <2>2 DEF RemovesOld, Cleaner
    <3>4. \A j \in Existing' : /\ j \in Existing /\ j # cleaner.doomed
                               /\ j # None
                               /\ (Condemned(j)' <=> Condemned(j))
      BY <3>1, <3>2, <3>3, LogAssumption DEF Condemned, Existing
    <3>5. AgeWalkInv'
      BY <3>3, <3>4 DEF AgeWalkInv
    <3>6. QED
      BY <3>3, <3>5 DEF ListInv, SortedInv
  <2>3. QED
    BY <1>6, <2>1, <2>2 DEF RemovesOld
<1>7. CASE cleanByTotalSize
  <2>1. CASE cleaner' = Resting
    BY <1>1, <2>1 DEF Resting
  <2>2. CASE cleaner' = [Resting EXCEPT !.pc = "list", !.walk = Existing]
    <3>1. /\ cleaner'.pc = "list" /\ cleaner'.walk = Existing
          /\ cleaner'.list = << >> /\ file' = file
      BY <1>7, <2>2 DEF cleanByTotalSize, Resting, fileVars
    <3>2. Existing' = Existing /\ Len(cleaner'.list) = 0
      BY <3>1 DEF Existing
    <3>3. QED
      BY <3>1, <3>2 DEF AgeWalkInv, ListInv, SortedInv
  <2>3. QED
    BY <1>7, <2>1, <2>2 DEF cleanByTotalSize
<1>8. CASE Lists
  <2>1. PICK i : i = Next_(cleaner.walk)
    OBVIOUS
  <2>2. CASE i \notin Existing
    BY <1>1, <1>2, <1>8, <2>1, <2>2 DEF Lists
  <2>3. CASE i \in Existing
    <3> DEFINE e == [name |-> i, size |-> Length(i), stamp |-> file[i].stamp]
               N == Len(cleaner.list)
    <3>1. /\ cleaner' = [cleaner EXCEPT !.walk = @ \ {i},
                                        !.total = @ + Length(i),
                                        !.list = Append(@, e)]
          /\ file' = file /\ cleaner.pc = "list"
      BY <1>8, <2>1, <2>3 DEF Lists
    <3>2. /\ cleaner'.pc = "list" /\ cleaner'.walk = cleaner.walk \ {i}
          /\ cleaner'.list = Append(cleaner.list, e)
      BY <1>3, <3>1 DEF Cleaner
    <3>3. Existing' = Existing
      BY <3>1 DEF Existing
    <3>4. /\ N \in Nat /\ Len(cleaner'.list) = N + 1
          /\ \A k \in 1..N : cleaner'.list[k] = cleaner.list[k]
          /\ cleaner'.list[N + 1] = e
      <4>1. cleaner.list \in Seq(Entry) /\ e \in Entry
        BY <2>3, CleanerFacts, FileFacts, LengthFacts DEF Entry
      <4>2. QED
        BY <3>2, <4>1
    <3>5. cleaner'.list[N + 1].name = i /\ cleaner'.list[N + 1].stamp = file[i].stamp
      BY <3>4
    <3> HIDE DEF e, N
    <3>6. \A j \in Existing \ ({0} \cup cleaner.walk) :
              \E k \in 1..N : cleaner.list[k].name = j
      BY <3>1 DEF ListInv, N
    <3>7. \A k \in 1..N : cleaner.list[k].name \in Existing \ {0} =>
              cleaner.list[k].stamp = file[cleaner.list[k].name].stamp
      BY <3>1 DEF ListInv, N
    <3>8. ASSUME NEW j \in Existing' \ ({0} \cup cleaner'.walk)
          PROVE  \E k \in 1..(N + 1) : cleaner'.list[k].name = j
      <4>1. CASE j = i
        BY <3>4, <3>5, <4>1
      <4>2. CASE j # i
        <5>1. PICK k \in 1..N : cleaner.list[k].name = j
          BY <3>2, <3>3, <3>6, <3>8, <4>2
        <5>2. k \in 1..(N + 1) /\ cleaner'.list[k].name = j
          BY <3>4, <5>1
        <5>3. QED
          BY <5>2
      <4>3. QED
        BY <4>1, <4>2
    <3>9. ASSUME NEW k \in 1..(N + 1), cleaner'.list[k].name \in Existing' \ {0}
          PROVE  cleaner'.list[k].stamp = file'[cleaner'.list[k].name].stamp
      <4>1. CASE k = N + 1
        BY <3>1, <3>5, <4>1
      <4>2. CASE k \in 1..N
        BY <3>1, <3>3, <3>4, <3>7, <3>9, <4>2
      <4>3. QED
        BY <3>4, <4>1, <4>2
    <3>10. ListInv'
      BY <3>4, <3>8, <3>9 DEF ListInv
    <3>11. QED
      BY <3>2, <3>10 DEF AgeWalkInv, SortedInv
  <2>4. QED
    BY <2>2, <2>3
<1>9. CASE Sorts
  <2>1. CASE cleaner' = Resting
    BY <1>1, <2>1 DEF Resting
  <2>2. ASSUME NEW s \in Sorted(cleaner.list),
               cleaner' = [cleaner EXCEPT !.pc = "remove", !.list = s]
        PROVE  (AgeWalkInv /\ ListInv /\ SortedInv)'
    <3>1. /\ cleaner'.pc = "remove" /\ cleaner'.list = s
          /\ cleaner'.walk = cleaner.walk /\ cleaner.walk = {}
          /\ file' = file /\ cleaner.pc = "list"
      BY <1>3, <1>9, <2>2 DEF Sorts, Cleaner, fileVars
    <3>2. Existing' = Existing
      BY <3>1 DEF Existing
    <3>3. cleaner.list \in Seq(Entry)
      BY CleanerFacts
    <3>4. /\ \A k \in 1..Len(cleaner.list) : \E m \in 1..Len(s) : s[m] = cleaner.list[k]
          /\ \A m \in 1..Len(s) : \E k \in 1..Len(cleaner.list) : s[m] = cleaner.list[k]
          /\ \A k, m \in 1..Len(s) : k < m => s[k].stamp <= s[m].stamp
      BY <3>3, SortedFacts
    <3>5. ASSUME NEW j \in Existing \ {0}
          PROVE  \E m \in 1..Len(s) : s[m].name = j
      <4>1. PICK k \in 1..Len(cleaner.list) : cleaner.list[k].name = j
        BY <3>1 DEF ListInv
      <4>2. PICK m \in 1..Len(s) : s[m] = cleaner.list[k]
        BY <3>4
      <4>3. s[m].name = j
        BY <4>1, <4>2
      <4>4. QED
        BY <4>3
    <3>6. ASSUME NEW m \in 1..Len(s), s[m].name \in Existing \ {0}
          PROVE  s[m].stamp = file[s[m].name].stamp
      <4>1. PICK k \in 1..Len(cleaner.list) : s[m] = cleaner.list[k]
        BY <3>4
      <4>2. cleaner.list[k].name \in Existing \ {0} =>
                cleaner.list[k].stamp = file[cleaner.list[k].name].stamp
        BY <3>1 DEF ListInv
      <4>3. QED
        BY <3>6, <4>1, <4>2
    <3>7. ListInv'
      BY <3>1, <3>2, <3>5, <3>6 DEF ListInv
    <3>8. QED
      BY <3>1, <3>4, <3>7 DEF AgeWalkInv, SortedInv
  <2>3. QED
    BY <1>9, <2>1, <2>2 DEF Sorts
<1>10. CASE RemovesOldest
  <2>1. /\ cleaner.pc = "remove" /\ cleaner.list # << >>
        /\ cleaner.list \in Seq(Entry)
    BY <1>10, CleanerFacts DEF RemovesOldest
  <2>2. PICK e \in Entry : e = Head(cleaner.list) /\ e = cleaner.list[1]
    BY <2>1, TailFacts
  <2>3. CASE Aborts
    BY <1>1, <1>2, <2>3
  <2>4. CASE /\ e.name \in Existing /\ Removes(e.name)
             /\ cleaner' = [cleaner EXCEPT !.list = Tail(@), !.total = @ - e.size]
    <3>1. PICK i \in Existing : i = e.name
      BY <2>4
    <3>2. /\ Existing' = Existing \ {i}
          /\ \A j \in Names \ {i} : file'[j] = file[j]
          /\ Existing \subseteq Names
      BY <2>4, <3>1, RemoveFacts, CleanerFacts DEF Removes
    <3>3. /\ cleaner'.pc = "remove" /\ cleaner'.walk = cleaner.walk
          /\ cleaner'.list = Tail(cleaner.list) /\ cleaner.walk = {}
      BY <1>3, <2>1, <2>4 DEF Cleaner, SortedInv
    <3>4. PICK N \in Nat : N = Len(cleaner.list)
      BY <2>1, TailFacts
    <3>5. PICK t : t = cleaner'.list
      OBVIOUS
    <3>6. N >= 1 /\ Len(t) = N - 1 /\ \A k \in 1..(N - 1) : t[k] = cleaner.list[k + 1]
      BY <2>1, <3>3, <3>4, <3>5, TailFacts
    <3>7. /\ \A j \in Existing \ {0} : \E k \in 1..N : cleaner.list[k].name = j
          /\ \A k \in 1..N : cleaner.list[k].name \in Existing \ {0} =>
                 cleaner.list[k].stamp = file[cleaner.list[k].name].stamp
          /\ \A k, m \in 1..N :
                 k < m => cleaner.list[k].stamp <= cleaner.list[m].stamp
      BY <2>1, <3>3, <3>4 DEF ListInv, SortedInv
    <3>8. ASSUME NEW j \in Existing' \ {0}
          PROVE  \E k \in 1..(N - 1) : t[k].name = j
      <4>1. PICK k \in 1..N : cleaner.list[k].name = j
        BY <3>2, <3>7, <3>8
      <4>2. k # 1
        BY <2>2, <3>1, <3>2, <3>8, <4>1
      <4>3. k - 1 \in 1..(N - 1) /\ (k - 1) + 1 = k
        BY <3>4, <4>2
      <4>4. t[k - 1] = cleaner.list[k]
        BY <3>6, <4>3
      <4>5. QED
        BY <4>1, <4>3, <4>4
    <3>9. ASSUME NEW k \in 1..(N - 1), t[k].name \in Existing' \ {0}
          PROVE  t[k].stamp = file'[t[k].name].stamp
      <4>1. k + 1 \in 1..N /\ t[k] = cleaner.list[k + 1]
        BY <3>4, <3>6
      <4>2. t[k].stamp = file[t[k].name].stamp
        BY <3>2, <3>7, <3>9, <4>1
      <4>3. QED
        BY <3>2, <3>9, <4>2
    <3>10. \A k, m \in 1..(N - 1) : k < m => t[k].stamp <= t[m].stamp
      <4>1. \A k, m \in 1..(N - 1) : k < m =>
                /\ k + 1 \in 1..N /\ m + 1 \in 1..N /\ k + 1 < m + 1
                /\ t[k] = cleaner.list[k + 1] /\ t[m] = cleaner.list[m + 1]
        BY <3>4, <3>6
      <4>2. QED
        BY <3>7, <4>1
    <3>11. ListInv'
      BY <3>3, <3>5, <3>6, <3>8, <3>9 DEF ListInv
    <3>12. SortedInv'
      BY <3>3, <3>5, <3>6, <3>10 DEF SortedInv
    <3>13. QED
      BY <3>3, <3>11, <3>12 DEF AgeWalkInv
  <2>5. QED
    BY <1>10, <2>2, <2>3, <2>4 DEF RemovesOldest
<1>11. QED
  BY <1>1, <1>2, <1>4, <1>5, <1>6, <1>7, <1>8, <1>9, <1>10 DEF Run

LEMMA KeptFacts ==
    /\ \A y : y \in Kept <=> \E i \in Existing : y \in file[i].lines
    /\ \A y : y \in Kept' <=> \E i \in Existing' : y \in file'[i].lines
  BY DEF Kept

(* When a backup is removed, it is older than every file that is not       *)
(* condemned to go as well.                                                *)
LEMMA RemovedIsOlder ==
    ASSUME TypeOK, AgeInv, CleanerInv, Run, Only({"crash"})', Only({"crash"}),
           NEW i \in Existing, Removed(i), NEW j \in Existing \ {i},
           ~Condemned(j)
    PROVE  i # 0 /\ j < i
<1>1. i # 0 /\ i \in Int /\ j \in Int /\ i >= 0 /\ j >= 0
  BY Numbers DEF Removed, Removes, Only, Existing
<1>2. /\ AgeWalkInv /\ ListInv /\ SortedInv
      /\ \A k, m \in Existing : k < m => file[m].stamp < file[k].stamp
      /\ \A k \in Existing : file[k].stamp \in Nat
  BY FileFacts DEF CleanerInv, AgeInv
<1>3. Existing' = Existing \ {i}
  BY RemoveFacts DEF Removed, Removes
<1>4. SUFFICES ASSUME j # 0 PROVE file[i].stamp <= file[j].stamp
  <2>1. CASE j = 0
    BY <1>1, <2>1
  <2>2. CASE j # 0
    <3>1. file[i].stamp <= file[j].stamp
      BY <1>4, <2>2
    <3>2. ~(file[j].stamp < file[i].stamp)
      BY <1>2, <3>1
    <3>3. ~(i < j)
      BY <1>2, <3>2
    <3>4. QED
      BY <1>1, <3>3
  <2>3. QED
    BY <2>1, <2>2
<1>5. CASE RemovesOld
  <2>1. cleaner.pc = "age" /\ cleaner.doomed \in Existing /\ Removes(cleaner.doomed)
    <3>1. ~Aborts
      BY <1>3 DEF Aborts, Existing
    <3>2. QED
      BY <1>5, <3>1 DEF RemovesOld
  <2>2. cleaner.doomed = i
    BY <1>3, <2>1, RemoveFacts DEF Removes
  <2>3. Condemned(i)
    BY <1>1, <1>2, <2>1, <2>2 DEF AgeWalkInv
  <2>4. file[i].stamp < cleaner.cutoff /\ ~(file[j].stamp < cleaner.cutoff)
    BY <1>4, <2>3 DEF Condemned
  <2>5. cleaner.cutoff \in Int
    BY CleanerFacts
  <2>6. QED
    BY <1>2, <2>4, <2>5
<1>6. CASE RemovesOldest
  <2>1. /\ cleaner.pc = "remove" /\ cleaner.list # << >>
        /\ cleaner.list \in Seq(Entry)
    BY <1>6, CleanerFacts DEF RemovesOldest
  <2>2. PICK e \in Entry : e = Head(cleaner.list) /\ e = cleaner.list[1]
    BY <2>1, TailFacts
  <2>3. e.name \in Existing /\ Removes(e.name)
    <3>1. ~Aborts
      BY <1>3 DEF Aborts, Existing
    <3>2. QED
      BY <1>6, <2>2, <3>1 DEF RemovesOldest
  <2>4. e.name = i
    BY <1>3, <2>3, RemoveFacts DEF Removes
  <2>5. PICK N \in Nat : N = Len(cleaner.list) /\ 1 \in 1..N
    BY <2>1, TailFacts
  <2>6. e.stamp = file[i].stamp
    BY <1>1, <1>2, <2>1, <2>2, <2>4, <2>5 DEF ListInv
  <2>7. cleaner.walk = {}
    BY <1>2, <2>1 DEF SortedInv
  <2>8. PICK k \in 1..N : cleaner.list[k].name = j
    BY <1>2, <1>4, <2>1, <2>5, <2>7 DEF ListInv
  <2>9. cleaner.list[k].stamp = file[j].stamp
    BY <1>2, <1>4, <2>1, <2>5, <2>8 DEF ListInv
  <2>10. k # 1 /\ 1 < k
    BY <2>2, <2>4, <2>5, <2>8
  <2>11. cleaner.list[1].stamp <= cleaner.list[k].stamp
    BY <1>2, <2>1, <2>5, <2>10 DEF SortedInv
  <2>12. QED
    BY <2>2, <2>6, <2>9, <2>11
<1>7. RemovesOld \/ RemovesOldest
  <2>1. file' # file
    BY <1>3 DEF Existing
  <2>2. QED
    BY <2>1 DEF Run, cleanByAge, ChecksAge, cleanByTotalSize, Lists, Sorts,
       Finishes, Aborts, fileVars
<1>8. QED
  BY <1>5, <1>6, <1>7

(* What is condemned stays so until it is removed. *)
LEMMA CondemnedStays ==
    ASSUME TypeOK, CleanerInv, [Next]_vars, Only({"crash"})', Only({"crash"}),
           NEW i \in Existing, ~Condemned(i)', file'[i].stamp = file[i].stamp
    PROVE  ~Condemned(i)
<1> USE DEF Condemned
<1>1. CASE cleaner.pc # "age"
  BY <1>1
<1>2. CASE UNCHANGED cleaner
  BY <1>2
<1>3. CASE Run /\ cleaner.pc = "age"
  <2>1. ~Aborts
    BY <1>3 DEF Aborts, Only
  <2>2. CASE ChecksAge
    <3>1. cleaner'.pc = cleaner.pc /\ cleaner'.cutoff = cleaner.cutoff
      BY <2>1, <2>2 DEF ChecksAge, TypeOK, Cleaner
    <3>2. QED
      BY <3>1
  <2>3. CASE RemovesOld
    <3>1. cleaner'.pc = cleaner.pc /\ cleaner'.cutoff = cleaner.cutoff
      BY <2>1, <2>3 DEF RemovesOld, TypeOK, Cleaner
    <3>2. QED
      BY <3>1
  <2>4. CASE cleanByTotalSize
    <3>1. cleaner.walk = {} /\ cleaner.doomed = None /\ None \notin Existing
      BY <2>4, LogAssumption DEF cleanByTotalSize, Existing
    <3>2. QED
      BY <1>3, <3>1 DEF CleanerInv, AgeWalkInv
  <2>5. QED
    BY <1>3, <2>2, <2>3, <2>4
    DEF Run, cleanByAge, Lists, Sorts, RemovesOldest, Finishes
<1>4. CASE Restart
  BY <1>4 DEF Restart, Only
<1>5. ASSUME NEW r \in Rotators, RotatorStep(r) PROVE UNCHANGED cleaner
  BY <1>5, Others
<1>6. QED
  BY <1>1, <1>2, <1>3, <1>4, <1>5 DEF Next, RotatorStep, vars

LEMMA LatestStep ==
    ASSUME TypeOK, DiskInv, SizeInv, RoomInv, HistoryInOrder, AgeInv,
           CleanerInv, [Next]_vars, Only({"crash"})'
    PROVE  LatestKept'
<1> DEFINE Latest(f, i, w, K) == \A x \in f[i].lines : x..w \subseteq K
<1>1. mishaps \subseteq mishaps' /\ mishaps' \subseteq {"crash"}
      /\ Only({"crash"})
  BY KindOfStep DEF Only
<1>2. /\ AgeWalkInv /\ LatestKept
      /\ \A i \in Existing : ~Condemned(i) => Latest(file, i, written, Kept)
      /\ \A i, j \in Existing : i < j =>
             \A x \in file[i].lines, y \in file[j].lines : y < x
  BY <1>1 DEF CleanerInv, LatestKept, HistoryInOrder, Only, Mishap
<1>3. /\ Existing \subseteq Names /\ written \in Nat
      /\ \A i \in Existing : file[i].lines \subseteq 1..written
  BY CleanerFacts DEF TypeOK, DiskInv
<1>4. CASE Quiet
  <2>1. /\ Existing' = Existing /\ file' = file /\ written' = written
        /\ Kept' = Kept
    BY <1>4 DEF Quiet, fileVars, Existing, Kept
  <2>2. \A i \in Existing : ~Condemned(i)' => ~Condemned(i)
    BY <1>1, <2>1, CondemnedStays
  <2>3. QED
    BY <1>2, <2>1, <2>2 DEF LatestKept
<1>5. ASSUME NEW r \in Rotators, Opened(r) PROVE LatestKept'
  <2>1. PICK was \in Nat : open(r, was)
    BY <1>5 DEF Opened
  <2>2. /\ Existing' = Existing \cup {0} /\ written' = written
        /\ \A j \in Existing : file'[j] = file[j]
        /\ 0 \notin Existing => file'[0].lines = {}
        /\ cleaner' = cleaner
    BY <1>5, <2>1, OpenFacts DEF Opened
  <2>3. \A y \in Kept : y \in Kept'
    BY <2>2, KeptFacts
  <2>4. \A i \in Existing : Condemned(i)' <=> Condemned(i)
    BY <2>2 DEF Condemned
  <2>5. ASSUME NEW i \in Existing', ~Condemned(i)', NEW x \in file'[i].lines
        PROVE  x..written \subseteq Kept'
    <3>1. i \in Existing /\ file'[i] = file[i] /\ ~Condemned(i)
      BY <2>2, <2>4, <2>5
    <3>2. x..written \subseteq Kept
      BY <1>2, <2>5, <3>1
    <3>3. QED
      BY <2>3, <3>2
  <2>6. QED
    BY <2>2, <2>5 DEF LatestKept
<1>6. ASSUME NEW r \in Rotators, Appended(r) PROVE LatestKept'
  <2>1. PICK n \in Lengths : Appends(r, n)
    BY <1>6 DEF Appended
  <2>2. handle[r] = 0 /\ 0 \in Existing
    BY <1>1, <1>6 DEF Appended, DiskInv, AgeInv, SizeInv, Only, NoName
  <2>3. n \in Nat /\ n >= 1
    BY Numbers
  <2>4. /\ Existing' = Existing /\ written' = written + n
        /\ \A j \in Names : j # 0 => file'[j] = file[j]
        /\ file'[0].lines = file[0].lines \cup (written + 1)..(written + n)
        /\ cleaner' = cleaner
    BY <2>1, <2>2, AppendFacts
  <2>5. \A y \in Kept : y \in Kept'
    BY <1>3, <2>4, KeptFacts
  <2>6. \A y \in (written + 1)..(written + n) : y \in Kept'
    BY <2>2, <2>4, KeptFacts
  <2>7. \A i \in Existing : Condemned(i)' <=> Condemned(i)
    BY <1>3, <2>4 DEF Condemned
  <2>8. ASSUME NEW i \in Existing, ~Condemned(i)', NEW x \in file'[i].lines,
               NEW y \in x..(written + n)
        PROVE  y \in Kept'
    <3>1. CASE x \in file[i].lines
      <4>1. x \in 1..written /\ x..written \subseteq Kept
        BY <1>2, <1>3, <2>7, <2>8, <3>1
      <4>2. y \in x..written \/ y \in (written + 1)..(written + n)
        BY <1>3, <2>3, <2>8, <4>1
      <4>3. QED
        BY <2>5, <2>6, <4>1, <4>2
    <3>2. CASE x \in (written + 1)..(written + n)
      <4>1. y \in (written + 1)..(written + n)
        BY <1>3, <2>3, <2>8, <3>2
      <4>2. QED
        BY <2>6, <4>1
    <3>3. x \in file[i].lines \/ x \in (written + 1)..(written + n)
      BY <1>3, <2>4, <2>8
    <3>4. QED
      BY <3>1, <3>2, <3>3
  <2>9. QED
    BY <2>4, <2>8 DEF LatestKept
<1>7. ASSUME NEW r \in Rotators, Renamed(r) PROVE LatestKept'
  <2>1. PICK i \in Existing : i = at[r]
    BY <1>7 DEF Renamed
  <2>2. i < MaxBackups /\ rename(i, i + 1) /\ written' = written
    BY <1>7, <2>1 DEF Renamed, DiskInv
  <2>3. \A j \in Existing' : /\ Source(i, j) \in Existing
                             /\ file'[j] = file[Source(i, j)]
    BY <2>2, RenameKeepsOrder
  <2>4. /\ Existing' = (Existing \ {i}) \cup {i + 1} /\ i + 1 \in Names
        /\ file'[i + 1] = file[i]
        /\ \A j \in Names \ {i, i + 1} : file'[j] = file[j]
    BY <2>2, RenameFacts
  <2>5. cleaner.pc = "idle"
    BY <1>1, <1>7 DEF Renamed, Racing
  <2>6. i + 1 \in Existing => i + 1 = MaxBackups
    BY <1>1, <1>7, <2>1, Numbers DEF RoomInv, Renamed, Existing, TypeOK
  <2>7. ASSUME NEW j \in Existing', NEW x \in file'[j].lines, NEW y \in x..written
        PROVE  y \in Kept'
    <3>1. PICK s \in Existing : s = Source(i, j) /\ x \in file[s].lines
      BY <2>3, <2>7
    <3>2. s # i + 1
      BY <2>4, <3>1, <1>3, Numbers DEF Source
    <3>3. y \in Kept
      BY <1>2, <2>5, <2>7, <3>1 DEF Condemned
    <3>4. PICK k \in Existing : y \in file[k].lines
      BY <3>3, KeptFacts
    <3>5. CASE k = i
      BY <2>4, <3>4, <3>5, KeptFacts
    <3>6. CASE k = i + 1
      <4>1. k = MaxBackups /\ s < k
        BY <1>3, <2>6, <3>2, <3>6, Numbers
      <4>2. y < x
        BY <1>2, <3>1, <3>4, <4>1
      <4>3. x \in 1..written
        BY <1>3, <3>1
      <4>4. QED
        BY <1>3, <2>7, <4>2, <4>3
    <3>7. CASE k # i /\ k # i + 1
      <4>1. k \in Existing' /\ file'[k] = file[k]
        BY <1>3, <2>4, <3>7
      <4>2. QED
        BY <3>4, <4>1, KeptFacts
    <3>8. QED
      BY <3>5, <3>6, <3>7
  <2>8. QED
    BY <2>2, <2>7 DEF LatestKept
<1>8. ASSUME Run, NEW i \in Existing, Removed(i) PROVE LatestKept'
  <2>1. /\ Existing' = Existing \ {i} /\ written' = written
        /\ \A j \in Names \ {i} : file'[j] = file[j]
    BY <1>8, RemoveFacts DEF Removed, Removes
  <2>2. ASSUME NEW j \in Existing', ~Condemned(j)', NEW x \in file'[j].lines,
               NEW y \in x..written
        PROVE  y \in Kept'
    <3>1. j \in Existing \ {i} /\ file'[j] = file[j]
      BY <1>3, <2>1
    <3>2. ~Condemned(j)
      BY <1>1, <2>2, <3>1, CondemnedStays
    <3>3. y \in Kept
      BY <1>2, <2>2, <3>1, <3>2
    <3>4. PICK k \in Existing : y \in file[k].lines
      BY <3>3, KeptFacts
    <3>5. CASE k = i
      <4>1. j < i
        BY <1>1, <1>8, <3>1, <3>2, RemovedIsOlder
      <4>2. y < x
        BY <1>2, <2>2, <3>1, <3>4, <3>5, <4>1
      <4>3. x \in 1..written
        BY <1>3, <2>2, <3>1
      <4>4. QED
        BY <1>3, <2>2, <4>2, <4>3
    <3>6. CASE k # i
      <4>1. k \in Existing' /\ file'[k] = file[k]
        BY <1>3, <2>1, <3>6
      <4>2. QED
        BY <3>4, <4>1, KeptFacts
    <3>7. QED
      BY <3>5, <3>6
  <2>3. QED
    BY <2>1, <2>2 DEF LatestKept
<1>9. ASSUME NEW i \in Existing, Removed(i), ~Run PROVE FALSE
  <2>1. ~\E r \in Rotators : RotatorStep(r)
    BY <1>9, Others DEF Removed
  <2>2. cleaner' # cleaner /\ Existing' = Existing \ {i}
    BY <1>9, RemoveFacts DEF Removed, Removes
  <2>3. QED
    BY <1>9, <2>1, <2>2
    DEF Next, RotatorStep, Restart, vars, fileVars, Existing
<1>10. QED
  BY <1>4, <1>5, <1>6, <1>7, <1>8, <1>9, KindOfStep

LEMMA CleanerStep ==
    ASSUME TypeOK, DiskInv, SizeInv, RoomInv, HistoryInOrder, AgeInv,
           CleanerInv, [Next]_vars
    PROVE  CleanerInv'
<1>1. SUFFICES ASSUME Only({"crash"})'
               PROVE  (AgeWalkInv /\ ListInv /\ SortedInv)'
  BY LatestStep DEF CleanerInv
<1>2. /\ mishaps' \subseteq {"crash"} /\ Only({"crash"})
      /\ AgeWalkInv /\ ListInv /\ SortedInv
  BY <1>1, KindOfStep DEF Only, CleanerInv
<1>3. CASE Run
  BY <1>1, <1>2, <1>3, CleanerWalks
<1>4. CASE Restart
  BY <1>4 DEF Restart, Resting, AgeWalkInv, ListInv, SortedInv
<1>5. CASE UNCHANGED vars
  BY <1>2, <1>5, CleanerWaits DEF vars, fileVars
<1>6. ASSUME NEW r \in Rotators, RotatorStep(r)
      PROVE  (AgeWalkInv /\ ListInv /\ SortedInv)'
  <2>1. UNCHANGED cleaner
    BY <1>6, Others
  <2>2. CASE Quiet
    BY <1>2, <2>1, <2>2, CleanerWaits DEF Quiet, fileVars
  <2>3. CASE Opened(r)
    <3>1. PICK was : open(r, was)
      BY <2>3 DEF Opened
    <3>2. \A j \in Names \ {0} : file'[j] = file[j]
      BY <3>1 DEF open, TypeOK
    <3>3. QED
      BY <1>2, <2>1, <3>2, CleanerWaits
  <2>4. CASE Appended(r)
    <3>1. handle[r] = 0
      BY <1>2, <2>4 DEF Appended, AgeInv, SizeInv, Only
    <3>2. \A j \in Names \ {0} : file'[j] = file[j]
      BY <2>4, <3>1, AppendFacts DEF Appended
    <3>3. QED
      BY <1>2, <2>1, <3>2, CleanerWaits
  <2>5. CASE Renamed(r)
    <3>1. cleaner.pc = "idle"
      BY <1>2, <2>5 DEF Renamed, Racing
    <3>2. QED
      BY <1>2, <2>1, <3>1, CleanerWaits
  <2>6. QED
    BY <1>6, <2>2, <2>3, <2>4, <2>5, KindOfRotatorStep
<1>7. QED
  BY <1>3, <1>4, <1>5, <1>6 DEF Next, RotatorStep
-----------------------------------------------------------------------------
(* As long as nothing has happened at all *)

LEMMA MissingStep ==
    ASSUME TypeOK, DiskInv, AloneInv, RoomInv, AgeInv, CleanerInv, NoneMissing,
           [Next]_vars
    PROVE  NoneMissing'
<1> DEFINE Gap(k) == \E u \in Rotators : pc[u] = "shift" /\ at[u] = k - 1
<1>1. SUFFICES ASSUME mishaps' = {}, NEW j \in Existing',
                      NEW k \in 1..MaxBackups, k < j, ~Condemned(j)'
               PROVE  k \in Existing' \/ Gap(k)'
  BY DEF NoneMissing
<1>2. mishaps = {} /\ Only({"crash"}) /\ Only({"crash"})'
  BY <1>1, KindOfStep DEF Only
<1>3. \A i \in Existing, m \in 1..MaxBackups :
          m < i /\ ~Condemned(i) => m \in Existing \/ Gap(m)
  BY <1>2 DEF NoneMissing
<1>4. /\ Existing \subseteq Names /\ Names \subseteq Int
      /\ \A i \in Names : i >= 0 /\ i <= MaxBackups
      /\ k \in Names /\ k >= 1 /\ k \in Int /\ j # 0
      /\ MaxBackups \in Nat
  BY <1>1, Numbers, CleanerFacts
<1>5. ASSUME j \in Existing, file'[j] = file[j] PROVE ~Condemned(j)
  BY <1>1, <1>2, <1>5, CondemnedStays
(* Steps that rename nothing *)
<1>6. ASSUME NEW i \in Existing, Removed(i), Run
      PROVE  k \in Existing' \/ Gap(k)'
  <2>1. /\ Existing' = Existing \ {i} /\ pc' = pc /\ at' = at
        /\ \A m \in Names \ {i} : file'[m] = file[m]
    BY <1>6, RemoveFacts DEF Removed, Removes
  <2>2. j \in Existing \ {i} /\ ~Condemned(j)
    BY <1>1, <1>4, <1>5, <2>1
  <2>3. j < i
    BY <1>2, <1>6, <2>2, RemovedIsOlder
  <2>4. k # i
    BY <1>1, <1>4, <2>2, <2>3
  <2>5. QED
    BY <1>1, <1>3, <2>1, <2>2, <2>4
<1>7. CASE UNCHANGED <<file, pc, at>>
  <2>1. j \in Existing /\ Existing' = Existing
    BY <1>1, <1>7 DEF Existing
  <2>2. QED
    BY <1>1, <1>3, <1>5, <1>7, <2>1
<1>8. CASE Run
  BY <1>6, <1>7, <1>8, KindOfRun
<1>9. CASE Restart
  <2>1. j \in Existing /\ Existing' = Existing /\ file' = file
    BY <1>1, <1>9 DEF Restart, fileVars, Existing
  <2>2. \A u \in Rotators : pc[u] # "shift"
    BY <1>1, <1>9 DEF Restart
  <2>3. k \in Existing
    BY <1>1, <1>3, <1>5, <2>1, <2>2
  <2>4. QED
    BY <2>1, <2>3
<1>10. ASSUME NEW r \in Rotators, RotatorStep(r)
       PROVE  k \in Existing' \/ Gap(k)'
  <2>1. /\ \A u \in Rotators \ {r} : pc[u] = "off" /\ pc'[u] = "off"
        /\ cleaner' = cleaner
    BY <1>1, <1>10, Others, OthersAreOff
  <2>2. CASE /\ Quiet \/ Opened(r) \/ Appended(r)
             /\ pc[r] # "shift"
    <3>1. /\ \A m \in Names \ {0} : m \in Existing' <=> m \in Existing
          /\ \A m \in Existing \ {0} : file'[m].stamp = file[m].stamp
      <4>1. CASE Quiet
        BY <4>1 DEF Quiet, fileVars, Existing
      <4>2. CASE Opened(r)
        <5>1. PICK was \in Nat : open(r, was)
          BY <4>2 DEF Opened
        <5>2. /\ Existing' = Existing \cup {0}
              /\ \A m \in Existing : file'[m] = file[m]
          BY <5>1, OpenFacts
        <5>3. QED
          BY <5>2
      <4>3. CASE Appended(r)
        <5>1. handle[r] \in {0, NoName}
          BY <1>2, <4>3 DEF AloneInv, Appended
        <5>2. /\ Existing' = Existing
              /\ \A m \in Names : m # handle[r] => file'[m] = file[m]
          BY <4>3, AppendFacts DEF Appended
        <5>3. QED
          BY <1>4, <5>1, <5>2, Numbers
      <4>4. QED
        BY <2>2, <4>1, <4>2, <4>3
    <3>2. j \in Existing /\ ~Condemned(j)
      <4>1. j \in Names
        BY <1>1 DEF Existing
      <4>2. j \in Existing
        BY <1>1, <1>4, <3>1, <4>1
      <4>3. QED
        BY <1>1, <1>2, <1>4, <3>1, <4>2, CondemnedStays
    <3>3. ~Gap(k)
      BY <2>1, <2>2
    <3>4. k \in Existing
      BY <1>1, <1>3, <3>2, <3>3
    <3>5. QED
      BY <1>4, <3>1, <3>4, Numbers
  <2>3. CASE Shifts(r) \/ Renames(r)
    <3>1. PICK i \in 0..(MaxBackups - 1) : i = at[r]
      BY <2>3, Numbers DEF DiskInv, TypeOK
    <3>2. /\ pc[r] = "shift" /\ Moves(i) /\ "fault" \notin mishaps'
          /\ i >= 1 => pc'[r] = "shift" /\ at'[r] = i - 1
      BY <1>1, <2>3, <3>1, Numbers DEF Shifts, Renames, TypeOK
    <3>3. \A m \in 1..MaxBackups : Gap(m) <=> m = i + 1
      <4>1. \A m \in 1..MaxBackups : Gap(m) <=> at[r] = m - 1
        BY <2>1, <3>2
      <4>2. QED
        BY <3>1, <4>1
    <3>4. i >= 1 => Gap(i)'
      BY <3>2
    <3>5. CASE i \in Existing /\ rename(i, i + 1)
      <4>1. i < MaxBackups
        BY <1>4, <3>1
      <4>2. /\ Existing' = (Existing \ {i}) \cup {i + 1}
            /\ \A m \in Names \ {i, i + 1} : file'[m] = file[m]
        BY <3>5, <4>1, RenameFacts
      <4>3. CASE k = i \/ k = i + 1
        BY <1>4, <3>4, <4>2, <4>3
      <4>4. CASE k # i /\ k # i + 1
        <5>1. CASE j # i + 1
          <6>1. j \in Existing /\ file'[j] = file[j]
            BY <1>1, <1>4, <4>2, <5>1
          <6>2. k \in Existing
            BY <1>1, <1>3, <1>5, <3>3, <4>4, <6>1
          <6>3. QED
            BY <4>2, <4>4, <6>2
        <5>2. CASE j = i + 1
          <6>1. cleaner.pc = "idle"
            BY <1>1, <2>3, <3>1, <3>5 DEF Shifts, Renames, Moves, Racing,
               rename, Existing
          <6>2. ~Condemned(i) /\ k < i
            BY <1>1, <1>4, <3>1, <4>4, <5>2, <6>1 DEF Condemned
          <6>3. k \in Existing
            BY <1>1, <1>3, <3>3, <3>5, <4>4, <6>2
          <6>4. QED
            BY <4>2, <4>4, <6>3
        <5>3. QED
          BY <5>1, <5>2
      <4>5. QED
        BY <4>3, <4>4
    <3>6. CASE i \notin Existing /\ UNCHANGED file
      <4>1. i # 0
        <5>1. handle[r] = 0
          BY <1>2, <3>2 DEF AgeInv
        <5>2. 0 \in Existing
          BY <5>1 DEF DiskInv, NoName
        <5>3. QED
          BY <3>6, <5>2
      <4>2. j \in Existing /\ Existing' = Existing /\ ~Condemned(j)
        BY <1>1, <1>5, <3>6 DEF Existing
      <4>3. ~(i < j)
        <5>1. i \in 1..MaxBackups /\ i # i + 1
          BY <1>4, <3>1, <4>1
        <5>2. QED
          BY <1>3, <3>3, <3>6, <4>2, <5>1
      <4>4. k < i /\ k # i + 1
        BY <1>1, <1>4, <3>1, <3>6, <4>2, <4>3
      <4>5. QED
        BY <1>1, <1>3, <3>3, <4>2, <4>4
    <3>7. QED
      BY <3>2, <3>5, <3>6 DEF Moves
  <2>4. CASE ~Shifts(r) /\ ~Renames(r)
    <3>1. pc[r] # "shift"
      BY <1>1, <1>10, <2>4 DEF RotatorStep, rotate, NewLogRotator, StartsPlain,
         Write, WritesPlain, Reopens, WritesPending, WriteFails, ProcessEnds
    <3>2. ~Renamed(r)
      BY <3>1 DEF Renamed
    <3>3. QED
      BY <1>10, <2>2, <3>1, <3>2, KindOfRotatorStep
  <2>5. QED
    BY <2>3, <2>4
<1>11. CASE UNCHANGED vars
  BY <1>7, <1>11 DEF vars, fileVars, rotatorVars
<1>12. QED
  BY <1>8, <1>9, <1>10, <1>11 DEF Next, RotatorStep
-----------------------------------------------------------------------------
(* The invariant and what follows from it *)

LEMMA InvInit == Init => IInv
<1> SUFFICES ASSUME Init PROVE IInv
  OBVIOUS
<1> USE DEF Init
<1>1. Existing = {}
  BY DEF Existing
<1>2. TypeOK
  <2>1. /\ 0 \in 0..MaxLines /\ 0 \in 0..MaxBackups
        /\ file \in [Names -> File \cup {None}]
    BY Numbers
  <2>2. cleaner \in Cleaner
    BY DEF Cleaner, Resting
  <2>3. QED
    BY <2>1, <2>2 DEF TypeOK
<1>3. DiskInv
  BY <1>1, Numbers DEF DiskInv
<1>4. AloneInv /\ SizeInv /\ RoomInv
  BY DEF AloneInv, SizeInv, RoomInv, Busy
<1>5. HistoryInOrder /\ FilesWithinLimit
  BY <1>1 DEF HistoryInOrder, FilesWithinLimit
<1>6. AgeInv
  BY <1>1 DEF AgeInv
<1>7. CleanerInv
  BY <1>1 DEF CleanerInv, AgeWalkInv, ListInv, SortedInv, LatestKept, Resting
<1>8. NoneMissing
  BY <1>1 DEF NoneMissing
<1>9. QED
  BY <1>2, <1>3, <1>4, <1>5, <1>6, <1>7, <1>8 DEF IInv

LEMMA InvStep == IInv /\ [Next]_vars => IInv'
<1> SUFFICES ASSUME IInv, [Next]_vars PROVE IInv'
  OBVIOUS
<1> USE DEF IInv
<1>1. TypeOK' /\ DiskInv' /\ AloneInv'
  BY TypeStep, DiskStep, AloneStep
<1>2. SizeInv' /\ RoomInv' /\ HistoryInOrder' /\ FilesWithinLimit'
  BY SizeStep, RoomStep, HistoryStep, LimitStep
<1>3. AgeInv' /\ CleanerInv' /\ NoneMissing'
  BY AgeStep, CleanerStep, MissingStep
<1>4. QED
  BY <1>1, <1>2, <1>3

(* The inductive invariant: what is known of the directory, the rotators   *)
(* and the cleaner after each kind of mishap, for any numbers of them.     *)
THEOREM Invariance == Spec => []IInv
  BY InvInit, InvStep, PTL DEF Spec

(* log_starter.go, log_cleaner.go: every variable keeps its type.          *)
THEOREM TypeCorrect == Spec => []TypeOK
<1>1. IInv => TypeOK
  BY DEF IInv
<1>2. QED
  BY <1>1, Invariance, PTL

(* rotate: a backup with a higher number holds older lines, whatever       *)
(* fails, crashes and races, if no two rotators had the file open at once. *)
THEOREM HistoryInOrderHolds == Spec => []HistoryInOrder
<1>1. IInv => HistoryInOrder
  BY DEF IInv
<1>2. QED
  BY <1>1, Invariance, PTL

(* Write and rotate: no file exceeds MaxSize, whatever crashes and races.  *)
THEOREM FilesWithinLimitHolds == Spec => []FilesWithinLimit
<1>1. IInv => FilesWithinLimit
  BY DEF IInv
<1>2. QED
  BY <1>1, Invariance, PTL

(* rotate and the cleaner's walks: what the files hold is always the       *)
(* latest that was written, without a gap, over any number of crashes.     *)
THEOREM OldestGoFirstHolds == Spec => []OldestGoFirst
<1>1. IInv => OldestGoFirst
  <2> SUFFICES ASSUME IInv, Only({"crash"}), cleaner.pc # "age", NEW x \in Kept
               PROVE  x..written \subseteq Kept
    BY DEF OldestGoFirst
  <2>1. PICK i \in Existing : x \in file[i].lines
    BY KeptFacts
  <2>2. ~Condemned(i) /\ LatestKept
    BY DEF IInv, CleanerInv, Condemned
  <2>3. QED
    BY <2>1, <2>2 DEF LatestKept
<1>2. QED
  BY <1>1, Invariance, PTL

LEMMA DroppedByRename ==
    ASSUME IInv, [Next]_vars, UNCHANGED cleaner, NEW x \in Dropped
    PROVE  \E r \in Rotators, i \in Existing :
              /\ Renamed(r) /\ i = at[r] /\ i < MaxBackups
              /\ i + 1 \in Existing /\ Dropped \subseteq file[i + 1].lines
<1>1. TypeOK /\ DiskInv
  BY DEF IInv
<1>2. x \in Kept /\ x \notin Kept' /\ Existing \subseteq Names
  BY <1>1, CleanerFacts DEF Dropped
<1>3. CASE Quiet
  BY <1>2, <1>3 DEF Quiet, fileVars, Kept, Existing
<1>4. ASSUME NEW r \in Rotators, Opened(r) PROVE FALSE
  <2>1. PICK was \in Nat : open(r, was)
    BY <1>4 DEF Opened
  <2>2. /\ Existing' = Existing \cup {0}
        /\ \A j \in Existing : file'[j] = file[j]
    BY <1>1, <2>1, OpenFacts
  <2>3. QED
    BY <1>2, <2>2, KeptFacts
<1>5. ASSUME NEW r \in Rotators, Appended(r) PROVE FALSE
  <2>1. PICK n \in Lengths : Appends(r, n)
    BY <1>5 DEF Appended
  <2>2. /\ Existing' = Existing
        /\ \A j \in Names : j # handle[r] => file'[j] = file[j]
        /\ handle[r] \in Existing =>
               file[handle[r]].lines \subseteq file'[handle[r]].lines
    BY <1>1, <2>1, AppendFacts
  <2>3. \A j \in Existing : file[j].lines \subseteq file'[j].lines
    BY <1>2, <2>2
  <2>4. QED
    BY <1>2, <2>2, <2>3, KeptFacts
<1>6. ASSUME NEW r \in Rotators, Renamed(r)
      PROVE  \E i \in Existing :
                /\ i = at[r] /\ i < MaxBackups
                /\ i + 1 \in Existing /\ Dropped \subseteq file[i + 1].lines
  <2>1. PICK i \in Existing : i = at[r]
    BY <1>6 DEF Renamed
  <2>2. i < MaxBackups /\ rename(i, i + 1)
    BY <1>1, <1>6, <2>1 DEF Renamed, DiskInv
  <2>3. /\ Existing' = (Existing \ {i}) \cup {i + 1}
        /\ file'[i + 1] = file[i]
        /\ \A j \in Names \ {i, i + 1} : file'[j] = file[j]
    BY <1>1, <2>2, RenameFacts
  <2>4. ASSUME NEW y \in Dropped
        PROVE  i + 1 \in Existing /\ y \in file[i + 1].lines
    <3>1. y \notin Kept' /\ \E k \in Existing : y \in file[k].lines
      BY KeptFacts DEF Dropped
    <3>2. PICK k \in Existing : y \in file[k].lines
      BY <3>1
    <3>3. k # i
      BY <2>3, <3>1, <3>2, KeptFacts
    <3>4. k = i + 1
      BY <1>2, <2>3, <3>1, <3>2, <3>3, KeptFacts
    <3>5. QED
      BY <3>2, <3>4
  <2>5. QED
    BY <2>1, <2>2, <2>4
<1>7. ASSUME NEW i \in Existing, Removed(i) PROVE FALSE
  BY <1>7 DEF Removed
<1>8. QED
  BY <1>1, <1>2, <1>3, <1>4, <1>5, <1>6, <1>7, KindOfStep

LEMMA BackupsKeptStep == IInv /\ [Next]_vars => KeepsBackups
<1> SUFFICES ASSUME IInv, [Next]_vars, UNCHANGED cleaner, Dropped # {}
             PROVE  /\ mishaps' \cap {"clash", "fault"} = {} =>
                           /\ MaxBackups \in Existing
                           /\ Dropped \subseteq file[MaxBackups].lines
                    /\ mishaps' = {} =>
                           \A i \in 1..MaxBackups : i \in Existing /\ Full(i)
  BY DEF KeepsBackups
<1>1. TypeOK /\ DiskInv /\ mishaps \subseteq mishaps'
  BY KindOfStep DEF IInv
<1>2. PICK r \in Rotators, i \in Existing :
        /\ Renamed(r) /\ i = at[r] /\ i < MaxBackups
        /\ i + 1 \in Existing /\ Dropped \subseteq file[i + 1].lines
  BY DroppedByRename
<1>3. pc[r] = "shift" /\ file[i + 1] # None /\ i \in Int
  BY <1>2, Numbers DEF Renamed, Existing
<1>4. mishaps' \cap {"clash", "fault"} = {} => i + 1 = MaxBackups
  BY <1>1, <1>2, <1>3, Numbers DEF IInv, RoomInv
<1>5. ASSUME mishaps' = {}, NEW k \in 1..MaxBackups
      PROVE  k \in Existing /\ Full(k)
  <2>1. mishaps = {} /\ Only({"crash"}) /\ i + 1 = MaxBackups
    BY <1>1, <1>4, <1>5 DEF Only
  <2>2. cleaner.pc = "idle"
    BY <1>2, <1>5 DEF Renamed, Racing
  <2>3. k \in Existing
    <3>1. CASE k = MaxBackups
      BY <1>2, <2>1, <3>1
    <3>2. CASE k < MaxBackups
      <4>1. k \in Existing \/ \E u \in Rotators : pc[u] = "shift" /\ at[u] = k - 1
        BY <1>2, <2>1, <2>2, <3>2 DEF IInv, NoneMissing, Condemned
      <4>2. \A u \in Rotators : pc[u] = "shift" => u = r
        BY <1>3, <2>1 DEF IInv, AloneInv
      <4>3. at[r] # k - 1
        BY <1>2, <1>3, <2>1, <3>2, Numbers
      <4>4. QED
        BY <4>1, <4>2, <4>3
    <3>3. QED
      BY <3>1, <3>2, Numbers
  <2>4. Full(k)
    BY <2>1, <2>3 DEF IInv, AgeInv
  <2>5. QED
    BY <2>3, <2>4
<1>6. QED
  BY <1>2, <1>4, <1>5

(* rotate: apart from the cleaner, lines disappear with the last backup    *)
(* only, and, when nothing went wrong, only when all backups are full.     *)
THEOREM BackupsAreKeptHolds == Spec => BackupsAreKept
<1>1. IInv /\ [Next]_vars => [KeepsBackups]_vars
  BY BackupsKeptStep
<1>2. QED
  BY <1>1, Invariance, PTL DEF Spec, BackupsAreKept
=============================================================================
