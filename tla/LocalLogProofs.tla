--------------------------- MODULE LocalLogProofs ---------------------------
(***************************************************************************)
(* Proofs about the local log: whatever fails, whoever records and whenever*)
(* the process ends, its lines stay in order and its files stay bounded,   *)
(* for any number of threads, of archives and of bytes.                    *)
(***************************************************************************)
EXTENDS LocalLog, FiniteSetTheorems, TLAPS

File == [lines : Seq(Nat), bytes : Nat]

TypeOK ==
  /\ DOMAIN files \subseteq 0 .. Beyond
  /\ files \in [DOMAIN files -> File]
  /\ running \in BOOLEAN
  /\ health \in {"Available", "Unavailable"}
  /\ handle \in Int
  /\ length \in Nat
  /\ lock \in Threads \union {Free}
  /\ step \in {"None", "Remove", "Shift", "Reopen", "Write"}
  /\ index \in 0 .. ArchiveCount
  /\ line \in [number : Nat, bytes : 1 .. LongestLine]
  /\ failed \subseteq Threads
  /\ lines \in Nat
  /\ written \subseteq 0 .. lines

(* Who may do what: only the holder of the lock is in the middle of a      *)
(* record, it has a writer, and it has not failed before.                  *)
HolderRecords ==
  /\ lock = Free <=> step = "None"
  /\ lock # Free => health = "Available" /\ lock \notin failed
  /\ health = "Available" => running
  /\ ~running => failed = {}
  /\ step # "None" => line.number = lines /\ lines \notin written

(* The writer is on the newest file there is.  A writer whose file has been*)
(* removed is left with no file at all: what it writes is lost, but nothing*)
(* older is kept either.                                                   *)
WriterIsOnNewest ==
  /\ health = "Unavailable" => handle = Nowhere
  /\ health = "Available" /\ handle = Nowhere => DOMAIN files = {}
  /\ handle # Nowhere =>
       /\ handle \in DOMAIN files
       /\ \A j \in DOMAIN files : handle <= j

(* A rotation finds the place it renames to free.                          *)
RotationHasRoom ==
  /\ health = "Available" => Beyond \notin DOMAIN files
  /\ step = "Shift" => index >= 1 /\ index \notin DOMAIN files
  /\ step = "Reopen" => Current \notin DOMAIN files

(* The file is longer than the writer takes it to be by what failed records*)
(* have left in it: each thread that has failed did so once.               *)
LengthIsTrusted ==
  /\ handle # Nowhere =>
       files[handle].bytes <= length + Cardinality(failed) * LongestLine
  /\ step = "Write" => length + line.bytes <= MaximumFileBytes

LogInv ==
  /\ TypeOK
  /\ HolderRecords
  /\ WriterIsOnNewest
  /\ RotationHasRoom
  /\ LengthIsTrusted
  /\ LinesStayInOrder
  /\ FilesStayBounded

-----------------------------------------------------------------------------
(* What the operations on the files do to the order of the lines.          *)

IsFiles(fs) ==
  /\ DOMAIN fs \subseteq 0 .. Beyond
  /\ fs \in [DOMAIN fs -> File]

Holds(file, n) == \E k \in DOMAIN file.lines : file.lines[k] = n

InOrder(fs, w) ==
  /\ \A i \in DOMAIN fs : \A k, m \in DOMAIN fs[i].lines :
       k < m => fs[i].lines[k] < fs[i].lines[m]
  /\ \A i, j \in DOMAIN fs : \A m, n \in w :
       i < j /\ Holds(fs[j], m) /\ Holds(fs[i], n) => m < n
  /\ \A i \in DOMAIN fs : \A k \in DOMAIN fs[i].lines :
       /\ fs[i].lines[k] \in w
       /\ \A n \in w : fs[i].lines[k] < n => \E j \in DOMAIN fs : Holds(fs[j], n)

LEMMA OrderIsInOrder == LinesStayInOrder <=> InOrder(files, written)
  BY DEF LinesStayInOrder, FilesAreSorted, ArchivesAreOlder,
         OnlyTheOldestAreMissing, Held, InOrder, Holds

LEMMA OrderIsInOrderNext == LinesStayInOrder' <=> InOrder(files', written')
  BY DEF LinesStayInOrder, FilesAreSorted, ArchivesAreOlder,
         OnlyTheOldestAreMissing, Held, InOrder, Holds

LEMMA EmptyFileType == EmptyFile \in File /\ \A n : ~Holds(EmptyFile, n)
  BY DEF EmptyFile, File, Holds

(* A current file is created without disturbing any other.                 *)
LEMMA CurrentInOrder ==
  ASSUME NEW fs, IsFiles(fs), NEW w, InOrder(fs, w)
  PROVE  /\ IsFiles(WithCurrent(fs))
         /\ InOrder(WithCurrent(fs), w)
         /\ DOMAIN WithCurrent(fs) = DOMAIN fs \union {Current}
<1> DEFINE new == WithCurrent(fs)
<1>1. DOMAIN new = DOMAIN fs \union {Current}
  BY DEF WithCurrent
<1>2. \A j \in DOMAIN fs : new[j] = fs[j]
  BY DEF WithCurrent
<1>3. Current \notin DOMAIN fs => new[Current] = EmptyFile
  BY DEF WithCurrent
<1>4. IsFiles(new)
  <2>1. DOMAIN new \subseteq 0 .. Beyond
    BY <1>1, LogAssumption DEF IsFiles, Current, Beyond
  <2>2. \A j \in DOMAIN new : new[j] \in File
    BY <1>1, <1>2, <1>3, EmptyFileType DEF IsFiles
  <2>3. new = [j \in DOMAIN new |-> new[j]]
    BY DEF WithCurrent
  <2> QED BY <2>1, <2>2, <2>3 DEF IsFiles
<1>5. \A j \in DOMAIN new : \A n :
        Holds(new[j], n) => j \in DOMAIN fs /\ new[j] = fs[j]
  BY <1>1, <1>2, <1>3, EmptyFileType
<1>6. \A j \in DOMAIN new : \A k \in DOMAIN new[j].lines :
        j \in DOMAIN fs /\ new[j] = fs[j]
  BY <1>5 DEF Holds
<1> HIDE DEF new
<1>7. InOrder(new, w)
  <2>1. \A i \in DOMAIN new : \A k, m \in DOMAIN new[i].lines :
          k < m => new[i].lines[k] < new[i].lines[m]
    BY <1>6 DEF InOrder
  <2>2. \A i, j \in DOMAIN new : \A m, n \in w :
          i < j /\ Holds(new[j], m) /\ Holds(new[i], n) => m < n
    BY <1>5 DEF InOrder
  <2>3. \A i \in DOMAIN new : \A k \in DOMAIN new[i].lines :
          /\ new[i].lines[k] \in w
          /\ \A n \in w : new[i].lines[k] < n
                => \E j \in DOMAIN new : Holds(new[j], n)
    BY <1>1, <1>2, <1>6 DEF InOrder
  <2> QED BY <2>1, <2>2, <2>3 DEF InOrder
<1> QED BY <1>1, <1>4, <1>7 DEF new

(* What is removed is the oldest file there is.                            *)
LEMMA RemovedInOrder ==
  ASSUME IsFiles(files), written \subseteq Nat, InOrder(files, written),
         NEW i \in Int, \A j \in DOMAIN files : j <= i
  PROVE  /\ IsFiles(Removed(i))
         /\ InOrder(Removed(i), written)
         /\ DOMAIN Removed(i) = DOMAIN files \ {i}
<1> DEFINE new == Removed(i)
<1>1. DOMAIN new = DOMAIN files \ {i} /\ \A j \in DOMAIN new : new[j] = files[j]
  BY DEF Removed
<1>2. IsFiles(new)
  BY DEF Removed, IsFiles
<1> HIDE DEF new
<1>3. InOrder(new, written)
  <2>1. \A h \in DOMAIN new : \A k, m \in DOMAIN new[h].lines :
          k < m => new[h].lines[k] < new[h].lines[m]
    BY <1>1 DEF InOrder
  <2>2. \A h, j \in DOMAIN new : \A m, n \in written :
          h < j /\ Holds(new[j], m) /\ Holds(new[h], n) => m < n
    BY <1>1 DEF InOrder
  <2>3. ASSUME NEW h \in DOMAIN new, NEW k \in DOMAIN new[h].lines
        PROVE  /\ new[h].lines[k] \in written
               /\ \A n \in written : new[h].lines[k] < n
                    => \E j \in DOMAIN new : Holds(new[j], n)
    <3> DEFINE l == new[h].lines[k]
    <3>1. l \in written /\ Holds(files[h], l)
      BY <1>1 DEF InOrder, Holds
    <3>2. ASSUME NEW n \in written, l < n
          PROVE  \E j \in DOMAIN new : Holds(new[j], n)
      <4>1. PICK j \in DOMAIN files : Holds(files[j], n)
        BY <1>1, <3>2 DEF InOrder
      <4>2. h < i /\ h \in DOMAIN files
        BY <1>1 DEF IsFiles
      <4>3. j = i => n < l
        BY <3>1, <4>1, <4>2 DEF InOrder
      <4>4. j # i
        BY <4>3, <3>1, <3>2
      <4> QED BY <1>1, <4>1, <4>4
    <3> QED BY <3>1, <3>2
  <2> QED BY <2>1, <2>2, <2>3 DEF InOrder
<1> QED BY <1>1, <1>2, <1>3 DEF new

(* A file is renamed to the place after it, which is free.                 *)
LEMMA RenamedInOrder ==
  ASSUME IsFiles(files), written \subseteq Nat, InOrder(files, written),
         NEW i \in 1 .. ArchiveCount, i - 1 \in DOMAIN files, i \notin DOMAIN files
  PROVE  /\ IsFiles(Renamed(i - 1, i))
         /\ InOrder(Renamed(i - 1, i), written)
         /\ DOMAIN Renamed(i - 1, i) = (DOMAIN files \ {i - 1}) \union {i}
<1> DEFINE new == Renamed(i - 1, i)
           old(j) == IF j = i THEN i - 1 ELSE j
<1>1. DOMAIN new = (DOMAIN files \ {i - 1}) \union {i}
  BY DEF Renamed
<1>2. \A j \in DOMAIN new : old(j) \in DOMAIN files /\ new[j] = files[old(j)]
  BY DEF Renamed
<1>3. IsFiles(new)
  BY LogAssumption DEF Renamed, IsFiles, Beyond
<1>4. \A j \in DOMAIN new : j \in Int
  BY <1>3 DEF IsFiles
<1>5. ASSUME NEW h \in DOMAIN new, NEW j \in DOMAIN new, h < j
      PROVE  old(h) < old(j)
  <2>1. h \in Int /\ j \in Int /\ h # i - 1
    BY <1>1, <1>4
  <2>2. i \in Int
    BY LogAssumption
  <2> HIDE DEF new
  <2>3. CASE j = i
    <3>1. h < i /\ h # i /\ old(h) = h /\ old(j) = i - 1
      BY <2>1, <2>2, <2>3, <1>5
    <3>2. h < i - 1
      BY <3>1, <2>1, <2>2
    <3> QED BY <3>1, <3>2
  <2>4. CASE j # i
    BY <2>1, <2>2, <2>4, <1>5
  <2> QED BY <2>3, <2>4
<1>6. \A j \in DOMAIN files : \E h \in DOMAIN new : old(h) = j
  BY <1>1
<1> HIDE DEF new, old
<1>7. InOrder(new, written)
  <2>1. \A h \in DOMAIN new : \A k, m \in DOMAIN new[h].lines :
          k < m => new[h].lines[k] < new[h].lines[m]
    BY <1>2 DEF InOrder
  <2>2. \A h, j \in DOMAIN new : \A m, n \in written :
          h < j /\ Holds(new[j], m) /\ Holds(new[h], n) => m < n
    BY <1>2, <1>5 DEF InOrder
  <2>3. \A h \in DOMAIN new : \A k \in DOMAIN new[h].lines :
          /\ new[h].lines[k] \in written
          /\ \A n \in written : new[h].lines[k] < n
               => \E j \in DOMAIN new : Holds(new[j], n)
    BY <1>2, <1>6 DEF InOrder
  <2> QED BY <2>1, <2>2, <2>3 DEF InOrder
<1> QED BY <1>1, <1>3, <1>7 DEF new

(* A file is given a line, or a part of one, at its end.                   *)
LEMMA AppendedType ==
  ASSUME IsFiles(files), handle \in Int,
         handle # Nowhere => handle \in DOMAIN files,
         NEW whole \in Seq(Nat), NEW bytes \in Nat
  PROVE  /\ IsFiles(Appended(whole, bytes))
         /\ DOMAIN Appended(whole, bytes) = DOMAIN files
         /\ \A j \in DOMAIN files :
              Appended(whole, bytes)[j] =
                IF j = handle
                THEN [lines |-> files[j].lines \o whole,
                      bytes |-> files[j].bytes + bytes]
                ELSE files[j]
<1>1. CASE handle = Nowhere
  <2>1. \A j \in DOMAIN files : j # handle
    BY <1>1 DEF IsFiles, Nowhere, Beyond
  <2> QED BY <1>1, <2>1 DEF Appended
<1>2. CASE handle # Nowhere
  <2> DEFINE grown == [lines |-> files[handle].lines \o whole,
                       bytes |-> files[handle].bytes + bytes]
  <2>1. files[handle] \in File
    BY <1>2 DEF IsFiles
  <2>2. grown \in File
    BY <2>1 DEF File
  <2>3. Appended(whole, bytes) = [files EXCEPT ![handle] = grown]
    BY <1>2 DEF Appended
  <2> HIDE DEF grown
  <2>4. IsFiles([files EXCEPT ![handle] = grown])
    BY <2>2 DEF IsFiles
  <2> QED BY <2>3, <2>4 DEF grown, IsFiles
<1> QED BY <1>1, <1>2

LEMMA FragmentInOrder ==
  ASSUME IsFiles(files), handle \in Int,
         handle # Nowhere => handle \in DOMAIN files,
         NEW bytes \in Nat, InOrder(files, written)
  PROVE  InOrder(Appended(<<>>, bytes), written)
<1> DEFINE new == Appended(<<>>, bytes)
<1>0. <<>> \in Seq(Nat)
  OBVIOUS
<1>1. /\ DOMAIN new = DOMAIN files
      /\ \A j \in DOMAIN files :
           new[j] = IF j = handle
                    THEN [lines |-> files[j].lines \o <<>>,
                          bytes |-> files[j].bytes + bytes]
                    ELSE files[j]
  BY <1>0, AppendedType, Zenon
<1>2. ASSUME NEW j \in DOMAIN files
      PROVE  new[j].lines = files[j].lines
  <2>1. files[j].lines \in Seq(Nat)
    BY DEF IsFiles, File
  <2>2. files[j].lines \o <<>> = files[j].lines
    BY <2>1
  <2> HIDE DEF new
  <2> QED BY <2>2, <1>1
<1> HIDE DEF new
<1>3. \A j \in DOMAIN files : \A n : Holds(new[j], n) <=> Holds(files[j], n)
  BY <1>2 DEF Holds
<1>4. InOrder(new, written)
  <2>1. \A h \in DOMAIN new : \A k, m \in DOMAIN new[h].lines :
          k < m => new[h].lines[k] < new[h].lines[m]
    BY <1>1, <1>2 DEF InOrder
  <2>2. \A h, j \in DOMAIN new : \A m, n \in written :
          h < j /\ Holds(new[j], m) /\ Holds(new[h], n) => m < n
    BY <1>1, <1>3 DEF InOrder
  <2>3. \A h \in DOMAIN new : \A k \in DOMAIN new[h].lines :
          /\ new[h].lines[k] \in written
          /\ \A n \in written : new[h].lines[k] < n
               => \E j \in DOMAIN new : Holds(new[j], n)
    BY <1>1, <1>2, <1>3 DEF InOrder
  <2> QED BY <2>1, <2>2, <2>3 DEF InOrder
<1> QED BY <1>4 DEF new

LEMMA LastEntry ==
  ASSUME NEW entries \in Seq(Nat), NEW l \in Nat
  PROVE  LET longer == entries \o <<l>>
             last == Len(entries) + 1
         IN  /\ DOMAIN longer = 1 .. last
             /\ DOMAIN entries = 1 .. last - 1
             /\ \A k \in 1 .. last - 1 : longer[k] = entries[k]
             /\ longer[last] = l
             /\ last \in Nat \ {0}
<1>1. <<l>> \in Seq(Nat) /\ Len(<<l>>) = 1 /\ <<l>>[1] = l
  OBVIOUS
<1>2. Len(entries \o <<l>>) = Len(entries) + 1 /\ entries \o <<l>> \in Seq(Nat)
  BY <1>1
<1>3. DOMAIN entries = 1 .. Len(entries) /\ Len(entries) \in Nat
  OBVIOUS
<1>4. DOMAIN (entries \o <<l>>) = 1 .. Len(entries) + 1
  BY <1>2
<1>5. \A k \in 1 .. Len(entries) : (entries \o <<l>>)[k] = entries[k]
  BY <1>1
<1>6. (entries \o <<l>>)[Len(entries) + 1] = l
  BY <1>1
<1> QED BY <1>3, <1>4, <1>5, <1>6

(* The newest line goes to the end of the newest file.                     *)
LEMMA LineInOrder ==
  ASSUME IsFiles(files), handle \in Int, InOrder(files, written),
         handle # Nowhere => handle \in DOMAIN files,
         handle = Nowhere => DOMAIN files = {},
         \A j \in DOMAIN files : handle <= j,
         NEW l \in Nat, written \subseteq Nat, \A n \in written : n < l,
         NEW bytes \in Nat
  PROVE  InOrder(Appended(<<l>>, bytes), written \union {l})
<1>1. CASE handle = Nowhere
  BY <1>1 DEF Appended, InOrder
<1>2. CASE handle # Nowhere
  <2> DEFINE new == Appended(<<l>>, bytes)
             old == files[handle].lines
             last == Len(old) + 1
             all == written \union {l}
  <2>0. /\ DOMAIN new = DOMAIN files
        /\ \A j \in DOMAIN files :
             new[j] = IF j = handle
                      THEN [lines |-> files[j].lines \o <<l>>,
                            bytes |-> files[j].bytes + bytes]
                      ELSE files[j]
    <3>1. <<l>> \in Seq(Nat)
      OBVIOUS
    <3> QED BY <3>1, AppendedType, Zenon
  <2>1. DOMAIN new = DOMAIN files /\ handle \in DOMAIN files
    BY <1>2, <2>0
  <2> HIDE DEF new
  <2>2. \A j \in DOMAIN files : j # handle => new[j] = files[j]
    BY <2>0
  <2>3. new[handle].lines = old \o <<l>>
    BY <2>0, <2>1
  <2>4. old \in Seq(Nat)
    BY <2>1 DEF IsFiles, File
  <2>5. /\ DOMAIN new[handle].lines = 1 .. last
        /\ DOMAIN old = 1 .. last - 1
        /\ \A k \in 1 .. last - 1 : new[handle].lines[k] = old[k]
        /\ new[handle].lines[last] = l
        /\ last \in Nat \ {0}
    <3> HIDE DEF old, new
    <3> QED BY <2>3, <2>4, LastEntry
  <2>6. \A j \in DOMAIN files : j # handle => handle < j /\ j \in Int
    BY DEF IsFiles
  <2> HIDE DEF new, old, last
  <2>7. \A j \in DOMAIN files : \A k \in DOMAIN files[j].lines :
          files[j].lines[k] \in written
    BY DEF InOrder
  <2>8. \A k \in 1 .. last - 1 : old[k] \in written
    BY <2>1, <2>5, <2>7 DEF old
  <2>9. \A j \in DOMAIN files : \A k \in DOMAIN new[j].lines :
          \/ new[j].lines[k] \in written /\ Holds(files[j], new[j].lines[k])
          \/ j = handle /\ k = last /\ new[j].lines[k] = l
    <3> SUFFICES ASSUME NEW j \in DOMAIN files, NEW k \in DOMAIN new[j].lines
                 PROVE  \/ /\ new[j].lines[k] \in written
                           /\ Holds(files[j], new[j].lines[k])
                        \/ j = handle /\ k = last /\ new[j].lines[k] = l
      OBVIOUS
    <3>1. CASE j # handle
      BY <3>1, <2>2, <2>7 DEF Holds
    <3>2. CASE j = handle /\ k = last
      BY <3>2, <2>5
    <3>3. CASE j = handle /\ k # last
      <4>1. k \in 1 .. last - 1
        BY <3>3, <2>5
      <4>2. new[j].lines[k] = old[k] /\ k \in DOMAIN old
        BY <4>1, <3>3, <2>5
      <4> QED BY <4>1, <4>2, <3>3, <2>8 DEF Holds, old
    <3> QED BY <3>1, <3>2, <3>3
  <2>10. \A j \in DOMAIN files : \A n : Holds(files[j], n) => Holds(new[j], n)
    <3> SUFFICES ASSUME NEW j \in DOMAIN files, NEW k \in DOMAIN files[j].lines
                 PROVE  Holds(new[j], files[j].lines[k])
      BY DEF Holds
    <3>1. CASE j # handle
      BY <3>1, <2>2 DEF Holds
    <3>2. CASE j = handle
      <4>1. k \in 1 .. last - 1 /\ new[j].lines[k] = files[j].lines[k]
        BY <3>2, <2>5 DEF old
      <4>2. k \in DOMAIN new[j].lines
        BY <4>1, <3>2, <2>5
      <4> QED BY <4>1, <4>2 DEF Holds
    <3> QED BY <3>1, <3>2
  <2>11. Holds(new[handle], l)
    BY <2>5 DEF Holds
  <2>12. \A h \in DOMAIN new : \A k, m \in DOMAIN new[h].lines :
          k < m => new[h].lines[k] < new[h].lines[m]
    <3> SUFFICES ASSUME NEW h \in DOMAIN new,
                        NEW k \in DOMAIN new[h].lines,
                        NEW m \in DOMAIN new[h].lines, k < m
                 PROVE  new[h].lines[k] < new[h].lines[m]
      OBVIOUS
    <3>1. CASE h # handle
      BY <3>1, <2>1, <2>2 DEF InOrder
    <3>2. CASE h = handle /\ m = last
      <4>1. k \in 1 .. last - 1
        BY <3>2, <2>5
      <4>2. new[h].lines[k] \in written
        BY <4>1, <3>2, <2>5, <2>8
      <4> QED BY <4>2, <3>2, <2>5
    <3>3. CASE h = handle /\ m # last
      <4>1. k \in 1 .. last - 1 /\ m \in 1 .. last - 1
        BY <3>3, <2>5
      <4>2. old[k] < old[m]
        BY <4>1, <2>1, <2>5 DEF InOrder, old
      <4> QED BY <4>1, <4>2, <3>3, <2>5
    <3> QED BY <3>1, <3>2, <3>3
  <2>13. \A h, j \in DOMAIN new : \A m, n \in all :
          h < j /\ Holds(new[j], m) /\ Holds(new[h], n) => m < n
    <3> SUFFICES ASSUME NEW h \in DOMAIN new, NEW j \in DOMAIN new, h < j,
                        NEW m, Holds(new[j], m), NEW n, Holds(new[h], n)
                 PROVE  m < n
      OBVIOUS
    <3>1. j # handle
      BY <2>1, <2>6
    <3>2. m \in written /\ Holds(files[j], m)
      BY <3>1, <2>1, <2>9 DEF Holds
    <3>3. \/ n \in written /\ Holds(files[h], n)
          \/ n = l
      BY <2>1, <2>9 DEF Holds
    <3> QED BY <3>2, <3>3, <2>1 DEF InOrder
  <2>14. \A h \in DOMAIN new : \A k \in DOMAIN new[h].lines :
          /\ new[h].lines[k] \in all
          /\ \A n \in all : new[h].lines[k] < n
               => \E j \in DOMAIN new : Holds(new[j], n)
    <3> SUFFICES ASSUME NEW h \in DOMAIN new, NEW k \in DOMAIN new[h].lines
                 PROVE  /\ new[h].lines[k] \in all
                        /\ \A n \in all : new[h].lines[k] < n
                             => \E j \in DOMAIN new : Holds(new[j], n)
      OBVIOUS
    <3>1. new[h].lines[k] \in all
      BY <2>1, <2>9
    <3>2. ASSUME NEW n \in written, new[h].lines[k] < n
          PROVE  \E j \in DOMAIN new : Holds(new[j], n)
      <4>1. new[h].lines[k] \in written /\ Holds(files[h], new[h].lines[k])
        BY <3>2, <2>1, <2>9
      <4>2. PICK j \in DOMAIN files : Holds(files[j], n)
        BY <4>1, <3>2, <2>1 DEF InOrder, Holds
      <4> QED BY <4>2, <2>1, <2>10
    <3> QED BY <3>1, <3>2, <2>1, <2>11
  <2> QED BY <2>12, <2>13, <2>14 DEF InOrder, new
<1> QED BY <1>1, <1>2

-----------------------------------------------------------------------------
(* How much failed records may leave behind.                               *)

Bound == MaximumFileBytes + (Cardinality(Threads) - 1) * LongestLine
Slack(set) == Cardinality(set) * LongestLine

LEMMA Bounds ==
  /\ MaximumFileBytes \in Nat \ {0}
  /\ LongestLine \in Nat \ {0}
  /\ LongestLine <= MaximumFileBytes
  /\ ArchiveCount \in Nat \ {0}
  /\ Beyond \in Nat \ {0}
  /\ Current = 0
  /\ Nowhere = -1
  /\ Bound \in Nat
  /\ MaximumFileBytes <= Bound
<1>1. Cardinality(Threads) \in Nat \ {0}
  BY LogAssumption, FS_CardinalityType, FS_EmptySet
<1>2. /\ MaximumFileBytes \in Nat \ {0}
      /\ LongestLine \in Nat \ {0}
      /\ LongestLine <= MaximumFileBytes
      /\ ArchiveCount \in Nat \ {0}
  BY LogAssumption
<1>4. (Cardinality(Threads) - 1) * LongestLine \in Nat
  <2>1. Cardinality(Threads) - 1 \in Nat
    BY <1>1
  <2> QED BY <2>1, <1>2
<1>5. Bound \in Nat /\ MaximumFileBytes <= Bound
  BY <1>2, <1>4 DEF Bound
<1> QED BY <1>2, <1>5 DEF Beyond, Current, Nowhere

LEMMA SlackOfOneMore ==
  ASSUME failed \subseteq Threads, NEW t \in Threads, t \notin failed
  PROVE  /\ Slack(failed) \in Nat
         /\ Slack(failed \union {t}) = Slack(failed) + LongestLine
         /\ Slack(failed) + MaximumFileBytes <= Bound
<1> DEFINE f == Cardinality(failed)
           n == Cardinality(Threads)
           L == LongestLine
<1>1. IsFiniteSet(failed) /\ IsFiniteSet(Threads)
  BY LogAssumption, FS_Subset
<1>2. f \in Nat /\ n \in Nat
  BY <1>1, FS_CardinalityType
<1>3. Cardinality(failed \union {t}) = f + 1
  BY <1>1, FS_AddElement
<1>4. f + 1 <= n
  <2>1. failed \union {t} \subseteq Threads
    OBVIOUS
  <2> QED BY <2>1, <1>1, <1>3, FS_Subset
<1>5. L \in Nat \ {0} /\ MaximumFileBytes \in Nat
  BY Bounds
<1> HIDE DEF f, n, L
<1>6. f * L \in Nat /\ (f + 1) * L = f * L + L
  BY <1>2, <1>5
<1>7. f * L <= (n - 1) * L
  <2> DEFINE m == n - 1
  <2>1. m \in Nat /\ f <= m
    BY <1>2, <1>4
  <2> HIDE DEF m
  <2>2. PICK d \in Nat : m = f + d
    <3>1. m - f \in Nat /\ m = f + (m - f)
      BY <2>1, <1>2
    <3> QED BY <3>1
  <2>3. m * L = f * L + d * L
    BY <2>2, <1>2, <1>5
  <2>4. d * L \in Nat
    BY <2>2, <1>5
  <2>5. f * L <= m * L
    BY <2>3, <2>4, <1>6
  <2> QED BY <2>5 DEF m
<1>8. Slack(failed) = f * L /\ Slack(failed \union {t}) = (f + 1) * L
  BY <1>3 DEF Slack, f, L
<1>9. Bound = MaximumFileBytes + (n - 1) * L
  BY DEF Bound, n, L
<1>10. (n - 1) * L \in Int
  BY <1>2, <1>5
<1> QED BY <1>5, <1>6, <1>7, <1>8, <1>9, <1>10 DEF L

LEMMA SlackOfNone == Slack({}) = 0
<1>1. Cardinality({}) = 0
  BY FS_EmptySet
<1> QED BY <1>1, Bounds DEF Slack

LEMMA SlackType ==
  ASSUME failed \subseteq Threads
  PROVE  Slack(failed) \in Nat
<1>1. Cardinality(failed) \in Nat
  BY LogAssumption, FS_Subset, FS_CardinalityType
<1> QED BY <1>1, Bounds DEF Slack

-----------------------------------------------------------------------------
(* Each step keeps the invariant.                                          *)

LEMMA Facts ==
  ASSUME LogInv
  PROVE  /\ IsFiles(files)
         /\ InOrder(files, written)
         /\ written \subseteq Nat
         /\ handle \in Int
         /\ handle # Nowhere => handle \in DOMAIN files
         /\ \A j \in DOMAIN files : j \in Int /\ files[j] \in File
         /\ \A j \in DOMAIN files : files[j].bytes \in Nat /\ files[j].bytes <= Bound
         /\ failed \subseteq Threads
<1>1. IsFiles(files) /\ handle \in Int /\ written \subseteq Nat /\ failed \subseteq Threads
  BY DEF LogInv, TypeOK, IsFiles
<1>2. InOrder(files, written)
  BY OrderIsInOrder DEF LogInv
<1>3. \A j \in DOMAIN files : j \in Int /\ files[j] \in File
  BY <1>1 DEF IsFiles
<1>4. \A j \in DOMAIN files : files[j].bytes \in Nat
  BY <1>3 DEF File
<1>5. \A j \in DOMAIN files : files[j].bytes <= Bound
  BY DEF LogInv, FilesStayBounded, Bound
<1>6. handle # Nowhere => handle \in DOMAIN files
  BY DEF LogInv, WriterIsOnNewest
<1> QED BY <1>1, <1>2, <1>3, <1>4, <1>5, <1>6

LEMMA InitLogInv == Init => LogInv
<1> SUFFICES ASSUME Init PROVE LogInv
  OBVIOUS
<1>1. /\ running = FALSE /\ health = "Unavailable" /\ handle = Nowhere
      /\ length = 0 /\ lock = Free /\ step = "None" /\ index = 0
      /\ line = [number |-> 0, bytes |-> 1] /\ failed = {} /\ lines = 0
  BY DEF Init
<1> DEFINE older == [j \in {Beyond} |-> [lines |-> <<0>>, bytes |-> 1]]
<1>2. \/ files = <<>> /\ written = {}
      \/ files = older /\ written = {0}
  BY DEF Init
<1>3. <<0>> \in Seq(Nat) /\ DOMAIN <<0>> = {1} /\ <<0>>[1] = 0
  OBVIOUS
<1>4. /\ IsFiles(older)
      /\ InOrder(older, {0})
      /\ \A j \in DOMAIN older : older[j].bytes <= Bound
  <2>1. DOMAIN older = {Beyond} /\ older[Beyond] = [lines |-> <<0>>, bytes |-> 1]
    OBVIOUS
  <2>2. IsFiles(older)
    BY <1>3, Bounds DEF IsFiles, File
  <2> HIDE DEF older
  <2>3. InOrder(older, {0})
    BY <2>1, <1>3, Bounds DEF InOrder, Holds
  <2>4. 1 <= Bound
    BY Bounds
  <2> QED BY <2>1, <2>2, <2>3, <2>4 DEF older
<1>5. /\ IsFiles(<<>>)
      /\ InOrder(<<>>, {})
      /\ \A j \in DOMAIN <<>> : <<>>[j].bytes <= Bound
  <2>1. DOMAIN <<>> = {} /\ <<>> = [j \in {} |-> <<>>[j]]
    OBVIOUS
  <2> QED BY <2>1 DEF IsFiles, InOrder
<1> HIDE DEF older
<1>6. /\ IsFiles(files)
      /\ InOrder(files, written)
      /\ \A j \in DOMAIN files : files[j].bytes <= Bound
      /\ written \subseteq {0}
  BY <1>2, <1>4, <1>5
<1>7. TypeOK
  <2>1. line \in [number : Nat, bytes : 1 .. LongestLine]
    BY <1>1, Bounds
  <2>2. written \subseteq 0 .. lines
    BY <1>1, <1>6
  <2>3. handle \in Int /\ index \in 0 .. ArchiveCount
    BY <1>1, Bounds
  <2> QED BY <1>1, <1>6, <2>1, <2>2, <2>3 DEF TypeOK, IsFiles
<1>8. HolderRecords /\ WriterIsOnNewest /\ RotationHasRoom /\ LengthIsTrusted
  BY <1>1 DEF HolderRecords, WriterIsOnNewest, RotationHasRoom, LengthIsTrusted
<1>9. LinesStayInOrder
  BY <1>6, OrderIsInOrder
<1>10. FilesStayBounded
  BY <1>1, <1>6 DEF FilesStayBounded, Bound
<1> QED BY <1>7, <1>8, <1>9, <1>10 DEF LogInv

(* The process starts again, with the file it finds.                       *)
LEMMA InitializeLogInv ==
  ASSUME LogInv, Initialize
  PROVE  LogInv'
<1>1. /\ running' = TRUE
      /\ UNCHANGED <<lock, step, index, line, failed, lines, written>>
  BY DEF Initialize
<1>2. /\ lock = Free /\ step = "None" /\ failed = {}
      /\ health = "Unavailable" /\ handle = Nowhere
  BY DEF LogInv, HolderRecords, WriterIsOnNewest, TypeOK, Initialize
<1>3. /\ IsFiles(Pruned)
      /\ InOrder(Pruned, written)
      /\ DOMAIN Pruned = DOMAIN files \ {Beyond}
      /\ \A j \in DOMAIN Pruned : Pruned[j].bytes <= Bound
  <2>1. \A j \in DOMAIN files : j <= Beyond
    BY Facts, Bounds DEF IsFiles
  <2>2. /\ IsFiles(Pruned)
        /\ InOrder(Pruned, written)
        /\ DOMAIN Pruned = DOMAIN files \ {Beyond}
    <3>1. IsFiles(files) /\ written \subseteq Nat /\ InOrder(files, written)
      BY Facts
    <3>2. Beyond \in Int
      BY Bounds
    <3> QED BY <2>1, <3>1, <3>2, RemovedInOrder, Zenon DEF Pruned
  <2>3. \A j \in DOMAIN Pruned : Pruned[j] = files[j]
    BY DEF Pruned, Removed
  <2> QED BY <2>2, <2>3, Facts
<1> DEFINE new == WithCurrent(Pruned)
<1>4. /\ IsFiles(new)
      /\ InOrder(new, written)
      /\ DOMAIN new = DOMAIN Pruned \union {Current}
      /\ \A j \in DOMAIN new : new[j].bytes <= Bound
  <2>1. /\ IsFiles(new)
        /\ InOrder(new, written)
        /\ DOMAIN new = DOMAIN Pruned \union {Current}
    BY <1>3, CurrentInOrder
  <2>2. \A j \in DOMAIN new : new[j] = IF j \in DOMAIN Pruned THEN Pruned[j] ELSE EmptyFile
    BY DEF WithCurrent
  <2>3. EmptyFile.bytes = 0
    BY DEF EmptyFile
  <2> HIDE DEF new
  <2> QED BY <1>3, <2>1, <2>2, <2>3, Bounds
<1> HIDE DEF new
<1>5. \/ files' = new /\ health' = "Available" /\ handle' = Current
         /\ length' = files'[Current].bytes
      \/ files' \in {files, Pruned, new} /\ UNCHANGED <<health, handle, length>>
  BY DEF Initialize, LengthFound, new
<1>6. /\ IsFiles(files')
      /\ InOrder(files', written')
      /\ \A j \in DOMAIN files' : files'[j].bytes <= Bound
  BY <1>1, <1>3, <1>4, <1>5, Facts
<1>7. CASE files' = new /\ health' = "Available" /\ handle' = Current
           /\ length' = files'[Current].bytes
  <2>1. /\ Current \in DOMAIN files'
        /\ Beyond \notin DOMAIN files'
        /\ \A j \in DOMAIN files' : Current <= j
    BY <1>3, <1>4, <1>7, Bounds DEF IsFiles
  <2>2. length' \in Nat
    BY <2>1, <1>6, <1>7 DEF IsFiles, File
  <2>3. TypeOK'
    BY <1>1, <1>6, <1>7, <2>2, Bounds DEF LogInv, TypeOK, IsFiles
  <2>4. HolderRecords' /\ WriterIsOnNewest' /\ RotationHasRoom'
    BY <1>1, <1>2, <1>7, <2>1, Bounds
    DEF HolderRecords, WriterIsOnNewest, RotationHasRoom
  <2>5. LengthIsTrusted'
    BY <1>1, <1>2, <1>7, <2>2, SlackOfNone DEF LengthIsTrusted, Slack
  <2>6. LinesStayInOrder'
    BY <1>6, OrderIsInOrderNext
  <2>7. FilesStayBounded'
    BY <1>6, <2>1 DEF FilesStayBounded, Bound, Exists
  <2> QED BY <2>3, <2>4, <2>5, <2>6, <2>7 DEF LogInv
<1>8. CASE files' \in {files, Pruned, new} /\ UNCHANGED <<health, handle, length>>
  <2>1. TypeOK'
    BY <1>1, <1>6, <1>8 DEF LogInv, TypeOK, IsFiles
  <2>2. HolderRecords' /\ WriterIsOnNewest' /\ RotationHasRoom' /\ LengthIsTrusted'
    BY <1>1, <1>2, <1>8
    DEF HolderRecords, WriterIsOnNewest, RotationHasRoom, LengthIsTrusted
  <2>3. LinesStayInOrder'
    BY <1>6, OrderIsInOrderNext
  <2>4. FilesStayBounded'
    BY <1>2, <1>6, <1>8 DEF FilesStayBounded, Bound, Exists
  <2> QED BY <2>1, <2>2, <2>3, <2>4 DEF LogInv
<1> QED BY <1>5, <1>7, <1>8

(* The holder of the lock has not failed: there is room for it to.         *)
LEMMA HolderFacts ==
  ASSUME LogInv, step # "None"
  PROVE  /\ lock \in Threads /\ lock # Free /\ lock \notin failed
         /\ health = "Available" /\ running
         /\ line.number = lines /\ lines \notin written
         /\ line.number \in Nat /\ line.bytes \in Nat /\ 1 <= line.bytes
         /\ line.bytes <= LongestLine
         /\ Slack(failed) \in Nat
         /\ Slack(failed \union {lock}) = Slack(failed) + LongestLine
         /\ Slack(failed) + MaximumFileBytes <= Bound
<1>1. /\ lock \in Threads /\ lock # Free /\ lock \notin failed
      /\ health = "Available" /\ running
      /\ line.number = lines /\ lines \notin written
  BY DEF LogInv, HolderRecords, TypeOK
<1>2. /\ line.number \in Nat /\ line.bytes \in Nat /\ 1 <= line.bytes
      /\ line.bytes <= LongestLine
  BY Bounds DEF LogInv, TypeOK
<1>3. failed \subseteq Threads
  BY Facts
<1> QED BY <1>1, <1>2, <1>3, SlackOfOneMore

LEMMA RoomForLine ==
  ASSUME LogInv, step = "Write", handle # Nowhere
  PROVE  /\ handle \in DOMAIN files
         /\ files[handle].bytes \in Nat
         /\ files[handle].bytes + line.bytes <= Bound
<1>1. handle \in DOMAIN files /\ files[handle].bytes \in Nat
  BY Facts
<1>2. /\ files[handle].bytes <= length + Slack(failed)
      /\ length + line.bytes <= MaximumFileBytes
      /\ length \in Nat
  BY DEF LogInv, LengthIsTrusted, Slack, TypeOK
<1> QED BY <1>1, <1>2, HolderFacts, Bounds

LEMMA FragmentFacts ==
  ASSUME LogInv, step = "Write", NEW new \in Fragments
  PROVE  /\ IsFiles(new)
         /\ InOrder(new, written)
         /\ DOMAIN new = DOMAIN files
         /\ \A j \in DOMAIN new : new[j].bytes <= Bound
         /\ handle # Nowhere => new[handle].bytes <= files[handle].bytes + LongestLine
<1>1. PICK b \in 0 .. line.bytes - 1 : new = Appended(<<>>, b)
  BY DEF Fragments
<1>2. b \in Nat /\ b < line.bytes /\ line.bytes \in Nat /\ line.bytes <= LongestLine
  BY <1>1, HolderFacts
<1>3. <<>> \in Seq(Nat)
  OBVIOUS
<1>4. /\ IsFiles(new)
      /\ DOMAIN new = DOMAIN files
      /\ \A j \in DOMAIN files :
           new[j] = IF j = handle
                    THEN [lines |-> files[j].lines \o <<>>,
                          bytes |-> files[j].bytes + b]
                    ELSE files[j]
  BY <1>1, <1>2, <1>3, Facts, AppendedType, Zenon
<1>5. InOrder(new, written)
  BY <1>1, <1>2, Facts, FragmentInOrder, Zenon
<1>6. \A j \in DOMAIN files :
        new[j].bytes = IF j = handle THEN files[j].bytes + b ELSE files[j].bytes
  BY <1>4
<1>7. \A j \in DOMAIN new : new[j].bytes <= Bound
  <2> SUFFICES ASSUME NEW j \in DOMAIN new PROVE new[j].bytes <= Bound
    OBVIOUS
  <2>1. CASE j = handle
    <3>1. handle # Nowhere
      BY <2>1, <1>4 DEF IsFiles, Nowhere
    <3> QED BY <2>1, <3>1, <1>2, <1>4, <1>6, RoomForLine, Bounds
  <2>2. CASE j # handle
    BY <2>2, <1>4, <1>6, Facts
  <2> QED BY <2>1, <2>2
<1>8. handle # Nowhere => new[handle].bytes <= files[handle].bytes + LongestLine
  BY <1>2, <1>6, RoomForLine, Bounds
<1> QED BY <1>4, <1>5, <1>7, <1>8

LEMMA LineFacts ==
  ASSUME LogInv, step = "Write", LineWritten
  PROVE  /\ IsFiles(files')
         /\ InOrder(files', written')
         /\ written' \subseteq 0 .. lines
         /\ DOMAIN files' = DOMAIN files
         /\ \A j \in DOMAIN files' : files'[j].bytes <= Bound
         /\ handle # Nowhere => files'[handle].bytes = files[handle].bytes + line.bytes
<1> DEFINE l == line.number
           b == line.bytes
<1>1. files' = Appended(<<l>>, b) /\ written' = written \union {l}
  BY DEF LineWritten
<1>2. b \in Nat /\ l \in Nat /\ l = lines /\ lines \notin written
  BY HolderFacts
<1>3. <<l>> \in Seq(Nat)
  BY <1>2
<1>4. written \subseteq 0 .. lines
  BY DEF LogInv, TypeOK
<1> HIDE DEF l, b
<1>5. /\ IsFiles(files')
      /\ DOMAIN files' = DOMAIN files
      /\ \A j \in DOMAIN files :
           files'[j] = IF j = handle
                       THEN [lines |-> files[j].lines \o <<l>>,
                             bytes |-> files[j].bytes + b]
                       ELSE files[j]
  BY <1>1, <1>2, <1>3, Facts, AppendedType, Zenon
<1>6. \A j \in DOMAIN files :
        files'[j].bytes = IF j = handle THEN files[j].bytes + b ELSE files[j].bytes
  BY <1>5
<1>7. \A n \in written : n < l
  BY <1>2, <1>4
<1>8. /\ handle = Nowhere => DOMAIN files = {}
      /\ \A j \in DOMAIN files : handle <= j
  BY HolderFacts DEF LogInv, WriterIsOnNewest
<1>9. InOrder(files', written')
  BY <1>1, <1>2, <1>7, <1>8, Facts, LineInOrder, Zenon
<1>10. \A j \in DOMAIN files' : files'[j].bytes <= Bound
  <2> SUFFICES ASSUME NEW j \in DOMAIN files' PROVE files'[j].bytes <= Bound
    OBVIOUS
  <2>1. CASE j = handle
    <3>1. handle # Nowhere
      BY <2>1, <1>5 DEF IsFiles, Nowhere
    <3> QED BY <2>1, <3>1, <1>5, <1>6, RoomForLine DEF b
  <2>2. CASE j # handle
    BY <2>2, <1>5, <1>6, Facts
  <2> QED BY <2>1, <2>2
<1>11. handle # Nowhere => files'[handle].bytes = files[handle].bytes + line.bytes
  BY <1>6, RoomForLine DEF b
<1>12. written' \subseteq 0 .. lines
  BY <1>1, <1>2, <1>4
<1> QED BY <1>5, <1>9, <1>10, <1>11, <1>12

LEMMA ProcessEndsLogInv ==
  ASSUME LogInv, ProcessEnds
  PROVE  LogInv'
<1>1. /\ running' = FALSE /\ health' = "Unavailable" /\ handle' = Nowhere
      /\ length' = 0 /\ lock' = Free /\ step' = "None" /\ failed' = {}
      /\ UNCHANGED <<index, line, lines, written>>
  BY DEF ProcessEnds
<1>2. /\ IsFiles(files')
      /\ InOrder(files', written)
      /\ \A j \in DOMAIN files' : files'[j].bytes <= Bound
  <2>1. CASE step = "Write"
    BY <2>1, Facts, FragmentFacts DEF ProcessEnds
  <2>2. CASE step # "Write"
    BY <2>2, Facts DEF ProcessEnds
  <2> QED BY <2>1, <2>2
<1>3. TypeOK'
  <2>1. handle' \in Int /\ length' \in Nat
    BY <1>1, Bounds
  <2>2. failed' \subseteq Threads /\ lock' \in Threads \union {Free}
    BY <1>1
  <2>3. running' \in BOOLEAN
    BY <1>1, Zenon
  <2>4. UNCHANGED <<index, line, lines, written>>
    BY <1>1
  <2> QED BY <1>1, <1>2, <2>1, <2>2, <2>3, <2>4 DEF LogInv, TypeOK, IsFiles
<1>4. HolderRecords' /\ WriterIsOnNewest' /\ RotationHasRoom' /\ LengthIsTrusted'
  BY <1>1 DEF HolderRecords, WriterIsOnNewest, RotationHasRoom, LengthIsTrusted
<1>5. LinesStayInOrder'
  BY <1>1, <1>2, OrderIsInOrderNext
<1>6. FilesStayBounded'
  BY <1>1, <1>2 DEF FilesStayBounded, Bound
<1> QED BY <1>3, <1>4, <1>5, <1>6 DEF LogInv

LEMMA RecordLogInv ==
  ASSUME LogInv, NEW t \in Threads, Record(t)
  PROVE  LogInv'
<1>1. /\ running /\ health = "Available" /\ lock = Free /\ t \notin failed
      /\ lock' = t /\ lines' = lines + 1
      /\ UNCHANGED <<files, running, health, handle, length, index, failed, written>>
  BY DEF Record
<1>2. PICK bytes \in 1 .. LongestLine :
        /\ line' = [number |-> lines + 1, bytes |-> bytes]
        /\ step' = IF length > 0 /\ length + bytes > MaximumFileBytes
                   THEN "Remove" ELSE "Write"
  BY DEF Record
<1>3. /\ t # Free
      /\ lines \in Nat /\ length \in Nat /\ written \subseteq 0 .. lines
      /\ bytes \in Nat /\ bytes <= LongestLine
  BY LogAssumption, Bounds DEF LogInv, TypeOK
<1>4. TypeOK'
  <2>1. line' \in [number : Nat, bytes : 1 .. LongestLine]
    BY <1>2, <1>3
  <2>2. written' \subseteq 0 .. lines' /\ lines' \in Nat
    BY <1>1, <1>3
  <2>3. step' \in {"None", "Remove", "Shift", "Reopen", "Write"}
    BY <1>2
  <2> QED BY <1>1, <2>1, <2>2, <2>3 DEF LogInv, TypeOK
<1>5. HolderRecords'
  <2>1. step' # "None" /\ line'.number = lines' /\ lines' \notin written'
    BY <1>1, <1>2, <1>3
  <2> QED BY <1>1, <1>3, <2>1 DEF LogInv, HolderRecords
<1>6. WriterIsOnNewest' /\ RotationHasRoom'
  BY <1>1, <1>2 DEF LogInv, WriterIsOnNewest, RotationHasRoom
<1>7. LengthIsTrusted'
  <2>1. step' = "Write" => length + bytes <= MaximumFileBytes
    BY <1>2, <1>3, Bounds
  <2>2. line'.bytes = bytes
    BY <1>2
  <2> QED BY <1>1, <2>1, <2>2 DEF LogInv, LengthIsTrusted
<1>8. LinesStayInOrder'
  BY <1>1, OrderIsInOrder, OrderIsInOrderNext DEF LogInv
<1>9. FilesStayBounded'
  BY <1>1 DEF LogInv, FilesStayBounded, Exists
<1> QED BY <1>4, <1>5, <1>6, <1>7, <1>8, <1>9 DEF LogInv

(* A record fails, and may have left a part of its line.                   *)
LEMMA FailLogInv ==
  ASSUME LogInv, step # "None", Fail,
         IsFiles(files'), DOMAIN files' = DOMAIN files,
         InOrder(files', written'), written' \subseteq 0 .. lines,
         \A j \in DOMAIN files' : files'[j].bytes <= Bound,
         handle # Nowhere => files'[handle].bytes <= files[handle].bytes + LongestLine
  PROVE  LogInv'
<1>1. /\ failed' = failed \union {lock} /\ lock' = Free /\ step' = "None"
      /\ UNCHANGED <<running, health, handle, length, index, line, lines>>
  BY DEF Fail
<1>2. TypeOK'
  BY <1>1, HolderFacts DEF LogInv, TypeOK, IsFiles
<1>3. HolderRecords' /\ WriterIsOnNewest' /\ RotationHasRoom'
  BY <1>1, HolderFacts
  DEF LogInv, HolderRecords, WriterIsOnNewest, RotationHasRoom
<1>4. LengthIsTrusted'
  <2> SUFFICES ASSUME handle # Nowhere
               PROVE  files'[handle].bytes <= length + Slack(failed')
    BY <1>1 DEF LengthIsTrusted, Slack
  <2>1. handle \in DOMAIN files /\ files[handle].bytes \in Nat
    BY Facts
  <2>2. files'[handle].bytes \in Nat
    BY <2>1 DEF IsFiles, File
  <2>3. files[handle].bytes <= length + Slack(failed) /\ length \in Nat
    BY DEF LogInv, LengthIsTrusted, Slack, TypeOK
  <2>4. Slack(failed') = Slack(failed) + LongestLine /\ Slack(failed) \in Nat
    BY <1>1, HolderFacts
  <2> QED BY <2>1, <2>2, <2>3, <2>4, Bounds
<1>5. LinesStayInOrder'
  BY OrderIsInOrderNext
<1>6. FilesStayBounded'
  BY <1>1 DEF LogInv, FilesStayBounded, Bound, Exists
<1> QED BY <1>2, <1>3, <1>4, <1>5, <1>6 DEF LogInv

LEMMA FailBeforeWriting ==
  ASSUME LogInv, step # "None", Fail, UNCHANGED <<files, written>>
  PROVE  LogInv'
<1>1. /\ IsFiles(files') /\ DOMAIN files' = DOMAIN files
      /\ InOrder(files', written')
      /\ \A j \in DOMAIN files' : files'[j].bytes <= Bound
      /\ handle # Nowhere => files'[handle].bytes <= files[handle].bytes + LongestLine
  BY Facts, Bounds
<1>2. written' \subseteq 0 .. lines
  BY DEF LogInv, TypeOK
<1> QED BY <1>1, <1>2, FailLogInv

LEMMA RemoveOldestLogInv ==
  ASSUME LogInv, RemoveOldest
  PROVE  LogInv'
<1>1. step = "Remove" /\ step # "None" /\ written' = written
  BY DEF RemoveOldest
<1>2. CASE Fail /\ UNCHANGED files
  BY <1>1, <1>2, FailBeforeWriting
<1>3. CASE /\ files' = Removed(ArchiveCount)
           /\ handle' = IF handle = ArchiveCount THEN Nowhere ELSE handle
           /\ step' = "Shift"
           /\ index' = ArchiveCount
           /\ UNCHANGED <<running, health, length, lock, line, failed, lines>>
  <2>1. health = "Available" /\ Beyond \notin DOMAIN files
    BY <1>1, HolderFacts DEF LogInv, RotationHasRoom
  <2>2. \A j \in DOMAIN files : j <= ArchiveCount
    BY <2>1, Facts, Bounds DEF IsFiles, Beyond
  <2>3. ArchiveCount \in Int
    BY Bounds
  <2>4. /\ IsFiles(files')
        /\ InOrder(files', written')
        /\ DOMAIN files' = DOMAIN files \ {ArchiveCount}
    BY <1>1, <1>3, <2>2, <2>3, Facts, RemovedInOrder, Zenon
  <2>5. \A j \in DOMAIN files' : files'[j] = files[j]
    BY <1>3 DEF Removed
  <2>6. TypeOK'
    <3>1. handle' \in Int /\ index' \in 0 .. ArchiveCount
      BY <1>3, Facts, Bounds
    <3> QED BY <1>1, <1>3, <2>4, <3>1 DEF LogInv, TypeOK, IsFiles
  <2>7. HolderRecords'
    BY <1>1, <1>3, HolderFacts DEF LogInv, HolderRecords
  <2>8. WriterIsOnNewest'
    <3>1. CASE handle = ArchiveCount
      <4>1. \A j \in DOMAIN files : j = ArchiveCount
        BY <2>2, <3>1, Facts, Bounds DEF LogInv, WriterIsOnNewest
      <4>2. DOMAIN files' = {}
        BY <2>4, <4>1
      <4> QED BY <1>3, <2>1, <3>1, <4>2 DEF WriterIsOnNewest
    <3>2. CASE handle # ArchiveCount
      BY <1>3, <2>1, <2>4, <3>2 DEF LogInv, WriterIsOnNewest
    <3> QED BY <3>1, <3>2
  <2>9. RotationHasRoom'
    BY <1>3, <2>1, <2>4, Bounds DEF RotationHasRoom
  <2>10. LengthIsTrusted'
    <3>1. handle' # Nowhere => handle' = handle /\ handle \in DOMAIN files'
      BY <1>3, <2>4, Facts
    <3>2. handle' # Nowhere => files'[handle'].bytes <= length + Slack(failed)
      BY <2>5, <3>1 DEF LogInv, LengthIsTrusted, Slack
    <3> QED BY <1>3, <3>2 DEF LengthIsTrusted, Slack
  <2>11. LinesStayInOrder'
    BY <2>4, OrderIsInOrderNext
  <2>12. FilesStayBounded'
    <3>1. Beyond \notin DOMAIN files'
      BY <2>1, <2>4
    <3>2. \A j \in DOMAIN files' : files'[j].bytes <= Bound
      BY <2>4, <2>5, Facts
    <3> QED BY <3>1, <3>2 DEF FilesStayBounded, Bound, Exists
  <2> QED BY <2>6, <2>7, <2>8, <2>9, <2>10, <2>11, <2>12 DEF LogInv
<1> QED BY <1>2, <1>3 DEF RemoveOldest

LEMMA ShiftLogInv ==
  ASSUME LogInv, Shift
  PROVE  LogInv'
<1>1. step = "Shift" /\ step # "None" /\ written' = written
  BY DEF Shift
<1>2. CASE Fail /\ UNCHANGED files
  BY <1>1, <1>2, FailBeforeWriting
<1> DEFINE from == index - 1
<1>3. CASE /\ IF from \in DOMAIN files
              THEN /\ files' = Renamed(from, index)
                   /\ handle' = CASE handle = from -> index
                                  [] handle = index -> Nowhere
                                  [] OTHER -> handle
              ELSE UNCHANGED <<files, handle>>
           /\ index' = from
           /\ step' = IF index = 1 THEN "Reopen" ELSE "Shift"
           /\ UNCHANGED <<running, health, length, lock, line, failed, lines>>
  <2>1. /\ health = "Available"
        /\ Beyond \notin DOMAIN files
        /\ index \in 1 .. ArchiveCount /\ index \in Int
        /\ index \notin DOMAIN files
        /\ index # Beyond
    BY <1>1, HolderFacts, Bounds DEF LogInv, RotationHasRoom, TypeOK, Beyond
  <2>2. from \in DOMAIN files =>
          /\ IsFiles(Renamed(from, index))
          /\ InOrder(Renamed(from, index), written)
          /\ DOMAIN Renamed(from, index) = (DOMAIN files \ {from}) \union {index}
    BY <2>1, Facts, RenamedInOrder, Zenon
  <2>3. /\ IsFiles(files')
        /\ InOrder(files', written')
        /\ DOMAIN files' = IF from \in DOMAIN files
                           THEN (DOMAIN files \ {from}) \union {index}
                           ELSE DOMAIN files
    BY <1>1, <1>3, <2>2, Facts
  <2>4. \A j \in DOMAIN files' :
          files'[j] = IF from \in DOMAIN files /\ j = index
                      THEN files[from] ELSE files[j]
    <3>1. CASE from \in DOMAIN files
      BY <1>3, <3>1 DEF Renamed
    <3>2. CASE from \notin DOMAIN files
      BY <1>3, <3>2
    <3> QED BY <3>1, <3>2
  <2>5. handle' = IF from \in DOMAIN files /\ handle = from THEN index ELSE handle
    <3>1. handle # index
      <4>1. index # Nowhere
        BY <2>1, Bounds
      <4> QED BY <4>1, <2>1, Facts
    <3> QED BY <1>3, <3>1
  <2>6. from \in Int /\ from # index /\ from >= 0 /\ from < index
    BY <2>1, Bounds
  <2>7. TypeOK'
    <3>1. handle' \in Int
      BY <2>1, <2>5, Facts
    <3>2. index' \in 0 .. ArchiveCount
      BY <1>3, <2>1, Bounds
    <3>3. step' \in {"None", "Remove", "Shift", "Reopen", "Write"}
      BY <1>3
    <3> QED BY <1>1, <1>3, <2>3, <3>1, <3>2, <3>3 DEF LogInv, TypeOK, IsFiles
  <2>8. HolderRecords'
    BY <1>1, <1>3, HolderFacts DEF LogInv, HolderRecords
  <2>9. WriterIsOnNewest'
    <3>1. health' = "Available"
      BY <1>3, <2>1
    <3>2. handle' = Nowhere => handle = Nowhere
      BY <2>1, <2>5, Bounds
    <3>3. handle = Nowhere => DOMAIN files = {}
      BY <2>1 DEF LogInv, WriterIsOnNewest
    <3>4. handle = Nowhere => DOMAIN files' = {}
      BY <2>3, <3>3
    <3>5. ASSUME handle' # Nowhere
          PROVE  handle' \in DOMAIN files' /\ \A j \in DOMAIN files' : handle' <= j
      <4>1. handle # Nowhere
        BY <2>5, <3>5, <3>3
      <4>2. handle \in DOMAIN files /\ \A j \in DOMAIN files : handle <= j
        BY <4>1 DEF LogInv, WriterIsOnNewest
      <4>3. CASE from \in DOMAIN files /\ handle = from
        <5>1. \A j \in DOMAIN files \ {from} : j \in Int /\ from < j /\ j # index
          BY <4>2, <4>3, <2>1, Facts
        <5>2. \A j \in DOMAIN files \ {from} : index <= j
          BY <5>1, <2>6, <2>1
        <5> QED BY <2>1, <2>3, <2>5, <4>3, <5>2
      <4>4. CASE from \in DOMAIN files /\ handle # from
        <5>1. handle <= index
          BY <4>2, <4>4, <2>6, <2>1, Facts
        <5> QED BY <2>3, <2>5, <4>2, <4>4, <5>1
      <4>5. CASE from \notin DOMAIN files
        BY <2>3, <2>5, <4>2, <4>5
      <4> QED BY <4>3, <4>4, <4>5
    <3> QED BY <3>1, <3>2, <3>4, <3>5 DEF WriterIsOnNewest
  <2>10. RotationHasRoom'
    <3>1. Beyond \notin DOMAIN files'
      BY <2>1, <2>3
    <3>2. from \notin DOMAIN files'
      BY <2>3, <2>6
    <3>3. step' = "Shift" => index' >= 1
      BY <1>3, <2>1
    <3>4. step' = "Reopen" => from = Current
      BY <1>3, <2>1, Bounds
    <3> QED BY <1>3, <3>1, <3>2, <3>3, <3>4 DEF RotationHasRoom
  <2>11. LengthIsTrusted'
    <3>1. handle' # Nowhere =>
            /\ handle # Nowhere
            /\ handle \in DOMAIN files
            /\ files'[handle'] = files[handle]
      <4> SUFFICES ASSUME handle' # Nowhere
                   PROVE  /\ handle # Nowhere
                          /\ handle \in DOMAIN files
                          /\ files'[handle'] = files[handle]
        OBVIOUS
      <4>1. handle' \in DOMAIN files'
        BY <2>9 DEF WriterIsOnNewest
      <4>2. handle # Nowhere
        BY <2>5, <2>6, Bounds
      <4>3. handle \in DOMAIN files /\ handle # index
        BY <4>2, <2>1, Facts
      <4> QED BY <4>1, <4>2, <4>3, <2>4, <2>5
    <3>2. handle' # Nowhere => files'[handle'].bytes <= length + Slack(failed)
      BY <3>1 DEF LogInv, LengthIsTrusted, Slack
    <3>3. step' # "Write"
      BY <1>3
    <3> QED BY <1>3, <3>2, <3>3 DEF LengthIsTrusted, Slack
  <2>12. LinesStayInOrder'
    BY <2>3, OrderIsInOrderNext
  <2>13. FilesStayBounded'
    <3>1. \A j \in DOMAIN files' : files'[j].bytes <= Bound
      BY <2>3, <2>4, Facts
    <3> QED BY <2>1, <2>3, <3>1 DEF FilesStayBounded, Bound, Exists
  <2> QED BY <2>7, <2>8, <2>9, <2>10, <2>11, <2>12, <2>13 DEF LogInv
<1> QED BY <1>2, <1>3 DEF Shift, Exists

LEMMA ReopenLogInv ==
  ASSUME LogInv, Reopen
  PROVE  LogInv'
<1>1. step = "Reopen" /\ step # "None" /\ written' = written
  BY DEF Reopen
<1>2. CASE Fail /\ UNCHANGED files
  BY <1>1, <1>2, FailBeforeWriting
<1>3. CASE /\ files' = WithCurrent(files)
           /\ handle' = Current
           /\ length' = 0
           /\ step' = "Write"
           /\ UNCHANGED <<running, health, lock, index, line, failed, lines>>
  <2>1. /\ health = "Available"
        /\ Beyond \notin DOMAIN files
        /\ Current \notin DOMAIN files
    BY <1>1, HolderFacts DEF LogInv, RotationHasRoom
  <2>2. /\ IsFiles(files')
        /\ InOrder(files', written')
        /\ DOMAIN files' = DOMAIN files \union {Current}
    BY <1>1, <1>3, Facts, CurrentInOrder
  <2>3. \A j \in DOMAIN files' :
          files'[j] = IF j \in DOMAIN files THEN files[j] ELSE EmptyFile
    BY <1>3 DEF WithCurrent
  <2>4. files'[Current].bytes = 0
    BY <2>1, <2>2, <2>3 DEF EmptyFile
  <2>5. TypeOK'
    <3>1. handle' \in Int /\ length' \in Nat
      BY <1>3, Bounds
    <3> QED BY <1>1, <1>3, <2>2, <3>1 DEF LogInv, TypeOK, IsFiles
  <2>6. HolderRecords'
    BY <1>1, <1>3, HolderFacts DEF LogInv, HolderRecords
  <2>7. WriterIsOnNewest'
    BY <1>3, <2>1, <2>2, Bounds DEF WriterIsOnNewest, IsFiles
  <2>8. RotationHasRoom'
    BY <1>3, <2>1, <2>2, Bounds DEF RotationHasRoom
  <2>9. LengthIsTrusted'
    <3>1. 0 <= 0 + Slack(failed)
      BY <1>1, HolderFacts
    <3>2. 0 + line.bytes <= MaximumFileBytes
      BY <1>1, HolderFacts, Bounds
    <3> QED BY <1>3, <2>4, <3>1, <3>2 DEF LengthIsTrusted, Slack
  <2>10. LinesStayInOrder'
    BY <2>2, OrderIsInOrderNext
  <2>11. FilesStayBounded'
    <3>1. Beyond \notin DOMAIN files'
      BY <2>1, <2>2, Bounds
    <3>2. \A j \in DOMAIN files' : files'[j].bytes <= Bound
      BY <2>2, <2>3, <2>4, Facts, Bounds
    <3> QED BY <3>1, <3>2 DEF FilesStayBounded, Bound, Exists
  <2> QED BY <2>5, <2>6, <2>7, <2>8, <2>9, <2>10, <2>11 DEF LogInv
<1> QED BY <1>2, <1>3 DEF Reopen

LEMMA WriteLogInv ==
  ASSUME LogInv, Write
  PROVE  LogInv'
<1>1. step = "Write" /\ step # "None"
  BY DEF Write
<1>2. CASE Fail
  <2>1. CASE files' \in Fragments /\ UNCHANGED written
    <3>1. written' \subseteq 0 .. lines
      BY <2>1 DEF LogInv, TypeOK
    <3> QED BY <1>1, <1>2, <2>1, <3>1, FragmentFacts, FailLogInv
  <2>2. CASE LineWritten
    <3>1. handle # Nowhere => files'[handle].bytes <= files[handle].bytes + LongestLine
      BY <1>1, <2>2, LineFacts, HolderFacts, RoomForLine, Bounds
    <3> QED BY <1>1, <1>2, <2>2, <3>1, LineFacts, FailLogInv
  <2> QED BY <1>1, <1>2, <2>1, <2>2, HolderFacts DEF Write, Fail
<1>3. CASE /\ LineWritten
           /\ length' = length + line.bytes
           /\ lock' = Free
           /\ step' = "None"
           /\ UNCHANGED <<running, health, handle, index, line, failed, lines>>
  <2>1. length \in Nat /\ length' \in Nat
    BY <1>1, <1>3, HolderFacts DEF LogInv, TypeOK
  <2>2. TypeOK'
    BY <1>1, <1>3, <2>1, LineFacts DEF LogInv, TypeOK, IsFiles
  <2>3. HolderRecords' /\ WriterIsOnNewest' /\ RotationHasRoom'
    BY <1>1, <1>3, LineFacts, HolderFacts
    DEF LogInv, HolderRecords, WriterIsOnNewest, RotationHasRoom
  <2>4. LengthIsTrusted'
    <3> SUFFICES ASSUME handle # Nowhere
                 PROVE  files'[handle].bytes <= length' + Slack(failed)
      BY <1>3 DEF LengthIsTrusted, Slack
    <3>1. files'[handle].bytes = files[handle].bytes + line.bytes
      BY <1>1, <1>3, LineFacts
    <3>2. files[handle].bytes <= length + Slack(failed)
      BY DEF LogInv, LengthIsTrusted, Slack
    <3>3. /\ files[handle].bytes \in Nat /\ line.bytes \in Nat
          /\ Slack(failed) \in Nat
      BY <1>1, RoomForLine, HolderFacts
    <3> QED BY <1>3, <2>1, <3>1, <3>2, <3>3
  <2>5. LinesStayInOrder'
    BY <1>1, <1>3, LineFacts, OrderIsInOrderNext
  <2>6. FilesStayBounded'
    BY <1>1, <1>3, LineFacts DEF LogInv, FilesStayBounded, Bound, Exists
  <2> QED BY <2>2, <2>3, <2>4, <2>5, <2>6 DEF LogInv
<1> QED BY <1>2, <1>3 DEF Write

LEMMA DisableLogInv ==
  ASSUME LogInv, NEW t \in Threads, Disable(t)
  PROVE  LogInv'
<1>1. /\ lock = Free
      /\ failed' = failed \ {t}
      /\ health' = "Unavailable"
      /\ handle' = Nowhere
      /\ UNCHANGED <<files, running, length, lock, step, index, line, lines, written>>
  BY DEF Disable
<1>2. step = "None"
  BY <1>1 DEF LogInv, HolderRecords
<1>3. TypeOK'
  <2>1. handle' \in Int
    BY <1>1, Bounds
  <2> QED BY <1>1, <2>1 DEF LogInv, TypeOK
<1>4. HolderRecords' /\ WriterIsOnNewest' /\ RotationHasRoom' /\ LengthIsTrusted'
  BY <1>1, <1>2
  DEF LogInv, HolderRecords, WriterIsOnNewest, RotationHasRoom, LengthIsTrusted
<1>5. LinesStayInOrder'
  BY <1>1, OrderIsInOrder, OrderIsInOrderNext DEF LogInv
<1>6. FilesStayBounded'
  BY <1>1 DEF LogInv, FilesStayBounded, Exists
<1> QED BY <1>3, <1>4, <1>5, <1>6 DEF LogInv

LEMMA StutterLogInv ==
  ASSUME LogInv, UNCHANGED vars
  PROVE  LogInv'
BY DEF LogInv, vars, TypeOK, HolderRecords, WriterIsOnNewest, RotationHasRoom,
       LengthIsTrusted, LinesStayInOrder, FilesAreSorted, ArchivesAreOlder,
       OnlyTheOldestAreMissing, Held, FilesStayBounded, Exists

LEMMA NextLogInv == LogInv /\ [Next]_vars => LogInv'
<1> SUFFICES ASSUME LogInv, [Next]_vars PROVE LogInv'
  OBVIOUS
<1>1. CASE Initialize
  BY <1>1, InitializeLogInv
<1>2. CASE ProcessEnds
  BY <1>2, ProcessEndsLogInv
<1>3. ASSUME NEW t \in Threads, Record(t) PROVE LogInv'
  BY <1>3, RecordLogInv
<1>4. ASSUME NEW t \in Threads, Disable(t) PROVE LogInv'
  BY <1>4, DisableLogInv
<1>5. CASE RemoveOldest
  BY <1>5, RemoveOldestLogInv
<1>6. CASE Shift
  BY <1>6, ShiftLogInv
<1>7. CASE Reopen
  BY <1>7, ReopenLogInv
<1>8. CASE Write
  BY <1>8, WriteLogInv
<1>9. CASE UNCHANGED vars
  BY <1>9, StutterLogInv
<1> QED
  BY <1>1, <1>2, <1>3, <1>4, <1>5, <1>6, <1>7, <1>8, <1>9 DEF Next, LogStep

(* The inductive invariant: who holds the lock, where the writer stands     *)
(* among the files, and by how much it may be wrong about its own, hold    *)
(* through every step of RotatingWriter and of LocalLog::record.           *)
THEOREM LogInvariant == Spec => []LogInv
<1> QED BY InitLogInv, NextLogInv, PTL DEF Spec

(* Types: the files there are stand in the places of the current one, of   *)
(* the archives and of one more that an earlier version may have left, and *)
(* the handle of a log that is available is on one of them or on none      *)
(* (RotatingWriter).                                                       *)
THEOREM LogTypes == Spec => []TypeOK
<1>1. LogInv => TypeOK
  BY DEF LogInv
<1> QED BY <1>1, LogInvariant, PTL

(* However many archives there are and however many threads record: the    *)
(* failure of any step of a rotation, the threads that go on with the      *)
(* writer that failed, and the end of the process between any two steps    *)
(* leave the lines in the order of their records, each kept once, and none *)
(* missing that is newer than one that is kept (LocalLog::record, rotate). *)
THEOREM LogLinesStayInOrder == Spec => []LinesStayInOrder
<1>1. LogInv => LinesStayInOrder
  BY DEF LogInv
<1> QED BY <1>1, LogInvariant, PTL

(* Each thread that records can leave one line behind the writer's back    *)
(* before the log is disabled, except the one that would have noticed: that*)
(* is by how much a file may outgrow its maximum, and no archive beyond the*)
(* count is there while the log records (MAX_FILE_SIZE, ARCHIVE_COUNT).    *)
THEOREM LogFilesStayBounded == Spec => []FilesStayBounded
<1>1. LogInv => FilesStayBounded
  BY DEF LogInv
<1> QED BY <1>1, LogInvariant, PTL
=============================================================================
