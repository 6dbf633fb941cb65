------------------------- MODULE AtomicWrite_proofs -------------------------
(***************************************************************************)
(* A saved file is whole, and is the last one saved, for any number of     *)
(* writers, values, inodes, pieces and power failures.                     *)
(***************************************************************************)
EXTENDS AtomicWrite, SequenceTheorems, TLAPS

-----------------------------------------------------------------------------
(* The inductive invariant.                                                *)

(* Contents of an inode.                                                   *)
Contents == UNION {[1 .. n -> Pieces] : n \in 0 .. Size}

(* The first n pieces of v.                                                *)
Written(v, n) == [k \in 1 .. n |-> Piece(v, k)]

Types ==
    /\ path \in Inode /\ onDisk \in Inode
    /\ tmp \in Inode \cup {NoInode}
    /\ data \in [Inode -> Contents]
    /\ synced \subseteq Inode
    /\ wpc \in [Writer -> {"idle", "write", "replace"}]
    /\ value \in [Writer -> Value]
    /\ fd \in [Writer -> Inode \cup {NoInode}]
    /\ offset \in [Writer -> 0 .. Size]
    /\ saved \in Value
    /\ failures \in 0 .. MaxFailures
    /\ shared \subseteq Writer /\ mixed \subseteq Inode

(* path.tmp is never the file itself, whatever os.replace and a power      *)
(* failure have done to the directory.                                     *)
Names == tmp \notin {path, onDisk}

(* A file is open exactly during the with block.                           *)
Opened == \A w \in Writer : wpc[w] = "write" <=> fd[w] # NoInode

(* A save that overlaps no other one: nobody else is saving, path.tmp is   *)
(* its file and has what it has written so far, and before os.replace it   *)
(* is complete and on disk.                                                *)
Alone(w) ==
    wpc[w] # "idle" /\ w \notin shared =>
        /\ \A o \in Writer \ {w} : wpc[o] = "idle"
        /\ tmp # NoInode
        /\ wpc[w] = "write" => fd[w] = tmp /\ data[tmp] = Written(value[w], offset[w])
        /\ wpc[w] = "replace" => tmp \in synced /\ data[tmp] = Whole(value[w])

(* A file that a save of that kind has put in place, in memory or on disk: *)
(* nobody writes to it any more, it is on disk and is one complete value.  *)
Intact(i) ==
    i \notin mixed =>
        /\ \A w \in Writer : fd[w] # i
        /\ i \in synced
        /\ \E v \in Value : data[i] = Whole(v)

IInv ==
    /\ Types /\ Names /\ Opened
    /\ \A w \in Writer : Alone(w)
    /\ Intact(path) /\ Intact(onDisk)
    /\ LastSaveRead
-----------------------------------------------------------------------------
(* Contents.                                                               *)

LEMMA ContentsFacts ==
    ASSUME NEW s \in Contents
    PROVE  /\ Len(s) \in 0 .. Size
           /\ s \in [1 .. Len(s) -> Pieces]
<1>1. PICK n \in 0 .. Size : s \in [1 .. n -> Pieces]
  BY DEF Contents
<1>2. Len(s) = n
  BY <1>1, SizeAssumption
<1> QED
  BY <1>1, <1>2

(* Whatever the offset, a write leaves pieces, and no more than Size.      *)
LEMMA PutContents ==
    ASSUME NEW s \in Contents, NEW k \in 1 .. Size, NEW p \in Pieces
    PROVE  PutAt(s, k, p) \in Contents
<1> DEFINE n == IF k > Len(s) THEN k ELSE Len(s)
<1>1. Len(s) \in 0 .. Size /\ s \in [1 .. Len(s) -> Pieces]
  BY ContentsFacts
<1>2. n \in 0 .. Size
  BY <1>1, SizeAssumption
<1>3. Hole \in Pieces
  BY DEF Pieces
<1>4. PutAt(s, k, p) \in [1 .. n -> Pieces]
  BY <1>1, <1>3 DEF PutAt
<1> QED
  BY <1>2, <1>4 DEF Contents

(* A writer that has the file to itself appends.                           *)
LEMMA PutWritten ==
    ASSUME NEW v \in Value, NEW n \in 0 .. Size, n < Size
    PROVE  PutAt(Written(v, n), n + 1, Piece(v, n + 1)) = Written(v, n + 1)
<1>1. Len(Written(v, n)) = n /\ DOMAIN Written(v, n) = 1 .. n
  BY SizeAssumption DEF Written
<1>2. PutAt(Written(v, n), n + 1, Piece(v, n + 1)) =
        [j \in 1 .. n + 1 |-> IF j = n + 1 THEN Piece(v, n + 1)
                              ELSE IF j \in 1 .. n THEN Written(v, n)[j] ELSE Hole]
  BY <1>1, SizeAssumption DEF PutAt
<1>3. \A j \in 1 .. n + 1 : j = n + 1 \/ j \in 1 .. n
  BY SizeAssumption
<1>4. \A j \in 1 .. n : Written(v, n)[j] = Piece(v, j)
  BY DEF Written
<1> QED
  BY <1>2, <1>3, <1>4 DEF Written

LEMMA WrittenContents ==
    ASSUME NEW v \in Value, NEW n \in 0 .. Size
    PROVE  Written(v, n) \in Contents
<1>1. \A k \in 1 .. n : Piece(v, k) \in Pieces
  BY SizeAssumption DEF Pieces
<1> QED
  BY <1>1 DEF Written, Contents

(* What a power failure leaves of an inode.                                *)
LEMMA TruncatedContents ==
    ASSUME NEW s \in Contents, NEW n \in 0 .. Size, ~(n > Len(s))
    PROVE  SubSeq(s, 1, n) \in Contents
<1>1. Len(s) \in 0 .. Size /\ s \in [1 .. Len(s) -> Pieces]
  BY ContentsFacts
<1>2. n \in Int /\ \A i \in 1 .. n : s[i] \in Pieces
  BY <1>1, SizeAssumption
<1>3. SubSeq(s, 1, n) \in Seq(Pieces) /\ Len(SubSeq(s, 1, n)) = n
  BY <1>2, SubSeqProperties, SizeAssumption
<1>4. SubSeq(s, 1, n) \in [1 .. n -> Pieces]
  BY <1>3, LenProperties
<1> QED
  BY <1>4 DEF Contents

-----------------------------------------------------------------------------
(* The inductive invariant.                                                *)

LEMMA InitIInv == Init => IInv
<1> SUFFICES ASSUME NEW v0 \in Value, NEW i0 \in Inode,
                    path = i0, tmp = NoInode, onDisk = i0,
                    data = [i \in Inode |-> IF i = i0 THEN Whole(v0) ELSE <<>>],
                    synced = {i0},
                    wpc = [w \in Writer |-> "idle"],
                    value = [w \in Writer |-> v0],
                    fd = [w \in Writer |-> NoInode],
                    offset = [w \in Writer |-> 0],
                    saved = v0, failures = 0, shared = {}, mixed = {}
             PROVE  IInv
  BY DEF Init
<1>1. Whole(v0) = Written(v0, Size) /\ <<>> = Written(v0, 0)
  BY SizeAssumption DEF Whole, Written
<1>2. data \in [Inode -> Contents]
  BY <1>1, WrittenContents, SizeAssumption
<1>3. Types
  BY <1>2, SizeAssumption DEF Types
<1>4. Names /\ Opened
  BY NoInodeAssumption DEF Names, Opened
<1>5. \A w \in Writer : Alone(w)
  BY DEF Alone
<1>6. Intact(i0) /\ LastSaveRead
  BY NoInodeAssumption DEF Intact, LastSaveRead
<1> QED
  BY <1>3, <1>4, <1>5, <1>6 DEF IInv

(* open(tmp, "wb") truncates an inode that is not the file.                *)
LEMMA OpenIInv ==
    ASSUME IInv, NEW w \in Writer, NEW v \in Value, open_tmp(w, v)
    PROVE  IInv'
<1> USE DEF IInv, Types
<1>1. PICK i \in Inode :
        /\ IF tmp = NoInode THEN Free(i) ELSE i = tmp
        /\ tmp' = i
        /\ data' = [data EXCEPT ![i] = <<>>]
        /\ synced' = synced \ {i}
        /\ fd' = [fd EXCEPT ![w] = i]
  BY DEF open_tmp
<1>2. /\ wpc[w] = "idle" /\ wpc' = [wpc EXCEPT ![w] = "write"]
      /\ value' = [value EXCEPT ![w] = v]
      /\ offset' = [offset EXCEPT ![w] = 0]
      /\ UNCHANGED <<path, onDisk, saved, failures, mixed>>
  BY DEF open_tmp
<1>3. shared' = IF \A o \in Writer \ {w} : wpc[o] = "idle" THEN shared
                ELSE shared \cup {o \in Writer \ {w} : wpc[o] # "idle"} \cup {w}
  BY DEF open_tmp, Overlaps
<1>4. i \notin {path, onDisk}
  BY <1>1 DEF Free, Names
<1>5. <<>> = Written(v, 0) /\ Written(v, 0) \in Contents
  <2>1. <<>> = Written(v, 0)
    BY DEF Written
  <2> QED
    BY <2>1, WrittenContents, SizeAssumption
<1>6. Types'
  <2>1. data' \in [Inode -> Contents]
    BY <1>1, <1>5
  <2>2. shared' \subseteq Writer
    BY <1>3
  <2> QED
    BY <1>1, <1>2, <2>1, <2>2, SizeAssumption
<1>7. Names' /\ Opened'
  BY <1>1, <1>2, <1>4, NoInodeAssumption DEF Names, Opened
<1>8. ASSUME NEW u \in Writer PROVE Alone(u)'
  <2>1. CASE u = w
    BY <1>1, <1>2, <1>3, <1>5, <2>1, NoInodeAssumption DEF Alone
  <2>2. CASE u # w
    BY <1>2, <1>3, <2>2 DEF Alone
  <2> QED
    BY <2>1, <2>2
<1>9. Intact(path)' /\ Intact(onDisk)' /\ LastSaveRead'
  BY <1>1, <1>2, <1>4 DEF Intact, LastSaveRead
<1> QED
  BY <1>6, <1>7, <1>8, <1>9

(* A write changes the inode the writer has open, which is not a file that *)
(* a save without overlaps has put in place.                               *)
LEMMA WriteIInv ==
    ASSUME IInv, NEW w \in Writer, write(w)
    PROVE  IInv'
<1> USE DEF IInv, Types
<1> DEFINE n == offset[w]
           new == PutAt(data[fd[w]], n + 1, Piece(value[w], n + 1))
<1>1. /\ wpc[w] = "write" /\ n \in 0 .. Size /\ n < Size
      /\ offset' = [offset EXCEPT ![w] = n + 1]
      /\ data' = [data EXCEPT ![fd[w]] = new]
      /\ synced' = synced \ {fd[w]}
      /\ UNCHANGED <<path, tmp, onDisk, wpc, value, fd, saved, failures, shared, mixed>>
  BY DEF write
<1>2. fd[w] \in Inode
  BY <1>1 DEF Opened
<1>3. n + 1 \in 1 .. Size
  BY <1>1, SizeAssumption
<1>4. new \in Contents
  <2>1. Piece(value[w], n + 1) \in Pieces
    BY <1>3 DEF Pieces
  <2> QED
    BY <1>2, <1>3, <2>1, PutContents
<1> HIDE DEF new
<1>5. Types'
  BY <1>1, <1>2, <1>3, <1>4, SizeAssumption
<1>6. Names' /\ Opened'
  BY <1>1 DEF Names, Opened
<1>7. ASSUME NEW u \in Writer PROVE Alone(u)'
  <2>1. CASE u = w /\ w \notin shared
    <3>1. fd[w] = tmp /\ data[tmp] = Written(value[w], n)
      BY <1>1, <2>1 DEF Alone
    <3>2. new = Written(value[w], n + 1)
      BY <1>1, <3>1, PutWritten DEF new
    <3> QED
      BY <1>1, <1>2, <2>1, <3>1, <3>2 DEF Alone
  <2>2. CASE u # w \/ w \in shared
    BY <1>1, <2>2 DEF Alone
  <2> QED
    BY <2>1, <2>2
<1>8. Intact(path)' /\ Intact(onDisk)' /\ LastSaveRead'
  BY <1>1, <1>2 DEF Intact, LastSaveRead
<1> QED
  BY <1>5, <1>6, <1>7, <1>8

(* fsync leaves the bytes alone.                                           *)
LEMMA FsyncIInv ==
    ASSUME IInv, NEW w \in Writer, fsync(w)
    PROVE  IInv'
<1> USE DEF IInv, Types
<1>1. /\ wpc[w] = "write" /\ offset[w] = Size
      /\ synced' = synced \cup {fd[w]}
      /\ wpc' = [wpc EXCEPT ![w] = "replace"]
      /\ fd' = [fd EXCEPT ![w] = NoInode]
      /\ offset' = [offset EXCEPT ![w] = 0]
      /\ UNCHANGED <<path, tmp, onDisk, data, value, saved, failures, shared, mixed>>
  BY DEF fsync, Closed
<1>2. fd[w] \in Inode
  BY <1>1 DEF Opened
<1>3. Types'
  BY <1>1, <1>2, SizeAssumption
<1>4. Names' /\ Opened'
  BY <1>1 DEF Names, Opened
<1>5. ASSUME NEW u \in Writer PROVE Alone(u)'
  <2>1. CASE u = w
    <3>1. Written(value[w], Size) = Whole(value[w])
      BY DEF Written, Whole
    <3> QED
      BY <1>1, <2>1, <3>1 DEF Alone
  <2>2. CASE u # w
    BY <1>1, <2>2 DEF Alone
  <2> QED
    BY <2>1, <2>2
<1>6. Intact(path)' /\ Intact(onDisk)' /\ LastSaveRead'
  BY <1>1, NoInodeAssumption DEF Intact, LastSaveRead
<1> QED
  BY <1>3, <1>4, <1>5, <1>6

(* os.replace puts a complete file in place, or one that is counted as     *)
(* mixed.                                                                  *)
LEMMA ReplaceIInv ==
    ASSUME IInv, NEW w \in Writer, replace(w)
    PROVE  IInv'
<1> USE DEF IInv, Types
<1>1. /\ wpc[w] = "replace"
      /\ wpc' = [wpc EXCEPT ![w] = "idle"]
      /\ shared' = shared \ {w}
      /\ UNCHANGED <<onDisk, data, synced, value, fd, offset, failures>>
  BY DEF replace
<1>2. \/ /\ tmp # NoInode
         /\ path' = tmp /\ tmp' = NoInode /\ saved' = value[w]
         /\ mixed' = (mixed \cap {onDisk}) \cup (IF w \in shared THEN {tmp} ELSE {})
      \/ UNCHANGED <<path, tmp, saved, mixed>>
  BY DEF replace
<1>3. Types'
  BY <1>1, <1>2
<1>4. Names' /\ Opened'
  BY <1>1, <1>2, NoInodeAssumption DEF Names, Opened
<1>5. ASSUME NEW u \in Writer PROVE Alone(u)'
  <2>1. CASE u = w
    BY <1>1, <2>1 DEF Alone
  <2>2. CASE u # w
    BY <1>1, <2>2 DEF Alone
  <2> QED
    BY <2>1, <2>2
<1>6. CASE w \notin shared /\ tmp # NoInode
  <2>1. /\ \A o \in Writer : fd[o] = NoInode
        /\ tmp \in synced /\ data[tmp] = Whole(value[w])
    BY <1>1, <1>6 DEF Alone, Opened
  <2>2. path' = tmp /\ mixed' = mixed \cap {onDisk} /\ saved' = value[w]
    BY <1>6 DEF replace
  <2>3. Intact(path)' /\ Intact(onDisk)' /\ LastSaveRead'
    BY <1>1, <2>1, <2>2, NoInodeAssumption DEF Intact, LastSaveRead, Names
  <2> QED
    BY <1>3, <1>4, <1>5, <2>3
<1>7. CASE w \in shared \/ tmp = NoInode
  <2>1. Intact(path)' /\ Intact(onDisk)' /\ LastSaveRead'
    BY <1>1, <1>7 DEF replace, Intact, LastSaveRead
  <2> QED
    BY <1>3, <1>4, <1>5, <2>1
<1> QED
  BY <1>6, <1>7

(* A process that dies leaves path.tmp as it is.                           *)
LEMMA KillIInv ==
    ASSUME IInv, NEW w \in Writer, kill(w)
    PROVE  IInv'
<1> USE DEF IInv, Types
<1>1. /\ wpc[w] # "idle"
      /\ wpc' = [wpc EXCEPT ![w] = "idle"]
      /\ fd' = [fd EXCEPT ![w] = NoInode]
      /\ offset' = [offset EXCEPT ![w] = 0]
      /\ shared' = shared \ {w}
      /\ UNCHANGED <<path, tmp, onDisk, data, synced, value, saved, failures, mixed>>
  BY DEF kill, Closed
<1>2. Types'
  BY <1>1, SizeAssumption
<1>3. Names' /\ Opened'
  BY <1>1 DEF Names, Opened
<1>4. ASSUME NEW u \in Writer PROVE Alone(u)'
  BY <1>1 DEF Alone
<1>5. Intact(path)' /\ Intact(onDisk)' /\ LastSaveRead'
  BY <1>1, NoInodeAssumption DEF Intact, LastSaveRead
<1> QED
  BY <1>2, <1>3, <1>4, <1>5

(* A power failure takes the bytes of files that are not synced, and       *)
(* brings back the name that is on disk.                                   *)
LEMMA PowerFailureIInv ==
    ASSUME IInv, power_failure
    PROVE  IInv'
<1> USE DEF IInv, Types
<1>1. /\ failures < MaxFailures
      /\ failures' = failures + 1
      /\ path' = onDisk
      /\ tmp' \in {tmp, NoInode} \ {onDisk}
      /\ synced' = Inode
      /\ wpc' = [w \in Writer |-> "idle"]
      /\ fd' = [w \in Writer |-> NoInode]
      /\ offset' = [w \in Writer |-> 0]
      /\ shared' = {}
      /\ UNCHANGED <<onDisk, value, saved, mixed>>
  BY DEF power_failure
<1>2. PICK left \in [Inode -> 0 .. Size] :
        data' = [i \in Inode |->
                    IF i \in synced \/ left[i] > Len(data[i]) THEN data[i]
                    ELSE SubSeq(data[i], 1, left[i])]
  BY DEF power_failure
<1>3. \A i \in Inode : data'[i] \in Contents
  BY <1>2, TruncatedContents
<1>4. data' \in [Inode -> Contents]
  BY <1>2, <1>3
<1>5. \A i \in synced : data'[i] = data[i]
  BY <1>2
<1>6. Types'
  BY <1>1, <1>4, SizeAssumption
<1>7. Names' /\ Opened' /\ \A w \in Writer : Alone(w)'
  BY <1>1 DEF Names, Opened, Alone
<1>8. Intact(path)' /\ Intact(onDisk)'
  BY <1>1, <1>5, NoInodeAssumption DEF Intact
<1>9. LastSaveRead'
  BY <1>1, SizeAssumption DEF LastSaveRead
<1> QED
  BY <1>6, <1>7, <1>8, <1>9

LEMMA NextIInv == IInv /\ [Next]_vars => IInv'
<1> SUFFICES ASSUME IInv, [Next]_vars PROVE IInv'
  OBVIOUS
<1>1. CASE writeback
  BY <1>1 DEF writeback, IInv, Types, Names, Opened, Alone, Intact, LastSaveRead
<1>2. CASE UNCHANGED vars
  BY <1>2 DEF vars, IInv, Types, Names, Opened, Alone, Intact, LastSaveRead
<1> QED
  BY <1>1, <1>2, OpenIInv, WriteIInv, FsyncIInv, ReplaceIInv, KillIInv, PowerFailureIInv DEF Next

THEOREM SavesAreSafe == Spec => []IInv
  BY InitIInv, NextIInv, PTL DEF Spec

-----------------------------------------------------------------------------
(* Whatever dies and whenever power fails, a file that no overlapping      *)
(* saves have put in place is one complete value (_atomic_write, _save).   *)
THEOREM FilesAreWhole == Spec => []FileWhole
<1>1. IInv => FileWhole
  BY NoInodeAssumption DEF IInv, Types, Intact, FileWhole
<1> QED
  BY <1>1, SavesAreSafe, PTL

(* And without a power failure it is the value that was saved last.        *)
THEOREM LastSaveIsRead == Spec => []LastSaveRead
<1>1. IInv => LastSaveRead
  BY DEF IInv
<1> QED
  BY <1>1, SavesAreSafe, PTL
=============================================================================
