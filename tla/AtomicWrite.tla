---------------------------- MODULE AtomicWrite ----------------------------
(***************************************************************************)
(* How the client saves a file: _atomic_write of client/keystore.py and    *)
(* the body of TrustStore._save of client/trust_store.py, which is the     *)
(* same sequence of calls: open path.tmp for writing, write, flush and     *)
(* fsync, os.replace(path.tmp, path).                                      *)
(*                                                                         *)
(* The file system is external and modelled from this use: a name refers   *)
(* to an inode, open(..., "wb") creates or truncates, a write goes to the  *)
(* inode of the open file even if it has been renamed meanwhile, fsync     *)
(* makes the bytes of an inode durable and os.replace moves a name         *)
(* atomically.  After a power failure the bytes that were not synced are   *)
(* gone from some point on, and a recent os.replace may be undone.         *)
(*                                                                         *)
(* A saved value is cut into Size pieces, so that a write can be           *)
(* interrupted in the middle.                                              *)
(***************************************************************************)
EXTENDS Integers, Sequences

CONSTANTS Writer,     \* processes that save to this path
          Value,      \* what they save
          Inode,      \* inodes of the directory
          NoInode,    \* the name does not exist
          Size,       \* pieces of a value
          MaxFailures \* bound: power failures

ASSUME SizeAssumption == Size \in Nat \ {0} /\ MaxFailures \in Nat
ASSUME NoInodeAssumption == NoInode \notin Inode

VARIABLES path,     \* inode of path
          tmp,      \* inode of path.tmp
          onDisk,   \* inode of path in the directory on disk
          data,     \* bytes of each inode
          synced,   \* inodes whose bytes are all on disk
          wpc,      \* what each writer does next
          value,    \* what it saves
          fd,       \* the inode it has open
          offset,   \* pieces it has written
          saved,    \* history: value of the last os.replace
          failures, \* power failures so far
          shared,   \* history: writers whose save overlaps another one
          mixed     \* history: inodes that such a save has put in place

vars == <<path, tmp, onDisk, data, synced, wpc, value, fd, offset, saved, failures, shared, mixed>>

Hole == <<>>                                    \* a piece nobody has written
Piece(v, k) == <<v, k>>
Pieces == {Hole} \cup {Piece(v, k) : v \in Value, k \in 1 .. Size}
Whole(v) == [k \in 1 .. Size |-> Piece(v, k)]

TypeOK ==
    /\ {path, tmp, onDisk} \subseteq Inode \cup {NoInode}
    /\ \A i \in Inode : Len(data[i]) <= Size /\ \A k \in DOMAIN data[i] : data[i][k] \in Pieces
    /\ synced \subseteq Inode
    /\ wpc \in [Writer -> {"idle", "write", "replace"}]
    /\ value \in [Writer -> Value]
    /\ fd \in [Writer -> Inode \cup {NoInode}]
    /\ offset \in [Writer -> 0 .. Size]
    /\ saved \in Value
    /\ failures \in 0 .. MaxFailures
    /\ shared \subseteq Writer /\ mixed \subseteq Inode

(* One complete file is there from an earlier save.                        *)
Init ==
    \E v0 \in Value, i0 \in Inode :
        /\ path = i0
        /\ tmp = NoInode
        /\ onDisk = i0
        /\ data = [i \in Inode |-> IF i = i0 THEN Whole(v0) ELSE <<>>]
        /\ synced = {i0}
        /\ wpc = [w \in Writer |-> "idle"]
        /\ value = [w \in Writer |-> v0]
        /\ fd = [w \in Writer |-> NoInode]
        /\ offset = [w \in Writer |-> 0]
        /\ saved = v0
        /\ failures = 0
        /\ shared = {} /\ mixed = {}

Free(i) == i \notin {path, tmp, onDisk} /\ \A w \in Writer : fd[w] # i

Overlaps(w) ==
    LET others == {o \in Writer \ {w} : wpc[o] # "idle"}
    IN  shared' = IF others = {} THEN shared ELSE shared \cup others \cup {w}

-----------------------------------------------------------------------------
(* Faulty variants, named after the bug, stand before the definition they  *)
(* are variants of; no action uses them.                                   *)
open_path_in_place(w, v) ==
    /\ wpc[w] = "idle"
    /\ tmp' = path
    /\ data' = [data EXCEPT ![path] = <<>>]
    /\ synced' = synced \ {path}
    /\ fd' = [fd EXCEPT ![w] = path]
    /\ wpc' = [wpc EXCEPT ![w] = "write"]
    /\ value' = [value EXCEPT ![w] = v]
    /\ offset' = [offset EXCEPT ![w] = 0]
    /\ Overlaps(w)
    /\ UNCHANGED <<path, onDisk, saved, failures, mixed>>

(* open(tmp, "wb"): a new inode, or the one another writer has left there  *)
(* or is still writing to.                                                 *)
open_tmp(w, v) ==
    /\ wpc[w] = "idle"
    /\ \E i \in Inode :
          /\ IF tmp = NoInode THEN Free(i) ELSE i = tmp
          /\ tmp' = i
          /\ data' = [data EXCEPT ![i] = <<>>]
          /\ synced' = synced \ {i}
          /\ fd' = [fd EXCEPT ![w] = i]
    /\ wpc' = [wpc EXCEPT ![w] = "write"]
    /\ value' = [value EXCEPT ![w] = v]
    /\ offset' = [offset EXCEPT ![w] = 0]
    /\ Overlaps(w)
    /\ UNCHANGED <<path, onDisk, saved, failures, mixed>>

(* The next piece goes to the writer's own offset; what lies between the   *)
(* end of the file and the offset reads as zeros.                          *)
PutAt(s, k, piece) ==
    [j \in 1 .. (IF k > Len(s) THEN k ELSE Len(s)) |->
        IF j = k THEN piece ELSE IF j \in DOMAIN s THEN s[j] ELSE Hole]

write(w) ==
    /\ wpc[w] = "write"
    /\ offset[w] < Size
    /\ offset' = [offset EXCEPT ![w] = @ + 1]
    /\ data' = [data EXCEPT ![fd[w]] = PutAt(@, offset[w] + 1, Piece(value[w], offset[w] + 1))]
    /\ synced' = synced \ {fd[w]}
    /\ UNCHANGED <<path, tmp, onDisk, wpc, value, fd, saved, failures, shared, mixed>>

Closed(w) ==
    /\ fd' = [fd EXCEPT ![w] = NoInode]
    /\ offset' = [offset EXCEPT ![w] = 0]

fsync_skipped(w) ==
    /\ wpc[w] = "write"
    /\ offset[w] = Size
    /\ wpc' = [wpc EXCEPT ![w] = "replace"]
    /\ Closed(w)
    /\ UNCHANGED <<path, tmp, onDisk, data, synced, value, saved, failures, shared, mixed>>

(* f.flush(), os.fsync and the end of the with block.                      *)
fsync(w) ==
    /\ wpc[w] = "write"
    /\ offset[w] = Size
    /\ synced' = synced \cup {fd[w]}
    /\ wpc' = [wpc EXCEPT ![w] = "replace"]
    /\ Closed(w)
    /\ UNCHANGED <<path, tmp, onDisk, data, value, saved, failures, shared, mixed>>

(* os.replace; FileNotFoundError if another writer has moved path.tmp.     *)
replace(w) ==
    /\ wpc[w] = "replace"
    /\ wpc' = [wpc EXCEPT ![w] = "idle"]
    /\ IF tmp # NoInode
       THEN /\ path' = tmp /\ tmp' = NoInode /\ saved' = value[w]
            /\ mixed' = (mixed \cap {onDisk}) \cup (IF w \in shared THEN {tmp} ELSE {})
       ELSE UNCHANGED <<path, tmp, saved, mixed>>
    /\ shared' = shared \ {w}
    /\ UNCHANGED <<onDisk, data, synced, value, fd, offset, failures>>

-----------------------------------------------------------------------------
(* The process dies in the middle of a save.                               *)
kill(w) ==
    /\ wpc[w] # "idle"
    /\ wpc' = [wpc EXCEPT ![w] = "idle"]
    /\ Closed(w)
    /\ shared' = shared \ {w}
    /\ UNCHANGED <<path, tmp, onDisk, data, synced, value, saved, failures, mixed>>

(* The kernel writes the directory out.                                    *)
writeback ==
    /\ onDisk # path
    /\ onDisk' = path
    /\ UNCHANGED <<path, tmp, data, synced, wpc, value, fd, offset, saved, failures, shared, mixed>>

power_failure ==
    /\ failures < MaxFailures
    /\ failures' = failures + 1
    /\ path' = onDisk
    /\ tmp' \in {tmp, NoInode} \ {onDisk}
    /\ \E left \in [Inode -> 0 .. Size] :
          data' = [i \in Inode |->
                      IF i \in synced \/ left[i] > Len(data[i]) THEN data[i]
                      ELSE SubSeq(data[i], 1, left[i])]
    /\ synced' = Inode
    /\ wpc' = [w \in Writer |-> "idle"]
    /\ fd' = [w \in Writer |-> NoInode]
    /\ offset' = [w \in Writer |-> 0]
    /\ shared' = {}
    /\ UNCHANGED <<onDisk, value, saved, mixed>>

Next ==
    \/ \E w \in Writer :
          \/ \E v \in Value : open_tmp(w, v)
          \/ write(w) \/ fsync(w) \/ replace(w)
          \/ kill(w)
    \/ writeback
    \/ power_failure

Spec == Init /\ [][Next]_vars

-----------------------------------------------------------------------------
(* The file is never truncated or mixed (the docstring of _atomic_write):  *)
(* whatever process dies and whenever power fails, load_keys and _load     *)
(* find one value that was saved, complete; a path.tmp that a dead process *)
(* has left does no harm, and neither does what two processes did before.  *)
(* Two that save at the same time share path.tmp, and what they put in     *)
(* place may be bytes of both: the next save that has the name to itself   *)
(* repairs it.                                                             *)
FileWhole == path \notin mixed => path # NoInode /\ \E v \in Value : data[path] = Whole(v)

(* What is read is what was saved last: as long as power does not fail,    *)
(* a save that died half-way leaves the previous value in place, and one   *)
(* that returned is what every later load finds, in every process.         *)
LastSaveRead == failures = 0 /\ path \notin mixed => data[path] = Whole(saved)
=============================================================================
