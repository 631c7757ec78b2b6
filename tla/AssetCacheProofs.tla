-------------------------- MODULE AssetCacheProofs --------------------------
(***************************************************************************)
(* Theorems about AssetCache for any number of processes, chunks and       *)
(* faults: its types, that wrong bytes reach a loader only through a race, *)
(* that a verified asset vanishes only under an overlapping run, and that  *)
(* a whole file stays whole.                                               *)
(*                                                                         *)
(* The properties speak of how a load ends, so none is inductive.  IInv    *)
(* follows an asset from the download to the load: who may write which     *)
(* inode (Inodes and bodies), what a download has written and a reader has *)
(* read so far (Progress), and what dst can name meanwhile (Trust).        *)
(***************************************************************************)
EXTENDS AssetCache, TLAPS

-----------------------------------------------------------------------------
(* The inductive invariant. *)

\* dst and .part never name the same inode, so truncating one spares the other.
NamesApart == path # None => path # part

\* A process that reads or copies has a file open; a reader's file is not the
\* one at .part, and a copier's response carries wrong bytes only if the
\* history says so.
FilesOpen ==
  \A p \in Procs :
    /\ pc[p] \in Reading => fd[p] \in Inodes /\ fd[p] # part
    /\ pc[p] = "copy" =>
         /\ fd[p] \in Inodes
         /\ body[p] # "none"
         /\ body[p] = "wrong" => servedBad

\* The history variables miss nothing.
HistoryExact ==
  /\ collided => overlap
  /\ \A p, q \in Procs : p # q =>
       /\ ~overlap => ~Active(p) \/ ~Active(q)
       /\ ~collided => pc[p] \notin InDownload \/ pc[q] \notin InDownload

\* Without a collision the only download owns .part, and what it has written
\* of a good response, like what a reader has read, is good.
Progress ==
  ~collided => \A p \in Procs :
    /\ pc[p] = "copy" =>
         /\ fd[p] = part
         /\ ~servedBad => \A k \in Chunks : k < pos[p] => data[part][k] = "good"
    /\ pc[p] = "rename" =>
         /\ part # None
         /\ ~servedBad => Whole(part)
    /\ pc[p] \in Reading =>
         \A k \in Chunks : k < pos[p] => data[fd[p]][k] = "good"

\* What dst can name between the hash and the load: with good responses only,
\* nothing, the file being hashed or a whole file; with one process at a time,
\* exactly the file it hashed.
Trust ==
  \A p \in Procs :
    /\ ~collided /\ ~servedBad =>
         /\ pc[p] \in {"hashCached", "hashFetched"} =>
              path = None \/ path = fd[p] \/ Whole(path)
         /\ pc[p] = "ready" => path = None \/ Whole(path)
         /\ pc[p] = "load" => Whole(fd[p]) /\ (path = None \/ Whole(path))
    /\ ~overlap =>
         /\ pc[p] \in {"hashCached", "hashFetched"} => path = fd[p]
         /\ pc[p] = "ready" => path # None /\ Whole(path)
         /\ pc[p] = "load" => Whole(fd[p])

IInv ==
  /\ TypeOK
  /\ NamesApart
  /\ FilesOpen
  /\ HistoryExact
  /\ Progress
  /\ Trust
  /\ WrongBytesNeedRace
  /\ GoneNeedsOverlap

-----------------------------------------------------------------------------
USE AssetCacheAssumption
    DEF Chunks, Content, Bodies, Reading, InDownload, Ended, Places, Active, Linked,
        files, history, Goto, Close, Open, Keep, Fault

LEMMA InvokeInv == ASSUME IInv, NEW p \in Procs, Invoke(p) PROVE IInv'
<1> USE DEF IInv
<1>1. TypeOK'
  <2>1. overlap' \in BOOLEAN
    BY Zenon DEF Invoke
  <2>2. CASE path = None
    BY <2>1, <2>2 DEF TypeOK, Invoke
  <2>3. CASE path # None
    <3>1. path \in Inodes /\ 1 \in Chunks /\ "hashCached" \in Places
      BY <2>3 DEF TypeOK
    <3>2. /\ pc' = [pc EXCEPT ![p] = "hashCached"]
          /\ fd' = [fd EXCEPT ![p] = path]
          /\ pos' = [pos EXCEPT ![p] = 1]
          /\ UNCHANGED <<path, part, data, body, faults, collided, servedBad>>
      BY <2>3 DEF Invoke
    <3> QED
      BY <2>1, <3>1, <3>2 DEF TypeOK
  <2> QED
    BY <2>2, <2>3
<1>2. NamesApart'
  BY DEF TypeOK, NamesApart, Invoke
<1>3. FilesOpen'
  BY DEF TypeOK, NamesApart, FilesOpen, Invoke
<1>4. HistoryExact'
  <2>1. (collided => overlap) /\ collided' = collided /\ (overlap => overlap')
    BY DEF HistoryExact, Invoke
  <2>2. \A q \in Procs \ {p} : pc'[q] = pc[q]
    BY DEF TypeOK, Invoke
  <2>3. pc'[p] \notin InDownload
    BY DEF TypeOK, Invoke
  <2>4. ~overlap' => \A q \in Procs \ {p} : ~Active(q)
    BY DEF Invoke
  <2> QED
    BY <2>1, <2>2, <2>3, <2>4 DEF TypeOK, HistoryExact
<1>5. Progress'
  BY DEF TypeOK, FilesOpen, HistoryExact, Progress, Whole, Invoke
<1>6. Trust'
  BY DEF TypeOK, NamesApart, FilesOpen, HistoryExact, Progress, Trust, Whole, Invoke
<1>7. WrongBytesNeedRace'
  BY DEF TypeOK, Trust, Whole, HistoryExact, WrongBytesNeedRace, Invoke
<1>8. GoneNeedsOverlap'
  BY DEF TypeOK, Trust, GoneNeedsOverlap, Invoke
<1> QED
  BY <1>1, <1>2, <1>3, <1>4, <1>5, <1>6, <1>7, <1>8

LEMMA ReadChunkInv == ASSUME IInv, NEW p \in Procs, ReadChunk(p) PROVE IInv'
<1> USE DEF IInv
<1>1. TypeOK'
  BY DEF TypeOK, FilesOpen, ReadChunk
<1>2. NamesApart'
  BY DEF TypeOK, NamesApart, ReadChunk
<1>3. FilesOpen'
  BY DEF TypeOK, NamesApart, FilesOpen, ReadChunk
<1>4. HistoryExact'
  BY DEF TypeOK, HistoryExact, ReadChunk
<1>5. Progress'
  BY DEF TypeOK, FilesOpen, HistoryExact, Progress, Whole, ReadChunk
<1>6. Trust'
  BY DEF TypeOK, NamesApart, FilesOpen, HistoryExact, Progress, Trust, Whole, ReadChunk
<1>7. WrongBytesNeedRace'
  BY DEF TypeOK, Trust, Whole, HistoryExact, WrongBytesNeedRace, ReadChunk
<1>8. GoneNeedsOverlap'
  BY DEF TypeOK, Trust, GoneNeedsOverlap, ReadChunk
<1> QED
  BY <1>1, <1>2, <1>3, <1>4, <1>5, <1>6, <1>7, <1>8

LEMMA ReadWholeInv == ASSUME IInv, NEW p \in Procs, ReadWhole(p) PROVE IInv'
<1> USE DEF IInv
<1>1. TypeOK'
  BY DEF TypeOK, FilesOpen, ReadWhole
<1>2. NamesApart'
  BY DEF TypeOK, NamesApart, ReadWhole
<1>3. FilesOpen'
  BY DEF TypeOK, NamesApart, FilesOpen, ReadWhole
<1>4. HistoryExact'
  BY DEF TypeOK, HistoryExact, ReadWhole
<1>5. Progress'
  BY DEF TypeOK, FilesOpen, HistoryExact, Progress, Whole, ReadWhole
<1>6. Trust'
  BY DEF TypeOK, NamesApart, FilesOpen, HistoryExact, Progress, Trust, Whole, ReadWhole
<1>7. WrongBytesNeedRace'
  BY DEF TypeOK, Trust, Whole, HistoryExact, WrongBytesNeedRace, ReadWhole
<1>8. GoneNeedsOverlap'
  BY DEF TypeOK, Trust, GoneNeedsOverlap, ReadWhole
<1> QED
  BY <1>1, <1>2, <1>3, <1>4, <1>5, <1>6, <1>7, <1>8

LEMMA ReadBadInv == ASSUME IInv, NEW p \in Procs, ReadBad(p) PROVE IInv'
<1> USE DEF IInv
<1>1. TypeOK'
  BY DEF TypeOK, FilesOpen, ReadBad, AfterBadRead
<1>2. NamesApart'
  BY DEF TypeOK, NamesApart, ReadBad, AfterBadRead
<1>3. FilesOpen'
  BY DEF TypeOK, NamesApart, FilesOpen, ReadBad, AfterBadRead
<1>4. HistoryExact'
  BY DEF TypeOK, HistoryExact, ReadBad, AfterBadRead
<1>5. Progress'
  BY DEF TypeOK, FilesOpen, HistoryExact, Progress, Whole, ReadBad, AfterBadRead
<1>6. Trust'
  BY DEF TypeOK, NamesApart, FilesOpen, HistoryExact, Progress, Trust, Whole, ReadBad, AfterBadRead
<1>7. WrongBytesNeedRace'
  BY DEF TypeOK, Trust, Whole, HistoryExact, WrongBytesNeedRace, ReadBad, AfterBadRead
<1>8. GoneNeedsOverlap'
  BY DEF TypeOK, Trust, GoneNeedsOverlap, ReadBad, AfterBadRead
<1> QED
  BY <1>1, <1>2, <1>3, <1>4, <1>5, <1>6, <1>7, <1>8

LEMMA ReadFaultInv == ASSUME IInv, NEW p \in Procs, ReadFault(p) PROVE IInv'
<1> USE DEF IInv
<1>1. TypeOK'
  BY DEF TypeOK, FilesOpen, ReadFault, AfterBadRead
<1>2. NamesApart'
  BY DEF TypeOK, NamesApart, ReadFault, AfterBadRead
<1>3. FilesOpen'
  BY DEF TypeOK, NamesApart, FilesOpen, ReadFault, AfterBadRead
<1>4. HistoryExact'
  BY DEF TypeOK, HistoryExact, ReadFault, AfterBadRead
<1>5. Progress'
  BY DEF TypeOK, FilesOpen, HistoryExact, Progress, Whole, ReadFault, AfterBadRead
<1>6. Trust'
  BY DEF TypeOK, NamesApart, FilesOpen, HistoryExact, Progress, Trust, Whole, ReadFault, AfterBadRead
<1>7. WrongBytesNeedRace'
  BY DEF TypeOK, Trust, Whole, HistoryExact, WrongBytesNeedRace, ReadFault, AfterBadRead
<1>8. GoneNeedsOverlap'
  BY DEF TypeOK, Trust, GoneNeedsOverlap, ReadFault, AfterBadRead
<1> QED
  BY <1>1, <1>2, <1>3, <1>4, <1>5, <1>6, <1>7, <1>8

LEMMA CreateInv == ASSUME IInv, NEW p \in Procs, Create(p) PROVE IInv'
<1> USE DEF IInv
<1>1. TypeOK'
  BY DEF TypeOK, FilesOpen, Create, Free, Empty
<1>2. NamesApart'
  BY DEF TypeOK, NamesApart, Create, Free, Empty
<1>3. FilesOpen'
  BY DEF TypeOK, NamesApart, FilesOpen, Create, Free, Empty
<1>4. HistoryExact'
  <2>1. \A q \in Procs \ {p} : pc'[q] = pc[q]
    BY DEF TypeOK, Create
  <2>2. Active(p) /\ overlap' = overlap
    BY DEF TypeOK, Create
  <2>3. (collided => collided') /\ (~collided' => \A q \in Procs \ {p} : pc[q] \notin InDownload)
    BY DEF Create
  <2>4. collided' => overlap
    BY <2>2 DEF HistoryExact, Create
  <2> QED
    BY <2>1, <2>2, <2>3, <2>4 DEF HistoryExact
<1>5. Progress'
  <2> PICK i \in Inodes :
         /\ i = part \/ i \in Free
         /\ part' = i /\ data' = [data EXCEPT ![i] = Empty]
         /\ fd' = [fd EXCEPT ![p] = i]
    BY DEF TypeOK, Free, Create
  <2>1. \A q \in Procs \ {p} : pc'[q] = pc[q] /\ fd'[q] = fd[q] /\ pos'[q] = pos[q]
    BY DEF TypeOK, Create
  <2>2. pc'[p] = "copy" /\ fd'[p] = part' /\ pos'[p] = 1
    BY DEF TypeOK, Create
  <2>3. ~collided' => ~collided /\ \A q \in Procs \ {p} : pc[q] \notin InDownload
    BY DEF Create
  <2>4. \A q \in Procs : pc[q] \in Reading => fd[q] # i
    BY DEF FilesOpen, Free
  <2>5. \A j \in Inodes \ {i} : data'[j] = data[j]
    BY DEF TypeOK
  <2> QED
    BY <2>1, <2>2, <2>3, <2>4, <2>5 DEF Progress, FilesOpen
<1>6. Trust'
  BY DEF TypeOK, NamesApart, FilesOpen, HistoryExact, Progress, Trust, Whole, Create, Free, Empty
<1>7. WrongBytesNeedRace'
  BY DEF TypeOK, Trust, Whole, HistoryExact, WrongBytesNeedRace, Create, Free, Empty
<1>8. GoneNeedsOverlap'
  BY DEF TypeOK, Trust, GoneNeedsOverlap, Create, Free, Empty
<1> QED
  BY <1>1, <1>2, <1>3, <1>4, <1>5, <1>6, <1>7, <1>8

LEMMA GetFaultInv == ASSUME IInv, NEW p \in Procs, GetFault(p) PROVE IInv'
<1> USE DEF IInv
<1>1. TypeOK'
  BY DEF TypeOK, FilesOpen, GetFault
<1>2. NamesApart'
  BY DEF TypeOK, NamesApart, GetFault
<1>3. FilesOpen'
  BY DEF TypeOK, NamesApart, FilesOpen, GetFault
<1>4. HistoryExact'
  BY DEF TypeOK, HistoryExact, GetFault
<1>5. Progress'
  BY DEF TypeOK, FilesOpen, HistoryExact, Progress, Whole, GetFault
<1>6. Trust'
  BY DEF TypeOK, NamesApart, FilesOpen, HistoryExact, Progress, Trust, Whole, GetFault
<1>7. WrongBytesNeedRace'
  BY DEF TypeOK, Trust, Whole, HistoryExact, WrongBytesNeedRace, GetFault
<1>8. GoneNeedsOverlap'
  BY DEF TypeOK, Trust, GoneNeedsOverlap, GetFault
<1> QED
  BY <1>1, <1>2, <1>3, <1>4, <1>5, <1>6, <1>7, <1>8

LEMMA CopyChunkInv == ASSUME IInv, NEW p \in Procs, CopyChunk(p) PROVE IInv'
<1> USE DEF IInv
<1>1. TypeOK'
  <2>1. fd[p] \in Inodes /\ body[p] \in Content
    BY DEF TypeOK, FilesOpen, CopyChunk
  <2>2. data' \in [Inodes -> [Chunks -> Content]]
    BY <2>1 DEF TypeOK, CopyChunk
  <2>3. CASE pos[p] < NChunks
    BY <2>2, <2>3 DEF TypeOK, CopyChunk
  <2>4. CASE ~(pos[p] < NChunks)
    <3>1. 1 \in Chunks /\ "rename" \in Places
      OBVIOUS
    <3> QED
      BY <2>2, <2>4, <3>1 DEF TypeOK, CopyChunk
  <2> QED
    BY <2>3, <2>4
<1>2. NamesApart'
  BY DEF TypeOK, NamesApart, CopyChunk
<1>3. FilesOpen'
  BY DEF TypeOK, NamesApart, FilesOpen, CopyChunk
<1>4. HistoryExact'
  BY DEF TypeOK, HistoryExact, CopyChunk
<1>5. Progress'
  <2> DEFINE i == fd[p]
             k0 == pos[p]
  <2>1. i \in Inodes /\ k0 \in Chunks /\ (~servedBad => body[p] = "good")
    BY DEF TypeOK, FilesOpen, CopyChunk
  <2>2. \A q \in Procs \ {p} : pc'[q] = pc[q] /\ fd'[q] = fd[q] /\ pos'[q] = pos[q]
    BY DEF TypeOK, CopyChunk
  <2>3. ~collided => \A q \in Procs \ {p} : pc[q] \notin InDownload
    BY DEF HistoryExact, CopyChunk
  <2>4. ~collided => i = part
    BY DEF Progress, CopyChunk
  <2>5. \A j \in Inodes \ {i} : data'[j] = data[j]
    BY DEF TypeOK, CopyChunk
  <2>6. /\ data'[i][k0] = body[p]
        /\ \A k \in Chunks \ {k0} : data'[i][k] = data[i][k]
    BY <2>1 DEF TypeOK, CopyChunk
  <2>7. UNCHANGED <<part, history>>
    BY DEF CopyChunk
  <2>8. ~collided /\ ~servedBad => \A k \in Chunks : k < k0 => data[i][k] = "good"
    BY <2>4 DEF Progress, CopyChunk
  <2>9. ~collided => \A q \in Procs : pc[q] \in Reading => fd[q] # i
    BY <2>4 DEF FilesOpen
  <2>10. CASE k0 < NChunks
    <3>1. pc' = pc /\ fd' = fd /\ pos'[p] = k0 + 1 /\ pc[p] = "copy"
      BY <2>10 DEF TypeOK, CopyChunk
    <3>2. ~collided /\ ~servedBad => \A k \in Chunks : k < k0 + 1 => data'[i][k] = "good"
      BY <2>1, <2>6, <2>8
    <3> QED
      BY <3>1, <3>2, <2>1, <2>2, <2>3, <2>4, <2>5, <2>7, <2>9 DEF Progress, FilesOpen
  <2>11. CASE ~(k0 < NChunks)
    <3>1. pc'[p] = "rename" /\ k0 = NChunks
      BY <2>11, <2>1 DEF TypeOK, CopyChunk
    <3>2. ~collided /\ ~servedBad => \A k \in Chunks : data'[i][k] = "good"
      <4> SUFFICES ASSUME ~collided, ~servedBad, NEW k \in Chunks
                   PROVE  data'[i][k] = "good"
        OBVIOUS
      <4>1. k = k0 \/ k < k0
        BY <3>1, <2>1
      <4> QED
        BY <4>1, <2>1, <2>6, <2>8
    <3>3. ASSUME ~collided' PROVE part' # None /\ (~servedBad' => Whole(part)')
      BY <3>2, <3>3, <2>1, <2>4, <2>7 DEF Whole
    <3> QED
      BY <3>1, <3>3, <2>2, <2>3, <2>5, <2>7, <2>9 DEF Progress, FilesOpen
  <2> QED
    BY <2>10, <2>11
<1>6. Trust'
  BY DEF TypeOK, NamesApart, FilesOpen, HistoryExact, Progress, Trust, Whole, CopyChunk
<1>7. WrongBytesNeedRace'
  BY DEF TypeOK, Trust, Whole, HistoryExact, WrongBytesNeedRace, CopyChunk
<1>8. GoneNeedsOverlap'
  BY DEF TypeOK, Trust, GoneNeedsOverlap, CopyChunk
<1> QED
  BY <1>1, <1>2, <1>3, <1>4, <1>5, <1>6, <1>7, <1>8

LEMMA StallInv == ASSUME IInv, NEW p \in Procs, Stall(p) PROVE IInv'
<1> USE DEF IInv
<1>1. TypeOK'
  BY DEF TypeOK, FilesOpen, Stall
<1>2. NamesApart'
  BY DEF TypeOK, NamesApart, Stall
<1>3. FilesOpen'
  BY DEF TypeOK, NamesApart, FilesOpen, Stall
<1>4. HistoryExact'
  BY DEF TypeOK, HistoryExact, Stall
<1>5. Progress'
  BY DEF TypeOK, FilesOpen, HistoryExact, Progress, Whole, Stall
<1>6. Trust'
  BY DEF TypeOK, NamesApart, FilesOpen, HistoryExact, Progress, Trust, Whole, Stall
<1>7. WrongBytesNeedRace'
  BY DEF TypeOK, Trust, Whole, HistoryExact, WrongBytesNeedRace, Stall
<1>8. GoneNeedsOverlap'
  BY DEF TypeOK, Trust, GoneNeedsOverlap, Stall
<1> QED
  BY <1>1, <1>2, <1>3, <1>4, <1>5, <1>6, <1>7, <1>8

LEMMA TimeoutInv == ASSUME IInv, NEW p \in Procs, Timeout(p) PROVE IInv'
<1> USE DEF IInv
<1>1. TypeOK'
  BY DEF TypeOK, FilesOpen, Timeout, AbandonCopy
<1>2. NamesApart'
  BY DEF TypeOK, NamesApart, Timeout, AbandonCopy
<1>3. FilesOpen'
  BY DEF TypeOK, NamesApart, FilesOpen, Timeout, AbandonCopy
<1>4. HistoryExact'
  BY DEF TypeOK, HistoryExact, Timeout, AbandonCopy
<1>5. Progress'
  BY DEF TypeOK, FilesOpen, HistoryExact, Progress, Whole, Timeout, AbandonCopy
<1>6. Trust'
  BY DEF TypeOK, NamesApart, FilesOpen, HistoryExact, Progress, Trust, Whole, Timeout, AbandonCopy
<1>7. WrongBytesNeedRace'
  BY DEF TypeOK, Trust, Whole, HistoryExact, WrongBytesNeedRace, Timeout, AbandonCopy
<1>8. GoneNeedsOverlap'
  BY DEF TypeOK, Trust, GoneNeedsOverlap, Timeout, AbandonCopy
<1> QED
  BY <1>1, <1>2, <1>3, <1>4, <1>5, <1>6, <1>7, <1>8

LEMMA CopyFaultInv == ASSUME IInv, NEW p \in Procs, CopyFault(p) PROVE IInv'
<1> USE DEF IInv
<1>1. TypeOK'
  BY DEF TypeOK, FilesOpen, CopyFault, AbandonCopy
<1>2. NamesApart'
  BY DEF TypeOK, NamesApart, CopyFault, AbandonCopy
<1>3. FilesOpen'
  BY DEF TypeOK, NamesApart, FilesOpen, CopyFault, AbandonCopy
<1>4. HistoryExact'
  BY DEF TypeOK, HistoryExact, CopyFault, AbandonCopy
<1>5. Progress'
  BY DEF TypeOK, FilesOpen, HistoryExact, Progress, Whole, CopyFault, AbandonCopy
<1>6. Trust'
  BY DEF TypeOK, NamesApart, FilesOpen, HistoryExact, Progress, Trust, Whole, CopyFault, AbandonCopy
<1>7. WrongBytesNeedRace'
  BY DEF TypeOK, Trust, Whole, HistoryExact, WrongBytesNeedRace, CopyFault, AbandonCopy
<1>8. GoneNeedsOverlap'
  BY DEF TypeOK, Trust, GoneNeedsOverlap, CopyFault, AbandonCopy
<1> QED
  BY <1>1, <1>2, <1>3, <1>4, <1>5, <1>6, <1>7, <1>8

LEMMA RenameInv == ASSUME IInv, NEW p \in Procs, Rename(p) PROVE IInv'
<1> USE DEF IInv
<1>1. TypeOK'
  BY DEF TypeOK, FilesOpen, Rename
<1>2. NamesApart'
  BY DEF TypeOK, NamesApart, Rename
<1>3. FilesOpen'
  BY DEF TypeOK, NamesApart, FilesOpen, Rename
<1>4. HistoryExact'
  BY DEF TypeOK, HistoryExact, Rename
<1>5. Progress'
  BY DEF TypeOK, FilesOpen, HistoryExact, Progress, Whole, Rename
<1>6. Trust'
  <2>1. \A q \in Procs \ {p} : pc'[q] = pc[q]
    BY DEF TypeOK, Rename
  <2>2. pc[p] = "rename" /\ pc'[p] \in {"failed", "verify"}
    BY DEF TypeOK, Rename
  <2>3. UNCHANGED <<data, fd, history>>
    BY DEF Rename
  <2>4. ~overlap => \A q \in Procs \ {p} : ~Active(q)
    BY <2>2 DEF HistoryExact
  <2>5. ~collided /\ ~servedBad => path' = path \/ Whole(path)'
    BY <2>2, <2>3 DEF Progress, Rename, Whole
  <2> QED
    BY <2>1, <2>2, <2>3, <2>4, <2>5 DEF Trust, Whole
<1>7. WrongBytesNeedRace'
  BY DEF TypeOK, Trust, Whole, HistoryExact, WrongBytesNeedRace, Rename
<1>8. GoneNeedsOverlap'
  BY DEF TypeOK, Trust, GoneNeedsOverlap, Rename
<1> QED
  BY <1>1, <1>2, <1>3, <1>4, <1>5, <1>6, <1>7, <1>8

LEMMA RenameFaultInv == ASSUME IInv, NEW p \in Procs, RenameFault(p) PROVE IInv'
<1> USE DEF IInv
<1>1. TypeOK'
  BY DEF TypeOK, FilesOpen, RenameFault
<1>2. NamesApart'
  BY DEF TypeOK, NamesApart, RenameFault
<1>3. FilesOpen'
  BY DEF TypeOK, NamesApart, FilesOpen, RenameFault
<1>4. HistoryExact'
  BY DEF TypeOK, HistoryExact, RenameFault
<1>5. Progress'
  BY DEF TypeOK, FilesOpen, HistoryExact, Progress, Whole, RenameFault
<1>6. Trust'
  BY DEF TypeOK, NamesApart, FilesOpen, HistoryExact, Progress, Trust, Whole, RenameFault
<1>7. WrongBytesNeedRace'
  BY DEF TypeOK, Trust, Whole, HistoryExact, WrongBytesNeedRace, RenameFault
<1>8. GoneNeedsOverlap'
  BY DEF TypeOK, Trust, GoneNeedsOverlap, RenameFault
<1> QED
  BY <1>1, <1>2, <1>3, <1>4, <1>5, <1>6, <1>7, <1>8

LEMMA VerifyInv == ASSUME IInv, NEW p \in Procs, Verify(p) PROVE IInv'
<1> USE DEF IInv
<1>1. TypeOK'
  <2>1. CASE path = None
    BY <2>1 DEF TypeOK, Verify
  <2>2. CASE path # None
    <3>1. path \in Inodes /\ 1 \in Chunks /\ "hashFetched" \in Places
      BY <2>2 DEF TypeOK
    <3>2. /\ pc' = [pc EXCEPT ![p] = "hashFetched"]
          /\ fd' = [fd EXCEPT ![p] = path]
          /\ pos' = [pos EXCEPT ![p] = 1]
          /\ UNCHANGED <<path, part, data, body, faults, collided, servedBad>>
      BY <2>2 DEF Verify
    <3> QED
      BY <3>1, <3>2 DEF TypeOK, Verify
  <2> QED
    BY <2>1, <2>2
<1>2. NamesApart'
  BY DEF TypeOK, NamesApart, Verify
<1>3. FilesOpen'
  BY DEF TypeOK, NamesApart, FilesOpen, Verify
<1>4. HistoryExact'
  BY DEF TypeOK, HistoryExact, Verify
<1>5. Progress'
  BY DEF TypeOK, FilesOpen, HistoryExact, Progress, Whole, Verify
<1>6. Trust'
  BY DEF TypeOK, NamesApart, FilesOpen, HistoryExact, Progress, Trust, Whole, Verify
<1>7. WrongBytesNeedRace'
  BY DEF TypeOK, Trust, Whole, HistoryExact, WrongBytesNeedRace, Verify
<1>8. GoneNeedsOverlap'
  BY DEF TypeOK, Trust, GoneNeedsOverlap, Verify
<1> QED
  BY <1>1, <1>2, <1>3, <1>4, <1>5, <1>6, <1>7, <1>8

LEMMA EvictInv == ASSUME IInv, NEW p \in Procs, Evict(p) PROVE IInv'
<1> USE DEF IInv
<1>1. TypeOK'
  BY DEF TypeOK, FilesOpen, Evict
<1>2. NamesApart'
  BY DEF TypeOK, NamesApart, Evict
<1>3. FilesOpen'
  BY DEF TypeOK, NamesApart, FilesOpen, Evict
<1>4. HistoryExact'
  BY DEF TypeOK, HistoryExact, Evict
<1>5. Progress'
  BY DEF TypeOK, FilesOpen, HistoryExact, Progress, Whole, Evict
<1>6. Trust'
  <2>1. \A q \in Procs \ {p} : pc'[q] = pc[q]
    BY DEF TypeOK, Evict
  <2>2. pc'[p] = "failed" /\ Active(p)
    BY DEF TypeOK, Evict
  <2>3. path' = None /\ UNCHANGED <<data, fd, history>>
    BY DEF Evict
  <2>4. ~overlap => \A q \in Procs \ {p} : ~Active(q)
    BY <2>2 DEF HistoryExact
  <2> QED
    BY <2>1, <2>2, <2>3, <2>4 DEF Trust, Whole
<1>7. WrongBytesNeedRace'
  BY DEF TypeOK, Trust, Whole, HistoryExact, WrongBytesNeedRace, Evict
<1>8. GoneNeedsOverlap'
  BY DEF TypeOK, Trust, GoneNeedsOverlap, Evict
<1> QED
  BY <1>1, <1>2, <1>3, <1>4, <1>5, <1>6, <1>7, <1>8

LEMMA LoadOpenInv == ASSUME IInv, NEW p \in Procs, LoadOpen(p) PROVE IInv'
<1> USE DEF IInv
<1>1. TypeOK'
  <2>1. CASE path = None
    BY <2>1 DEF TypeOK, LoadOpen
  <2>2. CASE path # None
    <3>1. path \in Inodes /\ 1 \in Chunks /\ "load" \in Places
      BY <2>2 DEF TypeOK
    <3>2. /\ pc' = [pc EXCEPT ![p] = "load"]
          /\ fd' = [fd EXCEPT ![p] = path]
          /\ pos' = [pos EXCEPT ![p] = 1]
          /\ UNCHANGED <<path, part, data, body, faults, collided, servedBad>>
      BY <2>2 DEF LoadOpen
    <3> QED
      BY <3>1, <3>2 DEF TypeOK, LoadOpen
  <2> QED
    BY <2>1, <2>2
<1>2. NamesApart'
  BY DEF TypeOK, NamesApart, LoadOpen
<1>3. FilesOpen'
  BY DEF TypeOK, NamesApart, FilesOpen, LoadOpen
<1>4. HistoryExact'
  BY DEF TypeOK, HistoryExact, LoadOpen
<1>5. Progress'
  BY DEF TypeOK, FilesOpen, HistoryExact, Progress, Whole, LoadOpen
<1>6. Trust'
  BY DEF TypeOK, NamesApart, FilesOpen, HistoryExact, Progress, Trust, Whole, LoadOpen
<1>7. WrongBytesNeedRace'
  BY DEF TypeOK, Trust, Whole, HistoryExact, WrongBytesNeedRace, LoadOpen
<1>8. GoneNeedsOverlap'
  BY DEF TypeOK, Trust, GoneNeedsOverlap, LoadOpen
<1> QED
  BY <1>1, <1>2, <1>3, <1>4, <1>5, <1>6, <1>7, <1>8

LEMMA CrashInv == ASSUME IInv, NEW p \in Procs, Crash(p) PROVE IInv'
<1> USE DEF IInv
<1>1. TypeOK'
  BY DEF TypeOK, FilesOpen, Crash
<1>2. NamesApart'
  BY DEF TypeOK, NamesApart, Crash
<1>3. FilesOpen'
  BY DEF TypeOK, NamesApart, FilesOpen, Crash
<1>4. HistoryExact'
  BY DEF TypeOK, HistoryExact, Crash
<1>5. Progress'
  BY DEF TypeOK, FilesOpen, HistoryExact, Progress, Whole, Crash
<1>6. Trust'
  BY DEF TypeOK, NamesApart, FilesOpen, HistoryExact, Progress, Trust, Whole, Crash
<1>7. WrongBytesNeedRace'
  BY DEF TypeOK, Trust, Whole, HistoryExact, WrongBytesNeedRace, Crash
<1>8. GoneNeedsOverlap'
  BY DEF TypeOK, Trust, GoneNeedsOverlap, Crash
<1> QED
  BY <1>1, <1>2, <1>3, <1>4, <1>5, <1>6, <1>7, <1>8

LEMMA PowerLossInv == ASSUME IInv, PowerLoss PROVE IInv'
<1> USE DEF IInv
<1>1. TypeOK'
  <2>1. data' \in [Inodes -> [Chunks -> Content]]
    BY DEF TypeOK, PowerLoss
  <2> QED
    BY <2>1 DEF TypeOK, PowerLoss
<1>2. \A p \in Procs : pc'[p] = "idle"
  BY DEF PowerLoss
<1>3. UNCHANGED <<path, part, history>>
  BY DEF PowerLoss
<1> QED
  BY <1>1, <1>2, <1>3 DEF NamesApart, FilesOpen, HistoryExact, Progress, Trust,
                          WrongBytesNeedRace, GoneNeedsOverlap

LEMMA StutterInv == ASSUME IInv, UNCHANGED vars PROVE IInv'
BY DEF IInv, vars, TypeOK, NamesApart, FilesOpen, HistoryExact, Progress, Trust, Whole,
       WrongBytesNeedRace, GoneNeedsOverlap

LEMMA InitInv == Init => IInv
<1> SUFFICES ASSUME Init PROVE IInv
  OBVIOUS
<1>1. TypeOK
  <2>1. 0 \in 0 .. MaxFaults /\ 1 \in Chunks
    OBVIOUS
  <2>2. Empty \in [Chunks -> Content]
    BY DEF Empty
  <2>3. "idle" \in Places /\ "none" \in Bodies
    OBVIOUS
  <2> HIDE DEF Chunks, Content, Places, Bodies
  <2> QED
    BY <2>1, <2>2, <2>3 DEF Init, TypeOK
<1>2. \A p \in Procs : pc[p] = "idle"
  BY DEF Init
<1>3. path = None /\ ~collided
  BY DEF Init
<1> QED
  BY <1>1, <1>2, <1>3 DEF IInv, NamesApart, FilesOpen, HistoryExact, Progress, Trust,
                          WrongBytesNeedRace, GoneNeedsOverlap

LEMMA NextInv == IInv /\ [Next]_vars => IInv'
<1> SUFFICES ASSUME IInv, [Next]_vars PROVE IInv'
  OBVIOUS
<1>1. ASSUME NEW p \in Procs, Step(p) PROVE IInv'
  BY <1>1, InvokeInv, ReadChunkInv, ReadWholeInv, ReadBadInv, CreateInv, CopyChunkInv,
     TimeoutInv, RenameInv, VerifyInv, EvictInv, LoadOpenInv DEF Step
<1>2. ASSUME NEW p \in Procs, Misfortune(p) PROVE IInv'
  BY <1>2, ReadFaultInv, GetFaultInv, StallInv, CopyFaultInv, RenameFaultInv, CrashInv
     DEF Misfortune
<1> QED
  BY <1>1, <1>2, PowerLossInv, StutterInv DEF Next

\* The invariant holds in every reachable state.
THEOREM Invariance == Spec => []IInv
BY InitInv, NextInv, PTL DEF Spec

\* Every variable keeps its type.
THEOREM TypeCorrect == Spec => []TypeOK
BY Invariance, PTL DEF IInv

\* Bytes no hash covered reach a loader only through a race (ensureAsset's
\* hash-then-reopen, keys.go:130-147).
THEOREM WrongBytesOnlyByRace == Spec => []WrongBytesNeedRace
BY Invariance, PTL DEF IInv

\* A verified asset is missing at load time only under overlapping runs.
THEOREM GoneOnlyByOverlap == Spec => []GoneNeedsOverlap
BY Invariance, PTL DEF IInv

-----------------------------------------------------------------------------
\* The step behind WholeFilesStayWhole: only Create and CopyChunk write, the
\* one to .part or a free inode, the other good bytes.
LEMMA WholeStep ==
  ASSUME IInv, [Next]_vars, NEW i \in Inodes,
         Whole(i), i # part, i \notin Free, ~servedBad
  PROVE  Whole(i)' \/ PowerLoss
<1> USE DEF IInv
<1>1. ASSUME NEW p \in Procs, Create(p) PROVE Whole(i)'
  <2> PICK j \in Inodes : (j = part \/ j \in Free) /\ data' = [data EXCEPT ![j] = Empty]
    BY <1>1 DEF TypeOK, Free, Create
  <2> QED
    BY DEF TypeOK, Whole
<1>2. ASSUME NEW p \in Procs, CopyChunk(p) PROVE Whole(i)'
  <2>1. fd[p] \in Inodes /\ body[p] = "good"
    BY <1>2 DEF TypeOK, FilesOpen, CopyChunk
  <2> QED
    BY <1>2, <2>1 DEF TypeOK, Whole, CopyChunk
<1>3. ASSUME NEW p \in Procs, Step(p) \/ Misfortune(p), ~Create(p), ~CopyChunk(p)
      PROVE  data' = data
  BY <1>3 DEF Step, Misfortune, Invoke, ReadChunk, ReadWhole, ReadBad, Timeout, AbandonCopy,
              Rename, Verify, Evict, LoadOpen, ReadFault, GetFault, Stall, CopyFault,
              RenameFault, Crash
<1>4. data' = data => Whole(i)'
  BY DEF Whole
<1> QED
  BY <1>1, <1>2, <1>3, <1>4 DEF Next, vars

\* No step damages a whole file that has left the .part name.
THEOREM WholeFilesSafe == Spec => WholeFilesStayWhole
<1>1. IInv /\ [Next]_vars =>
        [\A i \in Inodes : Whole(i) /\ i # part /\ i \notin Free /\ ~servedBad
                            => Whole(i)' \/ PowerLoss]_vars
  BY WholeStep
<1> QED
  BY <1>1, Invariance, PTL DEF Spec, WholeFilesStayWhole
=============================================================================
