----------------------------- MODULE AssetCache -----------------------------
(***************************************************************************)
(* The cached proving assets of go/keys/keys.go: ensureAsset, FileSHA256   *)
(* and download, run by any number of prover processes that share one      *)
(* cache directory, together with the consumer (readFrom in                *)
(* go/cmd/groth16bls/main.go) that later opens the path ensureAsset        *)
(* returned.                                                               *)
(*                                                                         *)
(* One asset is modelled: its final name (dst) and the fixed temporary     *)
(* name dst + ".part".  The file system keeps what the races depend on: a  *)
(* name is linked to an inode, an open file stays on its inode whatever    *)
(* happens to the name, os.Create on an existing name truncates the inode  *)
(* that is already there, os.Rename moves whatever is linked at the moment *)
(* of the call, os.Remove unlinks whatever is linked.  The contents are    *)
(* NChunks chunks, each absent, as the manifest's hash wants it, or wrong; *)
(* a file hashes to the pinned value iff every chunk read was good.        *)
(***************************************************************************)
EXTENDS Naturals, FiniteSets

CONSTANTS
  Procs,      \* the prover processes that share the cache directory
  Inodes,     \* file bodies the file system can hold
  NChunks,    \* chunks in the asset (reads and writes move one at a time)
  MaxFaults,  \* bound on environment faults in a behaviour
  None        \* no inode

ASSUME AssetCacheAssumption ==
  /\ NChunks \in Nat \ {0}
  /\ MaxFaults \in Nat
  /\ None \notin Inodes

VARIABLES
  path,       \* inode linked at dst
  part,       \* inode linked at dst + ".part"
  data,       \* contents of each inode
  pc,         \* where each process is
  fd,         \* the inode each process has open
  pos,        \* the next chunk a process reads or writes
  body,       \* what the HTTP response of a process carries
  faults,     \* faults so far
  collided,   \* history: two downloads have owned the .part name at once
  overlap,    \* history: two invocations have been active at once
  servedBad   \* history: a response carried bytes that are not the asset

files == <<path, part, data>>
history == <<collided, overlap, servedBad>>
vars == <<path, part, data, pc, fd, pos, body, faults, collided, overlap, servedBad>>

-----------------------------------------------------------------------------
Chunks == 1 .. NChunks
Content == {"absent", "good", "wrong"}
Bodies == {"none", "good", "wrong", "stalled"}

Reading == {"hashCached", "hashFetched", "load"}
InDownload == {"copy", "rename"}
Ended == {"idle", "loaded", "misloaded", "gone", "failed"}
Places == Reading \cup InDownload \cup Ended
          \cup {"fetch", "verify", "evict", "ready"}

Empty == [k \in Chunks |-> "absent"]
Whole(i) == \A k \in Chunks : data[i][k] = "good"
Active(p) == pc[p] \notin Ended
Linked == {path, part}
Free == {i \in Inodes : i \notin Linked /\ \A p \in Procs : fd[p] # i}

TypeOK ==
  /\ path \in Inodes \cup {None}
  /\ part \in Inodes \cup {None}
  /\ data \in [Inodes -> [Chunks -> Content]]
  /\ pc \in [Procs -> Places]
  /\ fd \in [Procs -> Inodes \cup {None}]
  /\ pos \in [Procs -> Chunks]
  /\ body \in [Procs -> Bodies]
  /\ faults \in 0 .. MaxFaults
  /\ collided \in BOOLEAN
  /\ overlap \in BOOLEAN
  /\ servedBad \in BOOLEAN

Init ==
  /\ path = None
  /\ part = None
  /\ data = [i \in Inodes |-> Empty]
  /\ pc = [p \in Procs |-> "idle"]
  /\ fd = [p \in Procs |-> None]
  /\ pos = [p \in Procs |-> 1]
  /\ body = [p \in Procs |-> "none"]
  /\ faults = 0
  /\ collided = FALSE
  /\ overlap = FALSE
  /\ servedBad = FALSE

-----------------------------------------------------------------------------
(* Steps of one process.  A step that ends or leaves a read or a write     *)
(* closes the file (fd = None) and forgets the response body.              *)

Goto(p, place) == pc' = [pc EXCEPT ![p] = place]
Fault == faults < MaxFaults /\ faults' = faults + 1

Close(p) ==
  /\ fd' = [fd EXCEPT ![p] = None]
  /\ pos' = [pos EXCEPT ![p] = 1]
  /\ body' = [body EXCEPT ![p] = "none"]

Open(p, i) ==
  /\ fd' = [fd EXCEPT ![p] = i]
  /\ pos' = [pos EXCEPT ![p] = 1]
  /\ UNCHANGED body

Keep(p) == UNCHANGED <<fd, pos, body>>

\* (Mutant of Invoke: a missing file counts as a cached one.)
InvokeTrustsMissing(p) ==
  /\ ~Active(p)
  /\ IF path = None
     THEN Goto(p, "ready") /\ Keep(p)
     ELSE Goto(p, "hashCached") /\ Open(p, path)
  /\ overlap' = (overlap \/ \E q \in Procs \ {p} : Active(q))
  /\ UNCHANGED <<files, faults, collided, servedBad>>

\* A prover starts: ensureAsset opens dst to hash it.  FileSHA256 returns
\* "" when there is nothing to open, which never equals the wanted hash.
Invoke(p) ==
  /\ ~Active(p)
  /\ IF path = None
     THEN Goto(p, "fetch") /\ Keep(p)
     ELSE Goto(p, "hashCached") /\ Open(p, path)
  /\ overlap' = (overlap \/ \E q \in Procs \ {p} : Active(q))
  /\ UNCHANGED <<files, faults, collided, servedBad>>

\* FileSHA256 and readFrom read on while the bytes are the wanted ones ...
ReadChunk(p) ==
  /\ pc[p] \in Reading
  /\ data[fd[p]][pos[p]] = "good"
  /\ pos[p] < NChunks
  /\ pos' = [pos EXCEPT ![p] = @ + 1]
  /\ UNCHANGED <<files, pc, fd, body, faults, history>>

\* ... a hash that read every chunk good matches: ensureAsset returns the
\* path (not the open file); a load that did is done ...
ReadWhole(p) ==
  /\ pc[p] \in Reading
  /\ data[fd[p]][pos[p]] = "good"
  /\ pos[p] = NChunks
  /\ Goto(p, IF pc[p] = "load" THEN "loaded" ELSE "ready")
  /\ Close(p)
  /\ UNCHANGED <<files, faults, history>>

\* ... and one bad or absent chunk decides the outcome: an asset that was
\* cached is fetched, one just fetched is evicted, a load has consumed
\* bytes that no hash covered.
AfterBadRead(place) ==
  CASE place = "hashCached" -> "fetch"
    [] place = "hashFetched" -> "evict"
    [] OTHER -> "misloaded"

ReadBad(p) ==
  /\ pc[p] \in Reading
  /\ data[fd[p]][pos[p]] # "good"
  /\ Goto(p, AfterBadRead(pc[p]))
  /\ Close(p)
  /\ UNCHANGED <<files, faults, history>>

\* FileSHA256 returns "" on an I/O error as well; readFrom dies of it.
ReadFault(p) ==
  /\ pc[p] \in Reading
  /\ Goto(p, IF pc[p] = "load" THEN "failed" ELSE AfterBadRead(pc[p]))
  /\ Close(p)
  /\ Fault
  /\ UNCHANGED <<files, history>>

\* (Mutant of Create: the download goes straight to dst, no .part.)
CreateInPlace(p) ==
  /\ pc[p] = "fetch"
  /\ \E i \in (IF path = None THEN Free ELSE {path}) :
        /\ path' = i
        /\ data' = [data EXCEPT ![i] = Empty]
        /\ fd' = [fd EXCEPT ![p] = i]
  /\ body' = [body EXCEPT ![p] = "good"]
  /\ pos' = [pos EXCEPT ![p] = 1]
  /\ Goto(p, "copy")
  /\ UNCHANGED <<part, faults, history>>

\* (Mutant of Create: O_EXCL, a leftover .part makes the fetch fail.)
CreateExclusive(p) ==
  /\ pc[p] = "fetch"
  /\ IF part # None
     THEN Goto(p, "failed") /\ Keep(p) /\ UNCHANGED <<part, data>>
     ELSE \E i \in Free :
            /\ part' = i
            /\ data' = [data EXCEPT ![i] = Empty]
            /\ Goto(p, "copy")
            /\ fd' = [fd EXCEPT ![p] = i]
            /\ body' = [body EXCEPT ![p] = "good"]
            /\ pos' = [pos EXCEPT ![p] = 1]
  /\ UNCHANGED <<path, faults, history>>

\* download, up to os.Create: a response with status 200 has begun and the
\* .part file is created, or truncated where it already exists - left by a
\* crash, or in use by another process.
Create(p) ==
  /\ pc[p] = "fetch"
  /\ \E i \in (IF part = None THEN Free ELSE {part}), b \in {"good", "wrong"} :
        /\ part' = i
        /\ data' = [data EXCEPT ![i] = Empty]
        /\ fd' = [fd EXCEPT ![p] = i]
        /\ body' = [body EXCEPT ![p] = b]
        /\ servedBad' = (servedBad \/ b = "wrong")
        /\ IF b = "wrong" THEN Fault ELSE UNCHANGED faults
  /\ pos' = [pos EXCEPT ![p] = 1]
  /\ Goto(p, "copy")
  /\ collided' = (collided \/ \E q \in Procs \ {p} : pc[q] \in InDownload)
  /\ UNCHANGED <<path, overlap>>

\* No URL in the manifest, a connection error, a status other than 200, or
\* a directory that cannot be made: ensureAsset fails, no file is touched.
GetFault(p) ==
  /\ pc[p] = "fetch"
  /\ Goto(p, "failed")
  /\ Keep(p)
  /\ Fault
  /\ UNCHANGED <<files, history>>

\* (Mutant of CopyChunk: one chunk too many.)
CopyPastEnd(p) ==
  /\ pc[p] = "copy"
  /\ body[p] # "stalled"
  /\ data' = [data EXCEPT ![fd[p]][pos[p]] = body[p]]
  /\ IF pos[p] <= NChunks
     THEN pos' = [pos EXCEPT ![p] = @ + 1] /\ UNCHANGED <<pc, fd, body>>
     ELSE Goto(p, "rename") /\ Close(p)
  /\ UNCHANGED <<path, part, faults, history>>

\* io.Copy writes the body at the process's own offset of the inode it has
\* open, wherever that inode is linked by now.
CopyChunk(p) ==
  /\ pc[p] = "copy"
  /\ body[p] # "stalled"
  /\ data' = [data EXCEPT ![fd[p]][pos[p]] = body[p]]
  /\ IF pos[p] < NChunks
     THEN pos' = [pos EXCEPT ![p] = @ + 1] /\ UNCHANGED <<pc, fd, body>>
     ELSE Goto(p, "rename") /\ Close(p)
  /\ UNCHANGED <<path, part, faults, history>>

\* The server stops sending but keeps the connection open.
Stall(p) ==
  /\ pc[p] = "copy"
  /\ body[p] # "stalled"
  /\ body' = [body EXCEPT ![p] = "stalled"]
  /\ Fault
  /\ UNCHANGED <<files, pc, fd, pos, history>>

\* io.Copy fails: close, and remove whatever is linked at the .part name.
AbandonCopy(p) ==
  /\ pc[p] = "copy"
  /\ part' = None
  /\ Goto(p, "failed")
  /\ Close(p)
  /\ UNCHANGED <<path, data, history>>

\* (Mutant of Timeout: a client with no Timeout waits for ever.)
NoTimeout(p) == FALSE /\ AbandonCopy(p) /\ UNCHANGED faults

\* The http.Client's 30 minute Timeout ends a stalled body ...
Timeout(p) ==
  /\ body[p] = "stalled"
  /\ AbandonCopy(p)
  /\ UNCHANGED faults

\* ... and a reset connection or a full disk ends any.
CopyFault(p) == AbandonCopy(p) /\ Fault

\* (Mutant of Rename: the fetched file is not hashed again.)
RenameUnverified(p) ==
  /\ pc[p] = "rename"
  /\ IF part = None
     THEN Goto(p, "failed") /\ UNCHANGED <<path, part>>
     ELSE Goto(p, "ready") /\ path' = part /\ part' = None
  /\ Keep(p)
  /\ UNCHANGED <<data, faults, history>>

\* os.Rename publishes whatever .part is at that moment; with no .part left
\* (another process renamed or removed it) the call fails.
Rename(p) ==
  /\ pc[p] = "rename"
  /\ IF part = None
     THEN Goto(p, "failed") /\ UNCHANGED <<path, part>>
     ELSE Goto(p, "verify") /\ path' = part /\ part' = None
  /\ Keep(p)
  /\ UNCHANGED <<data, faults, history>>

\* The Close before the rename, or the rename itself, fails: .part stays.
RenameFault(p) ==
  /\ pc[p] = "rename"
  /\ Goto(p, "failed")
  /\ Keep(p)
  /\ Fault
  /\ UNCHANGED <<files, history>>

\* The second FileSHA256 opens what dst names now.
Verify(p) ==
  /\ pc[p] = "verify"
  /\ IF path = None
     THEN Goto(p, "evict") /\ Keep(p)
     ELSE Goto(p, "hashFetched") /\ Open(p, path)
  /\ UNCHANGED <<files, faults, history>>

\* A mismatch after the download removes whatever dst names now.
Evict(p) ==
  /\ pc[p] = "evict"
  /\ path' = None
  /\ Goto(p, "failed")
  /\ Keep(p)
  /\ UNCHANGED <<part, data, faults, history>>

\* The caller opens the returned path again to load the asset; by then it
\* may be gone.
LoadOpen(p) ==
  /\ pc[p] = "ready"
  /\ IF path = None
     THEN Goto(p, "gone") /\ Keep(p)
     ELSE Goto(p, "load") /\ Open(p, path)
  /\ UNCHANGED <<files, faults, history>>

\* The process is killed: its file is closed, the names stay as they are.
Crash(p) ==
  /\ Active(p)
  /\ Goto(p, "idle")
  /\ Close(p)
  /\ Fault
  /\ UNCHANGED <<files, history>>

\* The machine goes down.  Nothing in this package calls Sync, so any chunk
\* may be missing afterwards.  (A rename the journal lost leaves the names
\* as a Crash before the Rename does.)
PowerLoss ==
  /\ \E lost \in SUBSET (Linked \X Chunks) :
        data' = [i \in Inodes |-> [k \in Chunks |->
                   IF <<i, k>> \in lost THEN "absent" ELSE data[i][k]]]
  /\ pc' = [p \in Procs |-> "idle"]
  /\ fd' = [p \in Procs |-> None]
  /\ pos' = [p \in Procs |-> 1]
  /\ body' = [p \in Procs |-> "none"]
  /\ Fault
  /\ UNCHANGED <<path, part, history>>

-----------------------------------------------------------------------------
\* What the program itself does, as opposed to what befalls it.
Step(p) ==
  \/ Invoke(p) \/ ReadChunk(p) \/ ReadWhole(p) \/ ReadBad(p)
  \/ Create(p) \/ CopyChunk(p) \/ Timeout(p) \/ Rename(p)
  \/ Verify(p) \/ Evict(p) \/ LoadOpen(p)

Misfortune(p) ==
  \/ ReadFault(p) \/ GetFault(p) \/ Stall(p) \/ CopyFault(p)
  \/ RenameFault(p) \/ Crash(p)

Next == (\E p \in Procs : Step(p) \/ Misfortune(p)) \/ PowerLoss

Spec == Init /\ [][Next]_vars

\* A running prover is scheduled, and whoever needs a proof runs the prover
\* again when it stopped.
Fairness == \A p \in Procs : WF_vars(Step(p))
FairSpec == Spec /\ Fairness

-----------------------------------------------------------------------------
(* Properties *)

\* ensureAsset's answer is a name, opened again later (keys.go:131-146,
\* main.go readFrom).  Bytes other than the hashed ones reach the loader
\* only if two downloads shared the .part file, or a wrong download of one
\* process was renamed over the asset another had verified.  Crashes, power
\* losses, stale .part files and faults on their own never do it.
WrongBytesNeedRace ==
  \A p \in Procs : pc[p] = "misloaded" => collided \/ (servedBad /\ overlap)

\* The asset a prover has verified disappears before it is loaded only if
\* another prover was running (its os.Remove after a mismatch, keys.go:142).
GoneNeedsOverlap ==
  \A p \in Procs : pc[p] = "gone" => overlap

\* A file that has left the .part name whole stays whole for everyone who
\* has it open or finds it at dst, whatever the other processes do, as long
\* as the server has only ever sent the asset: truncation reaches an inode
\* through the .part name only, and a late writer repeats good bytes.
WholeFilesStayWhole ==
  [][\A i \in Inodes :
        Whole(i) /\ i # part /\ i \notin Free /\ ~servedBad
          => Whole(i)' \/ PowerLoss]_vars

\* Every invocation of the prover's fetch ends, a stalled server included
\* (the client's Timeout, keys.go:167).
FetchEnds == \A p \in Procs : Active(p) ~> ~Active(p)

\* Once the faults stop, provers run one after another leave an intact asset
\* in the cache for good - a stale .part, a damaged or half-written dst
\* notwithstanding.  (Overlapping provers can go on evicting each other's
\* file for ever: one whose dst vanished removes the next one to appear.)
EventuallyCached == <>overlap \/ <>[](path # None /\ Whole(path))

\* keys.go:3-6: what the prover uses was "fetched from the ceremony release
\* on first use, SHA-256-verified against the manifest, and cached".  (It
\* need not be: a rename can put the unfinished .part of another prover over
\* the dst that a third one has verified and opens again by name.)
LoadedIsVerified == \A p \in Procs : pc[p] # "misloaded"
=============================================================================
