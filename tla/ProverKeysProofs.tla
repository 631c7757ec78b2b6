-------------------------- MODULE ProverKeysProofs --------------------------
(***************************************************************************)
(* The claim at the head of go/cmd/groth16bls/main.go, for any number of   *)
(* processes, seals, dev setups, commands and aborts: a proof written out  *)
(* without --dev was made with the pinned keys.                            *)
(*                                                                         *)
(* The argument leans on memory, not on files: what the gate let through   *)
(* is the verifying key the prover holds, and the self-verify compares the *)
(* proving key it holds with that one.  Nothing that happens to the        *)
(* directory in between matters.                                           *)
(***************************************************************************)
EXTENDS ProverKeys, SequenceTheorems, TLAPS

-----------------------------------------------------------------------------
\* A process in the middle of writing has a file left to write.
PlanPending == \A p \in Procs : pc[p] \in Writing => plan[p] # <<>>

\* A dump writes its one file, and no other is moved from under its writer.
DumpPlanned == \A p \in Procs :
  /\ pc[p] = "dump" => \E v \in KeyContents : plan[p] = DumpPlan(v)
  /\ moved[p] # "no" => pc[p] = "dump"

\* Past the gate, a prover holds a verifying key, and the pinned one unless it
\* was started with --dev.
PastGate == {"readCCS", "readPK", "prove"}
GateHeld(m) == m.vk # Absent /\ (m.mode # "dev" => m.vk = Pin)
Gated == \A p \in Procs : pc[p] \in PastGate => GateHeld(mem[p])

IInv == TypeOK /\ PlanPending /\ DumpPlanned /\ Gated /\ ProductionIsPinned

USE ProverKeysAssumption
    DEF Gens, Modes, Wanted, KeyContents, Memory, NoMemory, Writing, Proving, Ended, Places,
        Openness, Moves, Active, Goto, Forget, Die, Start, PastGate, GateHeld

-----------------------------------------------------------------------------
LEMMA NoMemoryTyped == NoMemory \in Memory
OBVIOUS

\* Plans are sequences of files with contents of the right kind.
LEMMA PlansTyped ==
  /\ \A g \in Gens : SetupPlan(g) \in Seq(Items) /\ SetupPlan(g) # <<>>
  /\ FinalizePlan \in Seq(Items) /\ FinalizePlan # <<>>
  /\ \A o \in Output : OutPlan(o) \in Seq(Items) /\ OutPlan(o) # <<>>
  /\ \A g \in KeyContents : DumpPlan(g) \in Seq(Items) /\ DumpPlan(g) # <<>>
<1>1. ASSUME NEW f \in KeyFiles, NEW g \in KeyContents PROVE Item(f, g) \in Items
  BY <1>1 DEF Item, Items
<1>2. ASSUME NEW f \in OutFiles, NEW o \in Output \cup Gens PROVE Item(f, o) \in Items
  BY <1>2 DEF Item, Items
<1> HIDE DEF KeyContents
<1>3. \A g \in Gens : g \in KeyContents
  BY DEF KeyContents
<1>4. ASSUME NEW g \in Gens PROVE SetupPlan(g) \in Seq(Items) /\ SetupPlan(g) # <<>>
  BY <1>1, <1>3, <1>4 DEF SetupPlan, KeyFiles
<1>5. FinalizePlan \in Seq(Items) /\ FinalizePlan # <<>>
  BY <1>1, <1>3 DEF FinalizePlan, KeyFiles
<1>6. ASSUME NEW o \in Output PROVE OutPlan(o) \in Seq(Items) /\ OutPlan(o) # <<>>
  <2>1. o.gen \in Gens
    BY <1>6 DEF Output
  <2> QED
    BY <1>2, <1>6, <2>1 DEF OutPlan, OutFiles
<1>7. ASSUME NEW g \in KeyContents PROVE DumpPlan(g) \in Seq(Items) /\ DumpPlan(g) # <<>>
  BY <1>1, <1>7 DEF DumpPlan, KeyFiles
<1> QED
  BY <1>4, <1>5, <1>6, <1>7

LEMMA KindsApart == KeyFiles \cap OutFiles = {} /\ Files = KeyFiles \cup OutFiles
BY DEF KeyFiles, OutFiles, Files

\* One write keeps the kinds of the files.
LEMMA WriteTyped ==
  ASSUME FilesTyped, NEW i \in Items, NEW c \in {i.is, Mangled},
         file' = [file EXCEPT ![i.name] = c]
  PROVE  FilesTyped'
<1>1. CASE i.name \in KeyFiles
  <2>1. c \in KeyContents
    BY <1>1, KindsApart DEF Items
  <2> QED
    BY <1>1, <2>1, KindsApart DEF FilesTyped
<1>2. CASE i.name \in OutFiles
  <2>1. c \in OutContents
    BY <1>2, KindsApart DEF Items, OutContents
  <2> QED
    BY <1>2, <2>1, KindsApart DEF FilesTyped
<1> QED
  BY <1>1, <1>2 DEF Items

-----------------------------------------------------------------------------
(* One lemma per action. *)

LEMMA SetupStep == ASSUME IInv, NEW p \in Procs, Setup(p) PROVE IInv'
<1> USE DEF IInv
<1>1. PICK g \in DevGens : used' = used \cup {g} /\ plan' = [plan EXCEPT ![p] = SetupPlan(g)]
  BY DEF Setup
<1>2. SetupPlan(g) \in Seq(Items) /\ SetupPlan(g) # <<>>
  BY PlansTyped
<1>3. TypeOK'
  <2>1. overlap' \in BOOLEAN
    BY Zenon DEF Setup
  <2> QED
    BY <1>1, <1>2, <2>1 DEF TypeOK, FilesTyped, Setup
<1>4. PlanPending' /\ DumpPlanned' /\ Gated' /\ ProductionIsPinned'
  BY <1>1, <1>2 DEF TypeOK, PlanPending, DumpPlanned, Gated, ProductionIsPinned, Setup
<1> QED
  BY <1>3, <1>4

LEMMA FinalizeStep == ASSUME IInv, NEW p \in Procs, Finalize(p) PROVE IInv'
<1> USE DEF IInv
<1>1. TypeOK'
  <2>1. overlap' \in BOOLEAN
    BY Zenon DEF Finalize
  <2> QED
    BY <2>1, PlansTyped DEF TypeOK, FilesTyped, Finalize
<1>2. PlanPending' /\ DumpPlanned' /\ Gated' /\ ProductionIsPinned'
  BY PlansTyped DEF TypeOK, PlanPending, DumpPlanned, Gated, ProductionIsPinned, Finalize
<1> QED
  BY <1>1, <1>2

LEMMA CreateFileStep == ASSUME IInv, NEW p \in Procs, CreateFile(p) PROVE IInv'
<1> USE DEF IInv
<1>1. plan[p][1] \in Items
  BY DEF TypeOK, CreateFile
<1>2. FilesTyped'
  BY <1>1, WriteTyped DEF TypeOK, CreateFile
<1>3. open' \in [Procs -> Openness]
  BY DEF TypeOK, CreateFile
<1>4. dumpSpoilt' \in BOOLEAN
  BY Zenon DEF CreateFile
<1>5. TypeOK'
  BY <1>2, <1>3, <1>4 DEF TypeOK, CreateFile
<1>6. PlanPending' /\ DumpPlanned' /\ Gated' /\ ProductionIsPinned'
  BY DEF PlanPending, DumpPlanned, Gated, ProductionIsPinned, CreateFile
<1> QED
  BY <1>5, <1>6

LEMMA FinishFileStep == ASSUME IInv, NEW p \in Procs, FinishFile(p) PROVE IInv'
<1> USE DEF IInv
<1>1. plan[p] \in Seq(Items) /\ plan[p] # <<>>
  BY DEF TypeOK, PlanPending, DumpPlanned, FinishFile
<1>2. plan[p][1] \in Items /\ Tail(plan[p]) \in Seq(Items)
  BY <1>1
<1>3. FilesTyped'
  <2>1. CASE moved[p] = "no"
    BY <1>2, <2>1, WriteTyped DEF TypeOK, FinishFile, Target
  <2>2. CASE moved[p] = "gone"
    BY <2>2 DEF TypeOK, FilesTyped, FinishFile
  <2>3. CASE moved[p] = "renamed"
    <3>1. pc[p] = "dump"
      BY <2>3 DEF DumpPlanned
    <3>2. plan[p][1].is \in KeyContents
      <4>1. PICK v \in KeyContents : plan[p] = DumpPlan(v)
        BY <3>1 DEF DumpPlanned
      <4> QED
        BY <4>1 DEF DumpPlan, Item
    <3>3. PICK c \in KeyContents : file' = [file EXCEPT !["dump"] = c]
      BY <2>3, <3>2 DEF FinishFile, Target
    <3> QED
      BY <3>3, KindsApart DEF TypeOK, FilesTyped, KeyFiles
  <2> QED
    BY <2>1, <2>2, <2>3 DEF TypeOK
<1>4. pc' = pc \/ pc' = [pc EXCEPT ![p] = AfterWriting(pc[p])]
  BY DEF FinishFile
<1>5. AfterWriting(pc[p]) \in {"ended", "finalized", "proved", "rename"}
  BY DEF AfterWriting
<1>6. TypeOK'
  <2>1. pc' \in [Procs -> Places]
    BY <1>4, <1>5 DEF TypeOK
  <2>2. plan' \in [Procs -> Seq(Items)] /\ open' \in [Procs -> Openness] /\ moved' \in [Procs -> Moves]
    BY <1>2 DEF TypeOK, FinishFile
  <2> QED
    BY <1>3, <2>1, <2>2 DEF TypeOK, FinishFile
<1>7. PlanPending'
  <2>1. CASE Len(plan[p]) = 1
    BY <2>1, <1>5 DEF TypeOK, PlanPending, DumpPlanned, FinishFile
  <2>2. CASE Len(plan[p]) # 1
    <3>1. Tail(plan[p]) # <<>>
      <4>1. Len(plan[p]) \in Nat /\ Len(plan[p]) >= 1
        BY <1>1
      <4>2. Len(Tail(plan[p])) = Len(plan[p]) - 1
        BY <1>1
      <4>3. Len(Tail(plan[p])) # 0
        BY <4>1, <4>2, <2>2
      <4> QED
        BY <4>3, EmptySeq
    <3> QED
      BY <2>2, <3>1 DEF TypeOK, PlanPending, DumpPlanned, FinishFile
  <2> QED
    BY <2>1, <2>2
<1>8. DumpPlanned'
  <2>1. pc[p] = "dump" => Len(plan[p]) = 1
    BY DEF DumpPlanned, DumpPlan
  <2>2. pc'[p] # "dump"
    BY <1>4, <1>5, <2>1 DEF TypeOK, FinishFile
  <2> QED
    BY <1>4, <1>5, <2>2 DEF TypeOK, DumpPlanned, FinishFile
<1>9. Gated' /\ ProductionIsPinned'
  BY <1>4, <1>5 DEF TypeOK, Gated, ProductionIsPinned, FinishFile
<1> QED
  BY <1>6, <1>7, <1>8, <1>9

LEMMA AbortStep == ASSUME IInv, NEW p \in Procs, Abort(p) PROVE IInv'
<1> USE DEF IInv
<1>1. FilesTyped'
  BY KindsApart DEF TypeOK, FilesTyped, KeyFiles, Abort
<1>2. outSpoilt' \in BOOLEAN
  BY Zenon DEF Abort
<1>3. /\ moved' \in [Procs -> Moves] /\ moved'[p] = "no"
      /\ \A q \in Procs \ {p} : moved'[q] # "no" => pc[q] = "dump"
  <2>1. CASE moved' = [moved EXCEPT ![p] = "no"]
    BY <2>1 DEF TypeOK, DumpPlanned
  <2>2. CASE moved' = Removed(p)
    BY <2>2 DEF TypeOK, DumpPlanned, Removed, DumpsInto
  <2> QED
    BY <2>1, <2>2 DEF Abort
<1>4. TypeOK'
  <2>1. pc' \in [Procs -> Places] /\ mem' \in [Procs -> Memory]
    BY NoMemoryTyped DEF TypeOK, Abort
  <2>2. plan' \in [Procs -> Seq(Items)] /\ open' \in [Procs -> Openness]
    BY DEF TypeOK, Abort
  <2> QED
    BY <1>1, <1>2, <1>3, <2>1, <2>2 DEF TypeOK, Abort
<1>5. PlanPending' /\ DumpPlanned' /\ Gated' /\ ProductionIsPinned'
  BY <1>3 DEF TypeOK, PlanPending, DumpPlanned, Gated, ProductionIsPinned, Abort
<1> QED
  BY <1>4, <1>5

LEMMA ProveStep == ASSUME IInv, NEW p \in Procs, Prove(p) PROVE IInv'
<1> USE DEF IInv
<1>1. PICK m \in Modes, w \in Wanted, s \in Seals :
        mem' = [mem EXCEPT ![p] = [NoMemory EXCEPT !.mode = m, !.want = w, !.seal = s]]
  BY DEF Prove
<1>2. [NoMemory EXCEPT !.mode = m, !.want = w, !.seal = s] \in Memory
  BY NoMemoryTyped
<1>3. overlap' \in BOOLEAN
  BY Zenon DEF Prove
<1>4. TypeOK'
  BY <1>1, <1>2, <1>3 DEF TypeOK, FilesTyped, Prove
<1>5. PlanPending' /\ DumpPlanned' /\ Gated' /\ ProductionIsPinned'
  BY <1>1 DEF TypeOK, PlanPending, DumpPlanned, Gated, ProductionIsPinned, Prove
<1> QED
  BY <1>4, <1>5

\* What passes the gate without --dev is the pinned key.
LEMMA GateIsPinned ==
  ASSUME NEW m \in Memory, NEW v \in KeyContents, GatePasses(m, v), m.mode # "dev"
  PROVE  v = Pin
BY DEF GatePasses

\* What a prover remembers of a file it read.
LEMMA Remembered ==
  ASSUME NEW m \in Memory, NEW v \in KeyContents
  PROVE  /\ [m EXCEPT !.vk = v] \in Memory
         /\ [m EXCEPT !.vk = v].vk = v /\ [m EXCEPT !.vk = v].mode = m.mode
         /\ [m EXCEPT !.ccs = v] \in Memory
         /\ [m EXCEPT !.ccs = v].vk = m.vk /\ [m EXCEPT !.ccs = v].mode = m.mode
         /\ [m EXCEPT !.pk = v] \in Memory
         /\ [m EXCEPT !.pk = v].vk = m.vk /\ [m EXCEPT !.pk = v].mode = m.mode
OBVIOUS

\* A step that only changes what a process remembers and where it is.
LEMMA MoveOn ==
  ASSUME IInv, NEW p \in Procs, pc[p] # "dump",
         NEW place \in Places \ Writing, NEW m \in Memory,
         place \in PastGate => GateHeld(m),
         pc' = [pc EXCEPT ![p] = place], mem' = [mem EXCEPT ![p] = m],
         UNCHANGED <<file, plan, open, moved, used, runs, aborts, overlap, dumped, dumpSpoilt, outSpoilt,
                     published>>
  PROVE  IInv'
<1> HIDE DEF Memory, Places, Writing, PastGate, GateHeld
<1>1. TypeOK'
  <2>1. mem' \in [Procs -> Memory] /\ pc' \in [Procs -> Places]
    BY DEF IInv, TypeOK
  <2> QED
    BY <2>1 DEF IInv, TypeOK, FilesTyped
<1>2. PlanPending' /\ ProductionIsPinned'
  BY DEF IInv, TypeOK, PlanPending, ProductionIsPinned
<1>3. DumpPlanned'
  <2>1. place # "dump"
    BY DEF Writing
  <2> QED
    BY <2>1 DEF IInv, TypeOK, DumpPlanned
<1>4. Gated'
  BY DEF IInv, TypeOK, Gated, GateHeld
<1> QED
  BY <1>1, <1>2, <1>3, <1>4 DEF IInv

\* A command that stops.
LEMMA Died ==
  ASSUME IInv, NEW p \in Procs, pc[p] # "dump", Die(p),
         UNCHANGED <<file, plan, open, moved, used, runs, aborts, overlap, dumped, dumpSpoilt, outSpoilt,
                     published>>
  PROVE  IInv'
<1>1. "ended" \in Places \ Writing /\ "ended" \notin PastGate
  OBVIOUS
<1>2. pc' = [pc EXCEPT ![p] = "ended"] /\ mem' = [mem EXCEPT ![p] = NoMemory]
  BY Zenon
<1> HIDE DEF Memory, NoMemory, Places, Writing, PastGate, GateHeld, Die
<1> QED
  BY <1>1, <1>2, NoMemoryTyped, MoveOn

LEMMA ReadVKStep == ASSUME IInv, NEW p \in Procs, ReadVK(p) PROVE IInv'
<1>1. /\ mem[p] \in Memory
      /\ \A f \in {"vk", "ccs", "pk", "dump"} : file[f] \in KeyContents
  BY DEF IInv, TypeOK, FilesTyped, KeyFiles
<1>2. PICK v \in KeyContents :
        IF v # Absent /\ GatePasses(mem[p], v)
        THEN mem' = [mem EXCEPT ![p].vk = v] /\ pc' = [pc EXCEPT ![p] = "readCCS"]
        ELSE Die(p)
  BY <1>1 DEF ReadVK, Read
<1>3. UNCHANGED <<file, plan, open, moved, used, runs, aborts, overlap, dumped, dumpSpoilt, outSpoilt,
                  published>> /\ pc[p] # "dump"
  BY DEF ReadVK
<1>4. CASE v # Absent /\ GatePasses(mem[p], v)
  <2> DEFINE m == [mem[p] EXCEPT !.vk = v]
  <2>1. mem' = [mem EXCEPT ![p] = m] /\ pc' = [pc EXCEPT ![p] = "readCCS"]
    BY <1>2, <1>4
  <2>2. m \in Memory /\ GateHeld(m)
    BY <1>1, <1>4, Remembered, GateIsPinned
  <2>3. "readCCS" \in Places \ Writing
    OBVIOUS
  <2> QED
    BY <1>3, <2>1, <2>2, <2>3, MoveOn
<1>5. CASE ~(v # Absent /\ GatePasses(mem[p], v))
  BY <1>2, <1>3, <1>5, Died
<1> QED
  BY <1>4, <1>5

LEMMA ReadCCSStep == ASSUME IInv, NEW p \in Procs, ReadCCS(p) PROVE IInv'
<1>1. /\ mem[p] \in Memory
      /\ \A f \in {"vk", "ccs", "pk", "dump"} : file[f] \in KeyContents
  BY DEF IInv, TypeOK, FilesTyped, KeyFiles
<1>2. PICK v \in KeyContents :
        IF v # Absent
        THEN mem' = [mem EXCEPT ![p].ccs = v] /\ pc' = [pc EXCEPT ![p] = "readPK"]
        ELSE Die(p)
  BY <1>1 DEF ReadCCS, Read, CachedAsset
<1>3. UNCHANGED <<file, plan, open, moved, used, runs, aborts, overlap, dumped, dumpSpoilt, outSpoilt,
                  published>> /\ pc[p] # "dump"
  BY DEF ReadCCS
<1>4. CASE v # Absent
  <2> DEFINE m == [mem[p] EXCEPT !.ccs = v]
  <2>1. mem' = [mem EXCEPT ![p] = m] /\ pc' = [pc EXCEPT ![p] = "readPK"]
    BY <1>2, <1>4
  <2>2. m \in Memory /\ GateHeld(m)
    BY <1>1, <1>4, Remembered DEF IInv, Gated, ReadCCS
  <2>3. "readPK" \in Places \ Writing
    OBVIOUS
  <2> QED
    BY <1>3, <2>1, <2>2, <2>3, MoveOn
<1>5. CASE ~(v # Absent)
  BY <1>2, <1>3, <1>5, Died
<1> QED
  BY <1>4, <1>5

LEMMA ReadPKStep == ASSUME IInv, NEW p \in Procs, ReadPK(p) PROVE IInv'
<1>1. /\ mem[p] \in Memory
      /\ \A f \in {"vk", "ccs", "pk", "dump"} : file[f] \in KeyContents
  BY DEF IInv, TypeOK, FilesTyped, KeyFiles
<1>2. PICK v \in KeyContents :
        IF v # Absent
        THEN mem' = [mem EXCEPT ![p].pk = v] /\ pc' = [pc EXCEPT ![p] = "prove"]
        ELSE Die(p)
  BY <1>1 DEF ReadPK, Read, LoadProvingKey, CachedAsset
<1>3. UNCHANGED <<file, plan, open, moved, used, runs, aborts, overlap, dumped, dumpSpoilt, outSpoilt,
                  published>> /\ pc[p] # "dump"
  BY DEF ReadPK
<1>4. CASE v # Absent
  <2> DEFINE m == [mem[p] EXCEPT !.pk = v]
  <2>1. mem' = [mem EXCEPT ![p] = m] /\ pc' = [pc EXCEPT ![p] = "prove"]
    BY <1>2, <1>4
  <2>2. m \in Memory /\ GateHeld(m)
    BY <1>1, <1>4, Remembered DEF IInv, Gated, ReadPK
  <2>3. "prove" \in Places \ Writing
    OBVIOUS
  <2> QED
    BY <1>3, <2>1, <2>2, <2>3, MoveOn
<1>5. CASE ~(v # Absent)
  BY <1>2, <1>3, <1>5, Died
<1> QED
  BY <1>4, <1>5

LEMMA ProveSealStep == ASSUME IInv, NEW p \in Procs, ProveSeal(p) PROVE IInv'
<1> USE DEF IInv
<1>1. CASE SelfVerifies(mem[p])
  <2> DEFINE o == [seal |-> mem[p].seal, gen |-> mem[p].vk]
             r == [mode |-> mem[p].mode, seal |-> mem[p].seal, vk |-> mem[p].vk, pk |-> mem[p].pk]
  <2>1. /\ pc' = [pc EXCEPT ![p] = "publish"]
        /\ plan' = [plan EXCEPT ![p] = OutPlan(o)]
        /\ published' = published \cup {r}
        /\ mem' = [mem EXCEPT ![p] = NoMemory]
        /\ UNCHANGED <<file, open, moved, used, runs, aborts, overlap, dumped, dumpSpoilt>>
    BY <1>1 DEF ProveSeal
  <2>2. mem[p] \in Memory /\ pc[p] = "prove"
    BY DEF TypeOK, ProveSeal
  <2>3. mem[p].pk = mem[p].vk
    BY <1>1 DEF SelfVerifies
  <2>4. GateHeld(mem[p]) /\ mem[p].vk \in Gens
    BY <1>1, <2>2 DEF IInv, Gated, SelfVerifies
  <2>5. o \in Output /\ OutPlan(o) \in Seq(Items) /\ OutPlan(o) # <<>>
    BY <2>2, <2>4, PlansTyped DEF Output
  <2>6. r \in [mode : Modes, seal : Seals, vk : KeyContents, pk : KeyContents]
    BY <2>2
  <2>7. r.mode # "dev" => r.vk = Pin /\ r.pk = Pin
    BY <2>3, <2>4
  <2>8. outSpoilt' \in BOOLEAN
    BY <1>1, Zenon DEF ProveSeal
  <2> HIDE DEF o, r
  <2>9. TypeOK'
    <3>1. plan' \in [Procs -> Seq(Items)] /\ mem' \in [Procs -> Memory]
      BY <2>1, <2>5, NoMemoryTyped DEF TypeOK
    <3>2. published' \subseteq [mode : Modes, seal : Seals, vk : KeyContents, pk : KeyContents]
      BY <2>1, <2>6 DEF TypeOK
    <3> QED
      BY <2>1, <2>8, <3>1, <3>2 DEF TypeOK, FilesTyped
  <2>10. PlanPending' /\ Gated'
    BY <2>1, <2>5 DEF TypeOK, PlanPending, Gated
  <2>11. ProductionIsPinned'
    BY <2>1, <2>7 DEF ProductionIsPinned
  <2>12. DumpPlanned'
    BY <2>1, <2>2 DEF TypeOK, DumpPlanned
  <2> QED
    BY <2>9, <2>10, <2>11, <2>12
<1>2. CASE ~SelfVerifies(mem[p])
  <2>1. /\ pc' = [pc EXCEPT ![p] = "selfVerifyFailed"]
        /\ UNCHANGED <<plan, mem, published, outSpoilt, file, open, moved, used, runs, aborts, overlap,
                       dumped, dumpSpoilt>>
    BY <1>2 DEF ProveSeal
  <2>2. TypeOK'
    BY <2>1 DEF TypeOK, FilesTyped
  <2>3. pc[p] = "prove"
    BY DEF ProveSeal
  <2>4. DumpPlanned'
    BY <2>1, <2>3 DEF TypeOK, DumpPlanned
  <2> QED
    BY <2>1, <2>2, <2>4 DEF TypeOK, PlanPending, Gated, ProductionIsPinned
<1> QED
  BY <1>1, <1>2

LEMMA DumpStep == ASSUME IInv, NEW p \in Procs, Dump(p) PROVE IInv'
<1> USE DEF IInv
<1>1. file["pk"] \in KeyContents
  BY DEF TypeOK, FilesTyped, KeyFiles
<1>2. PICK v \in KeyContents :
        plan' = [plan EXCEPT ![p] = DumpPlan(v)] /\ dumpSpoilt' = (dumpSpoilt \/ v = Mangled)
  BY <1>1 DEF Dump, Read
<1>3. overlap' \in BOOLEAN /\ dumpSpoilt' \in BOOLEAN
  BY <1>2, Zenon DEF Dump
<1>4. DumpPlan(v) \in Seq(Items) /\ DumpPlan(v) # <<>>
  BY PlansTyped
<1>5. TypeOK'
  BY <1>2, <1>3, <1>4 DEF TypeOK, FilesTyped, Dump
<1>6. PlanPending' /\ DumpPlanned' /\ Gated' /\ ProductionIsPinned'
  BY <1>2, <1>4 DEF TypeOK, PlanPending, DumpPlanned, Gated, ProductionIsPinned, Dump
<1> QED
  BY <1>5, <1>6

LEMMA RenameDumpStep == ASSUME IInv, NEW p \in Procs, RenameDump(p) PROVE IInv'
<1> USE DEF IInv
<1>1. CASE file["dump.tmp"] = Absent
  <2>1. Die(p) /\ UNCHANGED <<file, plan, open, moved, used, runs, aborts, overlap, dumped, dumpSpoilt,
                              outSpoilt, published>>
      /\ pc[p] # "dump"
    BY <1>1 DEF RenameDump
  <2> QED
    BY <2>1, Died
<1>2. CASE file["dump.tmp"] # Absent
  <2>1. /\ pc' = [pc EXCEPT ![p] = "check"]
        /\ file' = [file EXCEPT !["dump"] = file["dump.tmp"], !["dump.tmp"] = Absent]
        /\ dumped' = TRUE
        /\ moved' = [q \in Procs |-> Renamed(q)]
        /\ UNCHANGED <<mem, plan, open, used, runs, aborts, overlap, dumpSpoilt, outSpoilt,
                       published>>
    BY <1>2 DEF RenameDump
  <2>2. FilesTyped'
    BY <2>1, KindsApart DEF TypeOK, FilesTyped, KeyFiles
  <2>3. moved' \in [Procs -> Moves] /\ \A q \in Procs : moved'[q] # "no" => pc[q] = "dump"
    BY <2>1 DEF TypeOK, DumpPlanned, Renamed, DumpsInto
  <2>4. TypeOK'
    BY <2>1, <2>2, <2>3 DEF TypeOK
  <2>5. pc[p] = "rename"
    BY DEF RenameDump
  <2>6. PlanPending' /\ DumpPlanned' /\ Gated' /\ ProductionIsPinned'
    BY <2>1, <2>3, <2>5 DEF TypeOK, PlanPending, DumpPlanned, Gated, ProductionIsPinned
  <2> QED
    BY <2>4, <2>6
<1> QED
  BY <1>1, <1>2

LEMMA CheckDumpStep == ASSUME IInv, NEW p \in Procs, CheckDump(p) PROVE IInv'
BY Died DEF CheckDump

-----------------------------------------------------------------------------
LEMMA InitInv == Init => IInv
<1> SUFFICES ASSUME Init PROVE IInv
  OBVIOUS
<1>1. FilesTyped
  BY KindsApart DEF Init, FilesTyped, OutContents
<1>2. 0 \in 0 .. MaxRuns /\ 0 \in 0 .. MaxAborts
  OBVIOUS
<1>3. <<>> \in Seq(Items) /\ "idle" \in Places /\ "no" \in Openness
  OBVIOUS
<1>4. TypeOK
  <2> HIDE DEF Memory, NoMemory, Places, Openness, Modes, KeyContents
  <2> QED
    BY <1>1, <1>2, <1>3, NoMemoryTyped DEF Init, TypeOK
<1> QED
  BY <1>4 DEF Init, IInv, PlanPending, DumpPlanned, Gated, ProductionIsPinned

LEMMA NextInv == IInv /\ [Next]_vars => IInv'
<1>1. IInv /\ UNCHANGED vars => IInv'
  BY DEF IInv, vars, TypeOK, FilesTyped, PlanPending, DumpPlanned, Gated, ProductionIsPinned
<1>2. IInv /\ Next => IInv'
  BY SetupStep, FinalizeStep, ProveStep, DumpStep, CreateFileStep, FinishFileStep, AbortStep,
     ReadVKStep, ReadCCSStep, ReadPKStep, ProveSealStep, RenameDumpStep, CheckDumpStep
     DEF Next
<1> QED
  BY <1>1, <1>2

THEOREM Invariance == Spec => []IInv
BY InitInv, NextInv, PTL DEF Spec

\* Every variable keeps its type.
THEOREM TypeCorrect == Spec => []TypeOK
BY Invariance, PTL DEF IInv

\* "toxic-waste dev keys cannot be used for a production proof" (main.go:20-21).
THEOREM ProductionPinned == Spec => []ProductionIsPinned
BY Invariance, PTL DEF IInv

-----------------------------------------------------------------------------
(***************************************************************************)
(* What the prover's commands leave on disk, for any number of processes,  *)
(* seals, dev setups, commands and aborts: the output directory, the dump  *)
(* of the proving key, and the keys a prove reads.                         *)
(*                                                                         *)
(* Every command that writes does so from a plan made when it started, so  *)
(* the argument is about how far each plan has come: the files before the  *)
(* one being written hold what the plan says, as long as nobody else       *)
(* writes there.  The history variables say when somebody may.             *)
(***************************************************************************)

\* s is what is left of the plan w.
Rest(s, w) ==
  /\ Len(s) <= Len(w)
  /\ \A i \in 1 .. Len(s) : s[i] = w[Len(w) - Len(s) + i]

\* The files of w that p has already written hold what w says.
Done(p, w) == \A j \in 1 .. Len(w) - Len(plan[p]) : file[w[j].name] = w[j].is

WholePlans(place) ==
  CASE place = "setup" -> {SetupPlan(g) : g \in DevGens}
    [] place = "finalize" -> {FinalizePlan}
    [] place = "publish" -> {OutPlan(o) : o \in Output}
    [] OTHER -> {DumpPlan(g) : g \in Gens \cup {Mangled}}

Planned == \A p \in Procs : pc[p] \in Writing => \E w \in WholePlans(pc[p]) : Rest(plan[p], w)

Closed == \A p \in Procs : pc[p] \notin Writing => open[p] = "no"

\* As long as no publication was cut short or shared, one process at most
\* publishes, and what it has written so far is one run's.
OutputsInv == ~outSpoilt =>
  /\ \A p, q \in Procs : pc[p] = "publish" /\ pc[q] = "publish" => p = q
  /\ \A p \in Procs : pc[p] = "publish" =>
        /\ open[p] # "disturbed"
        /\ \E o \in Output : Rest(plan[p], OutPlan(o)) /\ Done(p, OutPlan(o))
  /\ (\A p \in Procs : pc[p] # "publish") =>
        (\A f \in OutFiles : file[f] = Absent) \/ \E o \in Output : Whole(o)

UsesTmp(p) == pc[p] = "rename" \/ (pc[p] = "dump" /\ open[p] # "no")

\* As long as no dump was shared or read a mangled key, dump.tmp has one user
\* at most, who renames it only when it is written.
DumpInv == ~dumpSpoilt =>
  /\ \A p, q \in Procs : UsesTmp(p) /\ UsesTmp(q) => p = q
  /\ \A p \in Procs : pc[p] = "dump" => open[p] # "disturbed" /\ plan[p][1].is # Mangled
  /\ \A p \in Procs : pc[p] = "rename" => file["dump.tmp"] # Mangled
  /\ \A p \in Procs : moved[p] = "no"
  /\ file["dump"] # Mangled

Calm == aborts = 0 /\ ~overlap /\ ~dumped

KeyWriting == {"setup", "finalize"}

KeysMatch == file["pk"] = file["vk"] /\ Mangled \notin {file["vk"], file["ccs"]}

\* What a prove with explicit keys has loaded is still what is on disk.
Loaded(p) == mem[p].mode # "manifest" =>
  /\ pc[p] \in {"readCCS", "readPK", "prove"} => mem[p].vk = file["vk"]
  /\ pc[p] \in {"readPK", "prove"} => mem[p].ccs = file["ccs"]
  /\ pc[p] = "prove" => mem[p].pk = file["pk"]

\* As long as commands ran to their end one after the other and no dump was
\* made, the keys are of one generation whenever nobody is writing them.
KeysInv == Calm =>
  /\ \A p, q \in Procs : Active(p) /\ Active(q) => p = q
  /\ \A p \in Procs : moved[p] = "no"
  /\ file["dump"] = Absent
  /\ \A p \in Procs : pc[p] \in KeyWriting =>
        /\ open[p] # "disturbed"
        /\ \E w \in WholePlans(pc[p]) : Rest(plan[p], w) /\ Done(p, w)
  /\ (\A p \in Procs : pc[p] \notin KeyWriting) => KeysMatch
  /\ \A p \in Procs : Loaded(p)
  /\ \A p \in Procs : pc[p] = "selfVerifyFailed" => mem[p].mode = "manifest"

FInv == IInv /\ Planned /\ Closed /\ OutputsInv /\ DumpInv /\ KeysInv

-----------------------------------------------------------------------------
(* Plans *)

Distinct(w) == \A j, k \in 1 .. Len(w) : w[j].name = w[k].name => j = k

NamesOf(place) ==
  CASE place \in KeyWriting -> {"ccs", "pk", "vk", "vk.cardano", "INSECURE_DEV"}
    [] place = "publish" -> OutFiles
    [] OTHER -> {"dump.tmp"}

LEMMA WholePlanFacts ==
  ASSUME NEW place \in Writing, NEW w \in WholePlans(place)
  PROVE  /\ w \in Seq(Items) /\ w # <<>>
         /\ Distinct(w)
         /\ \A j \in 1 .. Len(w) : w[j].name \in NamesOf(place)
<1> USE DEF NamesOf, KeyWriting, Distinct, Item
<1>1. ASSUME NEW g \in Gens
      PROVE  /\ SetupPlan(g) \in Seq(Items) /\ SetupPlan(g) # <<>> /\ Distinct(SetupPlan(g))
             /\ \A j \in 1 .. Len(SetupPlan(g)) : SetupPlan(g)[j].name \in NamesOf("setup")
  <2>1. SetupPlan(g) \in Seq(Items) /\ SetupPlan(g) # <<>>
    BY PlansTyped
  <2> QED
    BY <2>1 DEF SetupPlan
<1>2. /\ FinalizePlan \in Seq(Items) /\ FinalizePlan # <<>> /\ Distinct(FinalizePlan)
      /\ \A j \in 1 .. Len(FinalizePlan) : FinalizePlan[j].name \in NamesOf("finalize")
  <2>1. FinalizePlan \in Seq(Items) /\ FinalizePlan # <<>>
    BY PlansTyped
  <2> QED
    BY <2>1 DEF FinalizePlan
<1>3. ASSUME NEW o \in Output
      PROVE  /\ OutPlan(o) \in Seq(Items) /\ OutPlan(o) # <<>> /\ Distinct(OutPlan(o))
             /\ \A j \in 1 .. Len(OutPlan(o)) : OutPlan(o)[j].name \in NamesOf("publish")
  <2>1. OutPlan(o) \in Seq(Items) /\ OutPlan(o) # <<>>
    BY PlansTyped
  <2> QED
    BY <2>1 DEF OutPlan, OutFiles
<1>4. ASSUME NEW g \in Gens \cup {Mangled}
      PROVE  /\ DumpPlan(g) \in Seq(Items) /\ DumpPlan(g) # <<>> /\ Distinct(DumpPlan(g))
             /\ \A j \in 1 .. Len(DumpPlan(g)) : DumpPlan(g)[j].name \in NamesOf("dump")
  <2>1. DumpPlan(g) \in Seq(Items) /\ DumpPlan(g) # <<>>
    BY PlansTyped DEF KeyContents
  <2> QED
    BY <2>1 DEF DumpPlan
<1> HIDE DEF Distinct, NamesOf
<1> QED
  BY <1>1, <1>2, <1>3, <1>4 DEF WholePlans, Writing, Gens

LEMMA RestWhole == ASSUME NEW w \in Seq(Items) PROVE Rest(w, w)
BY DEF Rest

LEMMA RestFirst ==
  ASSUME NEW w \in Seq(Items), NEW s \in Seq(Items), Rest(s, w), s # <<>>
  PROVE  /\ Len(s) \in 1 .. Len(w)
         /\ Len(w) - Len(s) + 1 \in 1 .. Len(w)
         /\ s[1] = w[Len(w) - Len(s) + 1]
<1>1. Len(s) \in Nat /\ Len(w) \in Nat /\ Len(s) # 0
  BY EmptySeq
<1> QED
  BY <1>1 DEF Rest

LEMMA RestTail ==
  ASSUME NEW w \in Seq(Items), NEW s \in Seq(Items), Rest(s, w), s # <<>>
  PROVE  Rest(Tail(s), w) /\ Len(Tail(s)) = Len(s) - 1
<1>1. Len(s) \in Nat /\ Len(w) \in Nat /\ Len(s) # 0
  BY EmptySeq
<1>2. Len(Tail(s)) = Len(s) - 1 /\ \A i \in 1 .. Len(s) - 1 : Tail(s)[i] = s[i + 1]
  BY <1>1
<1> QED
  BY <1>1, <1>2 DEF Rest

\* Creating the next file of a plan disturbs none of those before it.
LEMMA DoneCreate ==
  ASSUME NEW p \in Procs, NEW w \in Seq(Items), plan[p] \in Seq(Items), plan[p] # <<>>,
         Distinct(w), Rest(plan[p], w), Done(p, w), file \in [Files -> KeyContents \cup OutContents],
         plan \in [Procs -> Seq(Items)], plan'[p] = plan[p],
         file' = [file EXCEPT ![plan[p][1].name] = Mangled]
  PROVE  Done(p, w)'
<1>1. /\ Len(plan[p]) \in 1 .. Len(w) /\ Len(w) \in Nat
      /\ plan[p][1] = w[Len(w) - Len(plan[p]) + 1]
  BY RestFirst
<1>2. \A j \in 1 .. Len(w) - Len(plan[p]) : w[j].name # plan[p][1].name
  BY <1>1 DEF Distinct
<1>3. \A j \in 1 .. Len(w) : w[j].name \in Files
  BY KindsApart DEF Items
<1> QED
  BY <1>1, <1>2, <1>3 DEF Done

\* Finishing it adds one.
LEMMA DoneFinish ==
  ASSUME NEW p \in Procs, NEW w \in Seq(Items), plan[p] \in Seq(Items), plan[p] # <<>>,
         Distinct(w), Rest(plan[p], w), Done(p, w), file \in [Files -> KeyContents \cup OutContents],
         plan \in [Procs -> Seq(Items)], plan' = [plan EXCEPT ![p] = Tail(@)],
         file' = [file EXCEPT ![plan[p][1].name] = plan[p][1].is]
  PROVE  Done(p, w)' /\ Rest(plan[p], w)'
<1>1. /\ Len(plan[p]) \in 1 .. Len(w) /\ Len(w) \in Nat
      /\ plan[p][1] = w[Len(w) - Len(plan[p]) + 1]
  BY RestFirst
<1>2. \A j \in 1 .. Len(w) - Len(plan[p]) : w[j].name # plan[p][1].name
  BY <1>1 DEF Distinct
<1>3. \A j \in 1 .. Len(w) : w[j].name \in Files
  BY KindsApart DEF Items
<1>4. plan'[p] = Tail(plan[p]) /\ Rest(plan'[p], w) /\ Len(plan'[p]) = Len(plan[p]) - 1
  BY RestTail
<1> DEFINE k == Len(w) - Len(plan[p])
<1>5. k \in Nat /\ k < Len(w) /\ Len(w) - Len(plan'[p]) = k + 1
  BY <1>1, <1>4
<1>6. plan[p][1] = w[k + 1] /\ \A j \in 1 .. k : file[w[j].name] = w[j].is
  BY <1>1 DEF Done
<1> HIDE DEF k
<1>7. ASSUME NEW j \in 1 .. k + 1 PROVE file'[w[j].name] = w[j].is
  <2>1. j \in 1 .. Len(w) /\ w[j].name \in Files
    BY <1>3, <1>5
  <2>2. CASE j = k + 1
    BY <1>6, <2>1, <2>2
  <2>3. CASE j # k + 1
    <3>1. j \in 1 .. k
      BY <1>5, <2>3
    <3> QED
      BY <1>2, <1>6, <2>1, <3>1 DEF k
  <2> QED
    BY <2>2, <2>3
<1> QED
  BY <1>4, <1>5, <1>7 DEF Done

\* What others write elsewhere does not count.
LEMMA DoneKept ==
  ASSUME NEW p \in Procs, NEW w \in Seq(Items), plan[p] \in Seq(Items), Rest(plan[p], w), Done(p, w),
         plan'[p] = plan[p],
         \A j \in 1 .. Len(w) : file'[w[j].name] = file[w[j].name]
  PROVE  Done(p, w)' /\ Rest(plan[p], w)'
<1>1. Len(plan[p]) \in Nat /\ Len(w) \in Nat
  OBVIOUS
<1>2. \A j \in 1 .. Len(w) - Len(plan[p]) : file'[w[j].name] = w[j].is
  BY <1>1 DEF Done
<1>3. Done(p, w)'
  BY <1>2 DEF Done
<1>4. Rest(plan[p], w)'
  BY DEF Rest
<1> QED
  BY <1>3, <1>4

\* Nothing of a plan is done at its beginning.
LEMMA DoneNothing ==
  ASSUME NEW p \in Procs, NEW w \in Seq(Items), plan'[p] = w
  PROVE  Done(p, w)' /\ Rest(plan[p], w)'
BY RestWhole DEF Done

-----------------------------------------------------------------------------
USE ProverKeysAssumption
    DEF Goto, Forget, Die, Start, Active, Writing, Ended, KeyWriting

(* What each command writes, and that it closes what it opens. *)

LEMMA PlannedStep == ASSUME IInv, Planned, Closed, Next PROVE Planned' /\ Closed'
<1> USE DEF IInv, TypeOK
<1>1. PICK p \in Procs :
        \/ Setup(p) \/ Finalize(p) \/ Prove(p) \/ Dump(p)
        \/ CreateFile(p) \/ FinishFile(p) \/ Abort(p)
        \/ ReadVK(p) \/ ReadCCS(p) \/ ReadPK(p) \/ ProveSeal(p)
        \/ RenameDump(p) \/ CheckDump(p)
  BY DEF Next
<1>2. ASSUME NEW place \in Writing, NEW w \in WholePlans(place),
             pc' = [pc EXCEPT ![p] = place], plan' = [plan EXCEPT ![p] = w], open' = open
      PROVE  Planned' /\ Closed'
  <2>1. Rest(w, w)
    BY WholePlanFacts, RestWhole
  <2> QED
    BY <1>2, <2>1 DEF Planned, Closed
<1>3. ASSUME \A q \in Procs \ {p} : pc'[q] = pc[q] /\ plan'[q] = plan[q] /\ open'[q] = open[q],
             pc'[p] \notin Writing, open'[p] = "no"
      PROVE  Planned' /\ Closed'
  BY <1>3 DEF Planned, Closed
<1>4. CASE Setup(p)
  <2>1. PICK g \in DevGens : plan' = [plan EXCEPT ![p] = SetupPlan(g)]
    BY <1>4 DEF Setup
  <2>2. SetupPlan(g) \in WholePlans("setup") /\ "setup" \in Writing
    BY <2>1 DEF WholePlans
  <2>3. pc' = [pc EXCEPT ![p] = "setup"] /\ open' = open
    BY <1>4 DEF Setup
  <2> QED
    BY <1>2, <2>1, <2>2, <2>3
<1>5. CASE Finalize(p)
  BY <1>2, <1>5 DEF Finalize, WholePlans
<1>6. CASE Dump(p)
  <2>1. PICK v \in Gens \cup {Mangled} : plan' = [plan EXCEPT ![p] = DumpPlan(v)]
    BY <1>6 DEF Dump, Read, FilesTyped, KeyFiles, KeyContents
  <2>2. DumpPlan(v) \in WholePlans("dump") /\ "dump" \in Writing
    BY <2>1 DEF WholePlans
  <2>3. pc' = [pc EXCEPT ![p] = "dump"] /\ open' = open
    BY <1>6 DEF Dump
  <2> QED
    BY <1>2, <2>1, <2>2, <2>3
<1>7. CASE ProveSeal(p)
  <2>1. CASE SelfVerifies(mem[p])
    <3>1. mem[p] \in Memory /\ pc[p] = "prove"
      BY <1>7 DEF ProveSeal
    <3>2. GateHeld(mem[p]) /\ mem[p].vk \in Gens
      BY <2>1, <3>1 DEF Gated, PastGate, GateHeld, SelfVerifies, Memory, KeyContents
    <3>3. [seal |-> mem[p].seal, gen |-> mem[p].vk] \in Output
      BY <3>1, <3>2 DEF Output, Memory
    <3> QED
      BY <1>2, <1>7, <2>1, <3>3 DEF ProveSeal, WholePlans
  <2>2. CASE ~SelfVerifies(mem[p])
    BY <1>3, <1>7, <2>2 DEF ProveSeal, Closed
  <2> QED
    BY <2>1, <2>2
<1>8. CASE Prove(p)
  BY <1>3, <1>8 DEF Prove, Closed
<1>9. CASE ReadVK(p)
  <2>1. UNCHANGED <<plan, open>> /\ pc[p] \notin Writing
    BY <1>9 DEF ReadVK
  <2>2. \E place \in Places \ Writing : pc' = [pc EXCEPT ![p] = place]
    BY <1>9 DEF ReadVK, Places, Proving
  <2> QED
    BY <1>3, <2>1, <2>2 DEF Closed
<1>10. CASE ReadCCS(p)
  <2>1. UNCHANGED <<plan, open>> /\ pc[p] \notin Writing
    BY <1>10 DEF ReadCCS
  <2>2. \E place \in Places \ Writing : pc' = [pc EXCEPT ![p] = place]
    BY <1>10 DEF ReadCCS, Places, Proving
  <2> QED
    BY <1>3, <2>1, <2>2 DEF Closed
<1>11. CASE ReadPK(p)
  <2>1. UNCHANGED <<plan, open>> /\ pc[p] \notin Writing
    BY <1>11 DEF ReadPK
  <2>2. \E place \in Places \ Writing : pc' = [pc EXCEPT ![p] = place]
    BY <1>11 DEF ReadPK, Places, Proving
  <2> QED
    BY <1>3, <2>1, <2>2 DEF Closed
<1>12. CASE RenameDump(p)
  <2>1. UNCHANGED <<plan, open>> /\ pc[p] \notin Writing
    BY <1>12 DEF RenameDump
  <2>2. \E place \in Places \ Writing : pc' = [pc EXCEPT ![p] = place]
    BY <1>12 DEF RenameDump, Places, Proving
  <2> QED
    BY <1>3, <2>1, <2>2 DEF Closed
<1>13. CASE CheckDump(p)
  BY <1>3, <1>13 DEF CheckDump, Closed
<1>14. CASE Abort(p)
  <2>1. /\ pc' = [pc EXCEPT ![p] = "idle"] /\ plan' = [plan EXCEPT ![p] = <<>>]
        /\ open' = [open EXCEPT ![p] = "no"]
    BY <1>14 DEF Abort
  <2> QED
    BY <1>3, <2>1
<1>15. CASE CreateFile(p)
  <2>1. Planned'
    BY <1>15 DEF CreateFile, Planned
  <2>2. Closed'
    BY <1>15 DEF CreateFile, Closed, SameFileOpen
  <2> QED
    BY <2>1, <2>2
<1>16. CASE FinishFile(p)
  <2>1. pc[p] \in Writing /\ plan[p] \in Seq(Items) /\ plan[p] # <<>>
    BY <1>16 DEF FinishFile, PlanPending
  <2>2. /\ pc' = pc \/ pc' = [pc EXCEPT ![p] = AfterWriting(pc[p])]
        /\ plan' = [plan EXCEPT ![p] = Tail(plan[p])]
        /\ open' = [open EXCEPT ![p] = "no"]
    BY <1>16 DEF FinishFile
  <2>3. AfterWriting(pc[p]) \in Places \ Writing
    BY DEF AfterWriting, Places
  <2>4. PICK w \in WholePlans(pc[p]) : Rest(plan[p], w)
    BY <2>1 DEF Planned
  <2>5. Rest(Tail(plan[p]), w)
    BY <2>1, <2>4, WholePlanFacts, RestTail
  <2>6. Planned'
    BY <2>2, <2>3, <2>4, <2>5 DEF Planned
  <2>7. Closed'
    BY <2>2, <2>3 DEF Closed
  <2> QED
    BY <2>6, <2>7
<1> QED
  BY <1>1, <1>4, <1>5, <1>6, <1>7, <1>8, <1>9, <1>10, <1>11, <1>12, <1>13, <1>14, <1>15, <1>16

\* The file that a process writes next is one of its own command's.
LEMMA NextFile ==
  ASSUME IInv, Planned, NEW p \in Procs, pc[p] \in Writing
  PROVE  /\ plan[p] \in Seq(Items) /\ plan[p] # <<>>
         /\ plan[p][1] \in Items /\ plan[p][1].name \in NamesOf(pc[p])
         /\ plan[p][1].name \in Files
<1>1. plan[p] \in Seq(Items) /\ plan[p] # <<>>
  BY DEF IInv, TypeOK, PlanPending
<1>2. plan[p][1] \in Items
  BY <1>1
<1>3. PICK w \in WholePlans(pc[p]) : Rest(plan[p], w)
  BY DEF Planned
<1>4. /\ w \in Seq(Items)
      /\ \A j \in 1 .. Len(w) : w[j].name \in NamesOf(pc[p])
  BY WholePlanFacts
<1>5. plan[p][1].name \in NamesOf(pc[p])
  BY <1>1, <1>3, <1>4, RestFirst
<1>6. plan[p][1].name \in Files
  BY <1>2, KindsApart DEF Items
<1> QED
  BY <1>1, <1>2, <1>5, <1>6

LEMMA NamesApart ==
  /\ \A place \in Writing : place # "publish" => NamesOf(place) \cap OutFiles = {}
  /\ \A place \in Writing \ KeyWriting :
        NamesOf(place) \cap {"ccs", "pk", "vk", "vk.cardano", "INSECURE_DEV"} = {}
  /\ \A place \in Writing : place # "dump" => "dump.tmp" \notin NamesOf(place)
  /\ \A place \in Writing : "dump" \notin NamesOf(place)
  /\ {"dump", "dump.tmp", "pk", "vk", "ccs"} \cap OutFiles = {}
  /\ NamesOf("publish") = OutFiles
BY DEF NamesOf, OutFiles

-----------------------------------------------------------------------------
(* The output directory. *)

LEMMA OutPlanFacts ==
  ASSUME NEW o \in Output
  PROVE  /\ OutPlan(o) \in Seq(Items) /\ OutPlan(o) # <<>> /\ Distinct(OutPlan(o))
         /\ \A j \in 1 .. Len(OutPlan(o)) : OutPlan(o)[j].name \in OutFiles
<1>1. OutPlan(o) \in WholePlans("publish")
  BY DEF WholePlans
<1> QED
  BY <1>1, WholePlanFacts, NamesApart

\* A whole plan done is a whole output.
LEMMA OutPlanDone ==
  ASSUME NEW o \in Output, NEW p \in Procs, plan'[p] = <<>>, Done(p, OutPlan(o))'
  PROVE  Whole(o)'
<1>1. Len(plan'[p]) = 0 /\ Len(OutPlan(o)) = 5
  BY DEF OutPlan
<1>2. \A j \in 1 .. 5 : file'[OutPlan(o)[j].name] = OutPlan(o)[j].is
  BY <1>1 DEF Done
<1> QED
  BY <1>2 DEF Whole, Part, OutPlan, OutFiles, Item

LEMMA OutputsElsewhere ==
  ASSUME IInv, OutputsInv,
         \A f \in OutFiles : file'[f] = file[f],
         \A q \in Procs : pc'[q] = "publish" <=> pc[q] = "publish",
         \A q \in Procs : pc[q] = "publish" => plan'[q] = plan[q] /\ open'[q] = open[q],
         UNCHANGED outSpoilt
  PROVE  OutputsInv'
<1> SUFFICES ASSUME ~outSpoilt PROVE OutputsInv'
  BY DEF OutputsInv
<1>1. \A p, q \in Procs : pc'[p] = "publish" /\ pc'[q] = "publish" => p = q
  BY DEF OutputsInv
<1>2. ASSUME NEW p \in Procs, pc'[p] = "publish"
      PROVE  /\ open'[p] # "disturbed"
             /\ \E o \in Output : Rest(plan[p], OutPlan(o))' /\ Done(p, OutPlan(o))'
  <2>1. PICK o \in Output : Rest(plan[p], OutPlan(o)) /\ Done(p, OutPlan(o))
    BY <1>2 DEF OutputsInv
  <2>2. Rest(plan[p], OutPlan(o))' /\ Done(p, OutPlan(o))'
    BY <1>2, <2>1, OutPlanFacts, DoneKept DEF IInv, TypeOK
  <2> QED
    BY <1>2, <2>2 DEF OutputsInv
<1>3. ASSUME \A p \in Procs : pc'[p] # "publish"
      PROVE  (\A f \in OutFiles : file'[f] = Absent) \/ \E o \in Output : Whole(o)'
  BY <1>3 DEF OutputsInv, Whole
<1> QED
  BY <1>1, <1>2, <1>3 DEF OutputsInv

LEMMA OutputsStep == ASSUME IInv, Planned, Closed, OutputsInv, Next PROVE OutputsInv'
<1> USE DEF IInv, TypeOK
<1>1. PICK p \in Procs :
        \/ Setup(p) \/ Finalize(p) \/ Prove(p) \/ Dump(p)
        \/ CreateFile(p) \/ FinishFile(p) \/ Abort(p)
        \/ ReadVK(p) \/ ReadCCS(p) \/ ReadPK(p) \/ ProveSeal(p)
        \/ RenameDump(p) \/ CheckDump(p)
  BY DEF Next
<1>2. ASSUME NEW place \in Places \ {"publish"}, pc[p] # "publish", pc' = [pc EXCEPT ![p] = place],
             \A q \in Procs \ {p} : plan'[q] = plan[q] /\ open'[q] = open[q],
             \A f \in OutFiles : file'[f] = file[f], UNCHANGED outSpoilt
      PROVE  OutputsInv'
  BY <1>2, OutputsElsewhere
<1>3. CASE Setup(p)
  BY <1>2, <1>3 DEF Setup, Places
<1>4. CASE Finalize(p)
  BY <1>2, <1>4 DEF Finalize, Places
<1>5. CASE Prove(p)
  BY <1>2, <1>5 DEF Prove, Places, Proving
<1>6. CASE Dump(p)
  BY <1>2, <1>6 DEF Dump, Places
<1>7. CASE ReadVK(p)
  BY <1>2, <1>7 DEF ReadVK, Places, Proving
<1>8. CASE ReadCCS(p)
  BY <1>2, <1>8 DEF ReadCCS, Places, Proving
<1>9. CASE ReadPK(p)
  BY <1>2, <1>9 DEF ReadPK, Places, Proving
<1>10. CASE CheckDump(p)
  BY <1>2, <1>10 DEF CheckDump, Places
<1>11. CASE RenameDump(p)
  <2>1. \A f \in OutFiles : file'[f] = file[f]
    BY <1>11, NamesApart, KindsApart DEF RenameDump, FilesTyped
  <2> QED
    BY <1>2, <1>11, <2>1 DEF RenameDump, Places
<1>12. CASE Abort(p)
  <2>1. CASE pc[p] = "publish"
    BY <1>12, <2>1 DEF Abort, OutputsInv
  <2>2. CASE pc[p] # "publish"
    <3>1. \A f \in OutFiles : file'[f] = file[f]
      BY <1>12, NamesApart, KindsApart DEF Abort, FilesTyped
    <3>2. "idle" \in Places \ {"publish"}
      BY DEF Places
    <3>3. UNCHANGED outSpoilt
      BY <1>12, <2>2, Zenon DEF Abort
    <3>4. /\ pc' = [pc EXCEPT ![p] = "idle"] /\ plan' = [plan EXCEPT ![p] = <<>>]
          /\ open' = [open EXCEPT ![p] = "no"]
      BY <1>12 DEF Abort
    <3> QED
      BY <1>2, <2>2, <3>1, <3>2, <3>3, <3>4
  <2> QED
    BY <2>1, <2>2
<1>13. CASE CreateFile(p)
  <2>1. pc[p] \in Writing /\ open[p] = "no"
    BY <1>13 DEF CreateFile
  <2>2. plan[p] \in Seq(Items) /\ plan[p] # <<>> /\ plan[p][1].name \in NamesOf(pc[p]) \cap Files
    BY <2>1, NextFile
  <2>3. /\ file' = [file EXCEPT ![plan[p][1].name] = Mangled]
        /\ UNCHANGED <<pc, plan, outSpoilt>>
        /\ \A q \in Procs \ {p} : open'[q] = IF q \in SameFileOpen(p) THEN "disturbed" ELSE open[q]
        /\ SameFileOpen(p) = {} => open'[p] = "alone"
    BY <1>13 DEF CreateFile, SameFileOpen
  <2>4. ASSUME NEW q \in SameFileOpen(p)
        PROVE  q \in Procs \ {p} /\ (pc[p] = "publish" <=> pc[q] = "publish")
    <3>1. q \in Procs \ {p} /\ open[q] # "no" /\ plan[q][1].name = plan[p][1].name
      BY DEF SameFileOpen, Others
    <3>2. pc[q] \in Writing
      BY <3>1 DEF Closed
    <3>3. plan[q][1].name \in NamesOf(pc[q])
      BY <3>1, <3>2, NextFile
    <3> QED
      <4>1. pc[q] = "publish" <=> plan[q][1].name \in OutFiles
        BY <3>2, <3>3, NamesApart
      <4>2. pc[p] = "publish" <=> plan[p][1].name \in OutFiles
        BY <2>1, <2>2, NamesApart
      <4>3. pc[p] = "publish" <=> pc[q] = "publish"
        BY <3>1, <4>1, <4>2
      <4> QED
        BY <3>1, <4>3
  <2>5. CASE pc[p] # "publish"
    <3>1. \A f \in OutFiles : file'[f] = file[f]
      BY <2>1, <2>2, <2>3, <2>5, NamesApart, KindsApart DEF FilesTyped
    <3>2. \A q \in Procs : pc[q] = "publish" => open'[q] = open[q]
      BY <2>3, <2>4, <2>5
    <3> QED
      BY <2>3, <3>1, <3>2, OutputsElsewhere
  <2>6. CASE pc[p] = "publish"
    <3> SUFFICES ASSUME ~outSpoilt PROVE OutputsInv'
      BY <2>3 DEF OutputsInv
    <3>1. \A q \in Procs : pc[q] = "publish" => q = p
      BY <2>6 DEF OutputsInv
    <3>2. open'[p] = "alone"
      BY <2>3, <2>4, <2>6, <3>1 DEF SameFileOpen, Others
    <3>3. PICK o \in Output : Rest(plan[p], OutPlan(o)) /\ Done(p, OutPlan(o))
      BY <2>6 DEF OutputsInv
    <3>4. Done(p, OutPlan(o))' /\ Rest(plan[p], OutPlan(o))'
      <4>1. plan'[p] = plan[p] /\ file \in [Files -> KeyContents \cup OutContents]
        BY <2>3 DEF FilesTyped
      <4>2. Done(p, OutPlan(o))'
        BY <2>2, <2>3, <3>3, <4>1, OutPlanFacts, DoneCreate
      <4> QED
        BY <3>3, <4>1, <4>2 DEF Rest
    <3> QED
      BY <2>3, <2>6, <3>1, <3>2, <3>4 DEF OutputsInv
  <2> QED
    BY <2>5, <2>6
<1>14. CASE FinishFile(p)
  <2>1. pc[p] \in Writing /\ open[p] # "no"
    BY <1>14 DEF FinishFile
  <2>2. plan[p] \in Seq(Items) /\ plan[p] # <<>> /\ plan[p][1].name \in NamesOf(pc[p]) \cap Files
    BY <2>1, NextFile
  <2>3. /\ \A f \in Files \ {"dump", plan[p][1].name} : file'[f] = file[f]
        /\ moved[p] = "no" =>
             \E c \in {plan[p][1].is} \cup (IF open[p] = "alone" THEN {} ELSE {Mangled}) :
                file' = [file EXCEPT ![plan[p][1].name] = c]
    BY <1>14 DEF FinishFile, Target, FilesTyped
  <2>4. /\ open' = [open EXCEPT ![p] = "no"]
        /\ plan' = [plan EXCEPT ![p] = Tail(@)]
        /\ UNCHANGED outSpoilt
        /\ IF Len(plan[p]) = 1 THEN pc' = [pc EXCEPT ![p] = AfterWriting(pc[p])] ELSE pc' = pc
    BY <1>14 DEF FinishFile
  <2>5. CASE pc[p] # "publish"
    <3>1. \A f \in OutFiles : file'[f] = file[f]
      <4>1. plan[p][1].name \notin OutFiles /\ "dump" \notin OutFiles
        BY <2>1, <2>2, <2>5, NamesApart
      <4> QED
        BY <2>3, <4>1, KindsApart
    <3>2. \A q \in Procs : pc'[q] = "publish" <=> pc[q] = "publish"
      BY <2>1, <2>4, <2>5 DEF AfterWriting
    <3> QED
      BY <2>4, <2>5, <3>1, <3>2, OutputsElsewhere
  <2>6. CASE pc[p] = "publish"
    <3> SUFFICES ASSUME ~outSpoilt PROVE OutputsInv'
      BY <2>4 DEF OutputsInv
    <3>1. \A q \in Procs : pc[q] = "publish" => q = p
      BY <2>6 DEF OutputsInv
    <3>2. open[p] = "alone"
      BY <2>1, <2>6 DEF OutputsInv, Openness
    <3>3. PICK o \in Output : Rest(plan[p], OutPlan(o)) /\ Done(p, OutPlan(o))
      BY <2>6 DEF OutputsInv
    <3>4. file' = [file EXCEPT ![plan[p][1].name] = plan[p][1].is]
      BY <2>3, <2>6, <3>2 DEF DumpPlanned
    <3>5. Done(p, OutPlan(o))' /\ Rest(plan[p], OutPlan(o))'
      BY <2>2, <2>4, <3>3, <3>4, OutPlanFacts, DoneFinish DEF FilesTyped
    <3>6. CASE Len(plan[p]) = 1
      <4>1. plan'[p] = <<>>
        BY <2>2, <2>4, <3>6, EmptySeq
      <4>2. Whole(o)'
        BY <3>5, <4>1, OutPlanDone
      <4>3. \A q \in Procs : pc'[q] # "publish"
        BY <2>4, <2>6, <3>1, <3>6 DEF AfterWriting
      <4> QED
        BY <4>2, <4>3 DEF OutputsInv
    <3>7. CASE Len(plan[p]) # 1
      BY <2>4, <2>6, <3>1, <3>5, <3>7 DEF OutputsInv
    <3> QED
      BY <3>6, <3>7
  <2> QED
    BY <2>5, <2>6
<1>15. CASE ProveSeal(p)
  <2>1. pc[p] = "prove"
    BY <1>15 DEF ProveSeal
  <2>2. CASE SelfVerifies(mem[p])
    <3> SUFFICES ASSUME NEW o \in Output, o = [seal |-> mem[p].seal, gen |-> mem[p].vk]
                 PROVE  OutputsInv'
      <4>1. mem[p] \in Memory
        OBVIOUS
      <4>2. mem[p].vk \in Gens
        BY <2>1, <2>2, <4>1 DEF Gated, PastGate, GateHeld, SelfVerifies, Memory, KeyContents
      <4>3. [seal |-> mem[p].seal, gen |-> mem[p].vk] \in Output
        BY <4>1, <4>2 DEF Output, Memory
      <4> QED
        BY <4>3
    <3>1. /\ pc' = [pc EXCEPT ![p] = "publish"]
          /\ plan' = [plan EXCEPT ![p] = OutPlan(o)]
          /\ UNCHANGED <<file, open>>
      BY <1>15, <2>2 DEF ProveSeal
    <3>2. outSpoilt' = \E q \in Others(p) : pc[q] = "publish"
      BY <1>15, <2>2, Zenon DEF ProveSeal
    <3> SUFFICES ASSUME \A q \in Others(p) : pc[q] # "publish" PROVE OutputsInv'
      BY <3>2 DEF OutputsInv
    <3>3. plan'[p] = OutPlan(o) /\ open'[p] = "no"
      BY <2>1, <3>1 DEF Closed
    <3>4. Rest(plan[p], OutPlan(o))' /\ Done(p, OutPlan(o))'
      BY <3>3, OutPlanFacts, DoneNothing
    <3>5. \A q \in Procs : pc'[q] = "publish" <=> q = p
      BY <3>1 DEF Others
    <3>6. \E o2 \in Output : Rest(plan[p], OutPlan(o2))' /\ Done(p, OutPlan(o2))'
      BY <3>4
    <3> QED
      BY <3>3, <3>5, <3>6 DEF OutputsInv
  <2>3. CASE ~SelfVerifies(mem[p])
    BY <1>2, <1>15, <2>3 DEF ProveSeal, Places
  <2> QED
    BY <2>2, <2>3
<1> QED
  BY <1>1, <1>3, <1>4, <1>5, <1>6, <1>7, <1>8, <1>9, <1>10, <1>11, <1>12, <1>13, <1>14, <1>15

-----------------------------------------------------------------------------
(* The dump. *)

\* A dump's plan is its one file.
LEMMA DumpFile ==
  ASSUME IInv, Planned, NEW p \in Procs, pc[p] = "dump"
  PROVE  Len(plan[p]) = 1 /\ plan[p][1].name = "dump.tmp"
<1>1. plan[p] \in Seq(Items) /\ plan[p] # <<>> /\ plan[p][1].name \in NamesOf("dump")
  BY NextFile
<1>2. PICK g \in Gens \cup {Mangled} : Rest(plan[p], DumpPlan(g))
  BY DEF Planned, WholePlans
<1>3. DumpPlan(g) \in Seq(Items) /\ Len(DumpPlan(g)) = 1
  BY PlansTyped DEF DumpPlan, KeyContents, Gens
<1>4. Len(plan[p]) \in 1 .. Len(DumpPlan(g))
  BY <1>1, <1>2, <1>3, RestFirst
<1>5. Len(plan[p]) = 1
  BY <1>3, <1>4
<1>6. plan[p][1].name = "dump.tmp"
  BY <1>1 DEF NamesOf
<1> QED
  BY <1>5, <1>6

LEMMA DumpElsewhere ==
  ASSUME IInv, DumpInv,
         file'["dump"] = file["dump"], file'["dump.tmp"] = file["dump.tmp"],
         \A q \in Procs : pc'[q] = "dump" <=> pc[q] = "dump",
         \A q \in Procs : pc'[q] = "rename" <=> pc[q] = "rename",
         \A q \in Procs : pc[q] = "dump" => plan'[q] = plan[q] /\ open'[q] = open[q],
         \A q \in Procs : moved[q] = "no" => moved'[q] = "no",
         UNCHANGED dumpSpoilt
  PROVE  DumpInv'
<1> SUFFICES ASSUME ~dumpSpoilt PROVE DumpInv'
  BY DEF DumpInv
<1>1. \A q \in Procs : UsesTmp(q)' <=> UsesTmp(q)
  BY DEF UsesTmp
<1> QED
  BY <1>1 DEF DumpInv

LEMMA DumpInvStep == ASSUME IInv, Planned, Closed, DumpInv, Next PROVE DumpInv'
<1> USE DEF IInv, TypeOK
<1>1. PICK p \in Procs :
        \/ Setup(p) \/ Finalize(p) \/ Prove(p) \/ Dump(p)
        \/ CreateFile(p) \/ FinishFile(p) \/ Abort(p)
        \/ ReadVK(p) \/ ReadCCS(p) \/ ReadPK(p) \/ ProveSeal(p)
        \/ RenameDump(p) \/ CheckDump(p)
  BY DEF Next
<1>2. ASSUME pc[p] \notin {"dump", "rename"}, pc'[p] \notin {"dump", "rename"},
             \A q \in Procs \ {p} : pc'[q] = pc[q] /\ plan'[q] = plan[q] /\ open'[q] = open[q],
             file'["dump"] = file["dump"], file'["dump.tmp"] = file["dump.tmp"],
             \A q \in Procs : moved[q] = "no" => moved'[q] = "no",
             UNCHANGED dumpSpoilt
      PROVE  DumpInv'
  BY <1>2, DumpElsewhere
<1>3. CASE Setup(p)
  BY <1>2, <1>3 DEF Setup
<1>4. CASE Finalize(p)
  BY <1>2, <1>4 DEF Finalize
<1>5. CASE Prove(p)
  BY <1>2, <1>5 DEF Prove
<1>6. CASE ReadVK(p)
  BY <1>2, <1>6 DEF ReadVK
<1>7. CASE ReadCCS(p)
  BY <1>2, <1>7 DEF ReadCCS
<1>8. CASE ReadPK(p)
  BY <1>2, <1>8 DEF ReadPK
<1>9. CASE ProveSeal(p)
  BY <1>2, <1>9 DEF ProveSeal
<1>10. CASE CheckDump(p)
  BY <1>2, <1>10 DEF CheckDump
<1>11. CASE Dump(p)
  <2>1. PICK v \in KeyContents :
          plan' = [plan EXCEPT ![p] = DumpPlan(v)] /\ dumpSpoilt' = (dumpSpoilt \/ v = Mangled)
    BY <1>11 DEF Dump, Read, FilesTyped, KeyFiles, KeyContents
  <2> SUFFICES ASSUME ~dumpSpoilt, v # Mangled PROVE DumpInv'
    BY <2>1 DEF DumpInv
  <2>2. pc' = [pc EXCEPT ![p] = "dump"] /\ pc[p] \in Ended /\ UNCHANGED <<file, open, moved>>
    BY <1>11 DEF Dump
  <2>3. open'[p] = "no" /\ plan'[p][1].is = v
    BY <2>1, <2>2 DEF Closed, DumpPlan, Item
  <2>4. \A q \in Procs : UsesTmp(q)' => UsesTmp(q)
    BY <2>2, <2>3 DEF UsesTmp
  <2> QED
    BY <2>1, <2>2, <2>3, <2>4 DEF DumpInv
<1>12. CASE CreateFile(p)
  <2>1. pc[p] \in Writing /\ open[p] = "no"
    BY <1>12 DEF CreateFile
  <2>2. plan[p][1].name \in NamesOf(pc[p]) \cap Files
    BY <2>1, NextFile
  <2>3. /\ file' = [file EXCEPT ![plan[p][1].name] = Mangled]
        /\ UNCHANGED <<pc, plan, moved>>
        /\ \A q \in Procs \ {p} : open'[q] = IF q \in SameFileOpen(p) THEN "disturbed" ELSE open[q]
        /\ SameFileOpen(p) = {} => open'[p] = "alone"
    BY <1>12 DEF CreateFile, SameFileOpen
  <2>4. dumpSpoilt' = (dumpSpoilt \/ (pc[p] = "dump" /\ UsesDumpTmp(Others(p))))
    BY <1>12, Zenon DEF CreateFile
  <2>5. ASSUME NEW q \in SameFileOpen(p)
        PROVE  q \in Procs \ {p} /\ open[q] # "no" /\ (pc[p] = "dump" <=> pc[q] = "dump")
    <3>1. q \in Procs \ {p} /\ open[q] # "no" /\ plan[q][1].name = plan[p][1].name
      BY DEF SameFileOpen, Others
    <3>2. pc[q] \in Writing
      BY <3>1 DEF Closed
    <3>3. plan[q][1].name \in NamesOf(pc[q])
      BY <3>1, <3>2, NextFile
    <3>4. pc[q] = "dump" <=> plan[q][1].name = "dump.tmp"
      BY <3>1, <3>2, <3>3, NamesApart, DumpFile
    <3>5. pc[p] = "dump" <=> plan[p][1].name = "dump.tmp"
      BY <2>1, <2>2, NamesApart, DumpFile
    <3> QED
      BY <3>1, <3>4, <3>5
  <2>6. file'["dump"] = file["dump"]
    BY <2>1, <2>2, <2>3, NamesApart DEF FilesTyped, Files, KeyFiles
  <2>7. CASE pc[p] # "dump"
    <3>1. file'["dump.tmp"] = file["dump.tmp"]
      BY <2>1, <2>2, <2>3, <2>7, NamesApart DEF FilesTyped, Files, KeyFiles
    <3>2. \A q \in Procs : pc[q] = "dump" => open'[q] = open[q]
      BY <2>3, <2>5, <2>7
    <3>3. dumpSpoilt' = dumpSpoilt
      BY <2>4, <2>7
    <3> QED
      BY <2>3, <2>6, <3>1, <3>2, <3>3, DumpElsewhere
  <2>8. CASE pc[p] = "dump"
    <3> SUFFICES ASSUME ~dumpSpoilt, ~UsesDumpTmp(Others(p)) PROVE DumpInv'
      BY <2>4, <2>8 DEF DumpInv
    <3>1. \A q \in Procs \ {p} : ~UsesTmp(q)
      BY DEF UsesDumpTmp, DumpsInto, UsesTmp, Others
    <3>2. SameFileOpen(p) = {}
      BY <2>5, <2>8, <3>1 DEF UsesTmp
    <3>3. \A q \in Procs \ {p} : open'[q] = open[q]
      BY <2>3, <3>2
    <3>4. \A q \in Procs \ {p} : ~UsesTmp(q)' /\ pc'[q] # "rename"
      BY <2>3, <3>1, <3>3 DEF UsesTmp
    <3> QED
      BY <2>3, <2>6, <2>8, <3>2, <3>3, <3>4 DEF DumpInv
  <2> QED
    BY <2>7, <2>8
<1>13. CASE FinishFile(p)
  <2>1. pc[p] \in Writing /\ open[p] # "no"
    BY <1>13 DEF FinishFile
  <2>2. plan[p][1].name \in NamesOf(pc[p]) \cap Files
    BY <2>1, NextFile
  <2>3. /\ \A f \in Files \ {"dump", plan[p][1].name} : file'[f] = file[f]
        /\ moved[p] = "no" =>
             \E c \in {plan[p][1].is} \cup (IF open[p] = "alone" THEN {} ELSE {Mangled}) :
                file' = [file EXCEPT ![plan[p][1].name] = c]
    BY <1>13 DEF FinishFile, Target, FilesTyped
  <2>4. /\ open' = [open EXCEPT ![p] = "no"]
        /\ plan' = [plan EXCEPT ![p] = Tail(@)]
        /\ moved' = [moved EXCEPT ![p] = "no"]
        /\ UNCHANGED dumpSpoilt
        /\ IF Len(plan[p]) = 1 THEN pc' = [pc EXCEPT ![p] = AfterWriting(pc[p])] ELSE pc' = pc
    BY <1>13 DEF FinishFile
  <2>5. ASSUME moved[p] = "no" PROVE file'["dump"] = file["dump"]
    BY <2>1, <2>2, <2>3, <2>5, NamesApart DEF FilesTyped, Files, KeyFiles
  <2>6. CASE pc[p] # "dump"
    <3>1. file'["dump.tmp"] = file["dump.tmp"]
      BY <2>1, <2>2, <2>3, <2>6, NamesApart DEF FilesTyped, Files, KeyFiles
    <3>2. pc'[p] \notin {"dump", "rename"} /\ \A q \in Procs \ {p} : pc'[q] = pc[q]
      BY <2>1, <2>4, <2>6 DEF AfterWriting
    <3>3. moved[p] = "no"
      BY <2>6 DEF DumpPlanned
    <3> QED
      BY <1>2, <2>1, <2>4, <2>5, <2>6, <3>1, <3>2, <3>3
  <2>7. CASE pc[p] = "dump"
    <3> SUFFICES ASSUME ~dumpSpoilt PROVE DumpInv'
      BY <2>4 DEF DumpInv
    <3>1. plan[p][1].is # Mangled /\ open[p] = "alone" /\ moved[p] = "no"
      BY <2>1, <2>7 DEF DumpInv, Openness
    <3>2. file'["dump.tmp"] # Mangled
      BY <2>3, <2>7, <3>1, DumpFile DEF FilesTyped, Files, KeyFiles
    <3>3. pc' = [pc EXCEPT ![p] = "rename"]
      BY <2>4, <2>7, DumpFile DEF AfterWriting
    <3>4. \A q \in Procs : UsesTmp(q)' => UsesTmp(q)
      BY <2>1, <2>4, <2>7, <3>3 DEF UsesTmp
    <3> QED
      BY <2>4, <2>5, <2>7, <3>2, <3>3, <3>4 DEF DumpInv
  <2> QED
    BY <2>6, <2>7
<1>14. CASE Abort(p)
  <2> SUFFICES ASSUME ~dumpSpoilt PROVE DumpInv'
    BY <1>14 DEF Abort, DumpInv
  <2>1. /\ pc' = [pc EXCEPT ![p] = "idle"] /\ plan' = [plan EXCEPT ![p] = <<>>]
        /\ open' = [open EXCEPT ![p] = "no"]
    BY <1>14 DEF Abort
  <2>2. file'["dump"] = file["dump"] /\ file'["dump.tmp"] \in {file["dump.tmp"], Absent}
    BY <1>14 DEF Abort, FilesTyped, Files, KeyFiles
  <2>3. \A q \in Procs : UsesTmp(q)' => UsesTmp(q)
    BY <2>1 DEF UsesTmp
  <2>4. \A q \in Procs : moved'[q] = "no"
    BY <1>14 DEF Abort, Removed, DumpsInto, UsesTmp, DumpInv
  <2> QED
    BY <2>1, <2>2, <2>3, <2>4 DEF DumpInv
<1>15. CASE RenameDump(p)
  <2> SUFFICES ASSUME ~dumpSpoilt PROVE DumpInv'
    BY <1>15 DEF RenameDump, DumpInv
  <2>1. /\ \A q \in Procs \ {p} : pc'[q] = pc[q]
        /\ pc'[p] \in {"ended", "check"} /\ pc[p] = "rename"
        /\ UNCHANGED <<plan, open>>
    BY <1>15 DEF RenameDump
  <2>2. \A q \in Procs : UsesTmp(q)' => UsesTmp(q)
    BY <2>1 DEF UsesTmp
  <2>3. file["dump.tmp"] # Mangled
    BY <2>1 DEF DumpInv
  <2>4. file'["dump"] # Mangled /\ file'["dump.tmp"] # Mangled
    BY <1>15, <2>3 DEF RenameDump, FilesTyped, Files, KeyFiles, DumpInv
  <2>5. \A q \in Procs : moved'[q] = "no"
    BY <1>15, <2>1 DEF RenameDump, Renamed, DumpsInto, UsesTmp, DumpInv
  <2> QED
    BY <2>1, <2>2, <2>4, <2>5 DEF DumpInv
<1> QED
  BY <1>1, <1>3, <1>4, <1>5, <1>6, <1>7, <1>8, <1>9, <1>10, <1>11, <1>12, <1>13, <1>14, <1>15

-----------------------------------------------------------------------------
(* The keys. *)

\* A whole setup or finalize done is a set of keys of one generation.
LEMMA KeyPlanDone ==
  ASSUME NEW p \in Procs, NEW place \in KeyWriting, NEW w \in WholePlans(place),
         plan'[p] = <<>>, Done(p, w)'
  PROVE  KeysMatch'
<1>1. PICK g \in Gens : w = SetupPlan(g) \/ (w = FinalizePlan /\ g = Pin)
  <2>1. CASE place = "setup"
    BY <2>1 DEF WholePlans, Gens
  <2>2. CASE place = "finalize"
    BY <2>2 DEF WholePlans, Gens
  <2> QED
    BY <2>1, <2>2
<1>2. \A j \in 1 .. Len(w) : file'[w[j].name] = w[j].is
  BY DEF Done
<1>3. file'["ccs"] = g /\ file'["pk"] = g /\ file'["vk"] = g
  <2>1. CASE w = SetupPlan(g)
    BY <1>2, <2>1 DEF SetupPlan, Item
  <2>2. CASE w = FinalizePlan /\ g = Pin
    BY <1>2, <2>2 DEF FinalizePlan, Item
  <2> QED
    BY <1>1, <2>1, <2>2
<1> QED
  BY <1>3 DEF KeysMatch

\* What is calm after a step was calm before it, with nobody but p at work.
LEMMA CalmBefore ==
  ASSUME IInv, KeysInv, Next, Calm'
  PROVE  Calm
<1>1. PICK p \in Procs :
        \/ Setup(p) \/ Finalize(p) \/ Prove(p) \/ Dump(p)
        \/ CreateFile(p) \/ FinishFile(p) \/ Abort(p)
        \/ ReadVK(p) \/ ReadCCS(p) \/ ReadPK(p) \/ ProveSeal(p)
        \/ RenameDump(p) \/ CheckDump(p)
  BY DEF Next
<1>2. aborts' = 0 => aborts = 0
  <2>1. CASE Abort(p)
    BY <2>1 DEF Abort, IInv, TypeOK
  <2>2. CASE ~Abort(p)
    BY <1>1, <2>2 DEF Setup, Finalize, Prove, Dump, CreateFile, FinishFile, ReadVK,
                      ReadCCS, ReadPK, ProveSeal, RenameDump, CheckDump
  <2> QED
    BY <2>1, <2>2
<1>3. overlap => overlap'
  BY <1>1, Zenon
     DEF Setup, Finalize, Prove, Dump, CreateFile, FinishFile, Abort, ReadVK,
         ReadCCS, ReadPK, ProveSeal, RenameDump, CheckDump
<1>4. dumped => dumped'
  BY <1>1 DEF Setup, Finalize, Prove, Dump, CreateFile, FinishFile, Abort, ReadVK,
              ReadCCS, ReadPK, ProveSeal, RenameDump, CheckDump
<1> QED
  BY <1>2, <1>3, <1>4 DEF Calm

\* A step of the only process at work that is not writing keys.
LEMMA KeysElsewhere ==
  ASSUME IInv, KeysInv, Calm, NEW p \in Procs,
         \A q \in Procs \ {p} : ~Active(q) /\ pc'[q] = pc[q] /\ mem'[q] = mem[q],
         pc[p] \notin KeyWriting, pc'[p] \notin KeyWriting,
         \A f \in {"dump", "pk", "vk", "ccs"} : file'[f] = file[f],
         \A q \in Procs : moved[q] = "no" => moved'[q] = "no",
         Loaded(p)', pc'[p] = "selfVerifyFailed" => mem'[p].mode = "manifest"
  PROVE  KeysInv'
<1>1. \A q \in Procs : pc[q] \notin KeyWriting
  OBVIOUS
<1>2. KeysMatch'
  BY <1>1 DEF KeysInv, KeysMatch
<1>3. \A q \in Procs : Loaded(q)'
  BY DEF Loaded
<1>4. \A q \in Procs : pc'[q] = "selfVerifyFailed" => mem'[q].mode = "manifest"
  BY DEF KeysInv
<1>5. file'["dump"] = Absent
  BY DEF KeysInv
<1>6. \A q1, q2 \in Procs : Active(q1)' /\ Active(q2)' => q1 = q2
  OBVIOUS
<1> QED
  BY <1>2, <1>3, <1>4, <1>5, <1>6 DEF KeysInv

\* A command that writes keys and starts when nobody else is at work.
LEMMA KeyPlanMade ==
  ASSUME IInv, KeysInv, Closed, Calm, NEW p \in Procs, NEW place \in KeyWriting,
         NEW w \in WholePlans(place),
         \A q \in Procs \ {p} : ~Active(q),
         pc' = [pc EXCEPT ![p] = place], plan' = [plan EXCEPT ![p] = w],
         pc[p] \in Ended, UNCHANGED <<file, open, moved, mem>>
  PROVE  KeysInv'
<1> USE DEF IInv, TypeOK
<1>1. pc'[p] = place /\ open'[p] = "no" /\ plan'[p] = w
  BY DEF Closed
<1>2. Rest(plan[p], w)' /\ Done(p, w)'
  BY <1>1, WholePlanFacts, DoneNothing
<1>3. \A q \in Procs : pc'[q] \in KeyWriting => q = p
  OBVIOUS
<1>4. \A q \in Procs : Loaded(q)'
  BY DEF Loaded
<1>5. \A q1, q2 \in Procs : Active(q1)' /\ Active(q2)' => q1 = q2
  OBVIOUS
<1>6. \A q \in Procs : pc'[q] = "selfVerifyFailed" => mem'[q].mode = "manifest"
  BY DEF KeysInv
<1>7. file'["dump"] = Absent
  BY DEF KeysInv
<1>8. \A q \in Procs : pc'[q] \in KeyWriting =>
        /\ open'[q] # "disturbed"
        /\ \E u \in WholePlans(pc'[q]) : Rest(plan[q], u)' /\ Done(q, u)'
  BY <1>1, <1>2, <1>3
<1>9. ~(\A q \in Procs : pc'[q] \notin KeyWriting)
  BY <1>1
<1> QED
  BY <1>4, <1>5, <1>6, <1>7, <1>8, <1>9 DEF KeysInv

\* The keys as they are when the only process at work is not writing them.
LEMMA KeysAtRest ==
  ASSUME IInv, KeysInv, Calm, NEW p \in Procs, pc[p] \notin KeyWriting,
         \A q \in Procs \ {p} : ~Active(q)
  PROVE  KeysMatch /\ file["dump"] = Absent /\ Loaded(p)
BY DEF KeysInv

LEMMA KeysStep == ASSUME IInv, Planned, Closed, KeysInv, Next PROVE KeysInv'
<1> USE DEF IInv, TypeOK
<1> SUFFICES ASSUME Calm' PROVE KeysInv'
  BY DEF KeysInv
<1>1. Calm
  BY CalmBefore
<1>2. PICK p \in Procs :
        \/ Setup(p) \/ Finalize(p) \/ Prove(p) \/ Dump(p)
        \/ CreateFile(p) \/ FinishFile(p) \/ Abort(p)
        \/ ReadVK(p) \/ ReadCCS(p) \/ ReadPK(p) \/ ProveSeal(p)
        \/ RenameDump(p) \/ CheckDump(p)
  BY DEF Next
<1>3. \A q \in Procs \ {p} : ~Active(q)
  <2>1. CASE Setup(p) \/ Finalize(p) \/ Prove(p) \/ Dump(p)
    <3>1. overlap' = (overlap \/ \E q \in Others(p) : Active(q))
      BY <2>1, Zenon DEF Setup, Finalize, Prove, Dump
    <3> QED
      BY <3>1 DEF Calm, Others
  <2>2. CASE ~(Setup(p) \/ Finalize(p) \/ Prove(p) \/ Dump(p))
    <3>1. Active(p)
      BY <1>2, <2>2 DEF CreateFile, FinishFile, Abort, ReadVK, ReadCCS, ReadPK, ProveSeal,
                        RenameDump, CheckDump
    <3> QED
      BY <1>1, <3>1 DEF KeysInv
  <2> QED
    BY <2>1, <2>2
<1>4. /\ mem[p] \in Memory
      /\ \A f \in {"vk", "ccs", "pk", "dump"} : file[f] \in KeyContents
  BY DEF FilesTyped, KeyFiles
\* A step of p that only changes where it is and what it remembers.
<1>5. ASSUME NEW place \in Places \ KeyWriting, pc[p] \notin KeyWriting,
             pc' = [pc EXCEPT ![p] = place], \A q \in Procs \ {p} : mem'[q] = mem[q],
             \A f \in {"dump", "pk", "vk", "ccs"} : file'[f] = file[f],
             UNCHANGED moved,
             place \in {"readCCS", "readPK", "prove"} => Loaded(p)',
             place = "selfVerifyFailed" => mem'[p].mode = "manifest"
      PROVE  KeysInv'
  <2>1. Loaded(p)'
    BY <1>5 DEF Loaded
  <2> QED
    BY <1>1, <1>3, <1>5, <2>1, KeysElsewhere
<1>6. CASE Setup(p)
  <2>1. PICK g \in DevGens : plan' = [plan EXCEPT ![p] = SetupPlan(g)]
    BY <1>6 DEF Setup
  <2>2. SetupPlan(g) \in WholePlans("setup")
    BY DEF WholePlans
  <2> QED
    BY <1>1, <1>3, <1>6, <2>1, <2>2, KeyPlanMade DEF Setup
<1>7. CASE Finalize(p)
  <2>1. FinalizePlan \in WholePlans("finalize")
    BY DEF WholePlans
  <2> QED
    BY <1>1, <1>3, <1>7, <2>1, KeyPlanMade DEF Finalize
<1>8. CASE Prove(p)
  BY <1>5, <1>8 DEF Prove, Places, Proving
<1>9. CASE Dump(p)
  BY <1>5, <1>9 DEF Dump, Places
<1>10. CASE CheckDump(p)
  BY <1>5, <1>10 DEF CheckDump, Places
<1>11. CASE RenameDump(p)
  BY <1>5, <1>11 DEF RenameDump, Places, Calm
<1>12. CASE Abort(p)
  BY <1>1, <1>12 DEF Abort, Calm
<1>13. CASE ReadVK(p)
  <2>1. CASE Die(p)
    BY <1>5, <1>13, <2>1 DEF ReadVK, Places
  <2>2. CASE ~Die(p)
    <3>1. PICK v : /\ v \in (IF mem[p].mode = "manifest" THEN {Pin} ELSE Read(file["vk"]))
                   /\ mem' = [mem EXCEPT ![p].vk = v] /\ pc' = [pc EXCEPT ![p] = "readCCS"]
      BY <1>13, <2>2 DEF ReadVK
    <3>2. pc[p] = "readVK" /\ UNCHANGED <<file, moved>>
      BY <1>13 DEF ReadVK
    <3>3. mem[p].mode # "manifest" => v = file["vk"]
      BY <1>1, <1>3, <3>1, <3>2, KeysAtRest DEF Read, KeysMatch
    <3>4. mem'[p].mode = mem[p].mode /\ mem'[p].vk = v /\ pc'[p] = "readCCS"
      BY <1>4, <3>1 DEF Memory
    <3>5. Loaded(p)'
      BY <3>2, <3>3, <3>4 DEF Loaded
    <3> QED
      BY <1>5, <3>1, <3>2, <3>5 DEF Places, Proving
  <2> QED
    BY <2>1, <2>2
<1>14. CASE ReadCCS(p)
  <2>1. CASE Die(p)
    BY <1>5, <1>14, <2>1 DEF ReadCCS, Places
  <2>2. CASE ~Die(p)
    <3>1. PICK v : /\ v \in (IF mem[p].mode = "manifest" THEN CachedAsset ELSE Read(file["ccs"]))
                   /\ mem' = [mem EXCEPT ![p].ccs = v] /\ pc' = [pc EXCEPT ![p] = "readPK"]
      BY <1>14, <2>2 DEF ReadCCS
    <3>2. pc[p] = "readCCS" /\ UNCHANGED <<file, moved>>
      BY <1>14 DEF ReadCCS
    <3>3. mem[p].mode # "manifest" => v = file["ccs"] /\ mem[p].vk = file["vk"]
      BY <1>1, <1>3, <3>1, <3>2, KeysAtRest DEF Read, KeysMatch, Loaded
    <3>4. /\ mem'[p].mode = mem[p].mode /\ mem'[p].vk = mem[p].vk /\ mem'[p].ccs = v
          /\ pc'[p] = "readPK"
      BY <1>4, <3>1 DEF Memory
    <3>5. Loaded(p)'
      BY <3>2, <3>3, <3>4 DEF Loaded
    <3> QED
      BY <1>5, <3>1, <3>2, <3>5 DEF Places, Proving
  <2> QED
    BY <2>1, <2>2
<1>15. CASE ReadPK(p)
  <2>1. CASE Die(p)
    BY <1>5, <1>15, <2>1 DEF ReadPK, Places
  <2>2. CASE ~Die(p)
    <3>1. PICK v : /\ v \in (IF mem[p].mode = "manifest" THEN CachedAsset ELSE LoadProvingKey)
                   /\ mem' = [mem EXCEPT ![p].pk = v] /\ pc' = [pc EXCEPT ![p] = "prove"]
      BY <1>15, <2>2 DEF ReadPK
    <3>2. pc[p] = "readPK" /\ UNCHANGED <<file, moved>>
      BY <1>15 DEF ReadPK
    <3>3. KeysMatch /\ file["dump"] = Absent /\ Loaded(p)
      BY <1>1, <1>3, <3>2, KeysAtRest
    <3>4. LoadProvingKey = {file["pk"]}
      BY <3>3 DEF LoadProvingKey, Read, KeysMatch
    <3>5. mem[p].mode # "manifest" =>
            v = file["pk"] /\ mem[p].vk = file["vk"] /\ mem[p].ccs = file["ccs"]
      BY <3>1, <3>2, <3>3, <3>4 DEF Loaded
    <3>6. /\ mem'[p].mode = mem[p].mode /\ mem'[p].vk = mem[p].vk /\ mem'[p].ccs = mem[p].ccs
          /\ mem'[p].pk = v /\ pc'[p] = "prove"
      BY <1>4, <3>1 DEF Memory
    <3>7. Loaded(p)'
      BY <3>2, <3>5, <3>6 DEF Loaded
    <3> QED
      BY <1>5, <3>1, <3>2, <3>7 DEF Places, Proving
  <2> QED
    BY <2>1, <2>2
<1>16. CASE ProveSeal(p)
  <2>1. CASE SelfVerifies(mem[p])
    BY <1>5, <1>16, <2>1 DEF ProveSeal, Places
  <2>2. CASE ~SelfVerifies(mem[p])
    <3>1. pc[p] = "prove" /\ pc' = [pc EXCEPT ![p] = "selfVerifyFailed"]
          /\ UNCHANGED <<mem, file, moved>>
      BY <1>16, <2>2 DEF ProveSeal
    <3>2. KeysMatch /\ Loaded(p)
      BY <1>1, <1>3, <3>1, KeysAtRest
    <3>3. mem[p].mode = "manifest"
      BY <2>2, <3>1, <3>2 DEF SelfVerifies, KeysMatch, Loaded
    <3> QED
      BY <1>5, <3>1, <3>3 DEF Places
  <2> QED
    BY <2>1, <2>2
<1>17. CASE CreateFile(p)
  <2>1. pc[p] \in Writing /\ open[p] = "no"
    BY <1>17 DEF CreateFile
  <2>2. plan[p] \in Seq(Items) /\ plan[p] # <<>> /\ plan[p][1].name \in NamesOf(pc[p]) \cap Files
    BY <2>1, NextFile
  <2>3. file' = [file EXCEPT ![plan[p][1].name] = Mangled] /\ UNCHANGED <<pc, plan, moved, mem>>
    BY <1>17 DEF CreateFile
  <2>4. CASE pc[p] \notin KeyWriting
    <3>1. \A f \in {"dump", "pk", "vk", "ccs"} : file'[f] = file[f]
      BY <2>1, <2>2, <2>3, <2>4, NamesApart DEF FilesTyped, Files, KeyFiles
    <3>2. Loaded(p)' /\ pc'[p] # "selfVerifyFailed"
      BY <2>1, <2>3 DEF Loaded
    <3> QED
      BY <1>1, <1>3, <2>3, <2>4, <3>1, <3>2, KeysElsewhere
  <2>5. CASE pc[p] \in KeyWriting
    <3>1. open'[p] = "alone"
      BY <1>3, <1>17 DEF CreateFile, SameFileOpen, Others, Closed
    <3>2. PICK w \in WholePlans(pc[p]) : Rest(plan[p], w) /\ Done(p, w)
      BY <1>1, <2>5 DEF KeysInv
    <3>3. Done(p, w)' /\ Rest(plan[p], w)'
      <4>1. plan'[p] = plan[p] /\ file \in [Files -> KeyContents \cup OutContents]
        BY <2>3 DEF FilesTyped
      <4>2. Done(p, w)'
        BY <2>1, <2>2, <2>3, <3>2, <4>1, WholePlanFacts, DoneCreate
      <4> QED
        BY <3>2, <4>1, <4>2 DEF Rest
    <3>4. file'["dump"] = Absent
      BY <1>1, <2>1, <2>2, <2>3, NamesApart DEF FilesTyped, Files, KeyFiles, KeysInv
    <3>5. \A q \in Procs : Loaded(q)'
      BY <1>3, <2>3, <2>5 DEF Loaded
    <3>6. \A q \in Procs : pc'[q] = "selfVerifyFailed" => mem'[q].mode = "manifest"
      BY <1>1, <2>3 DEF KeysInv
    <3>7. \A q \in Procs : pc'[q] \in KeyWriting => q = p
      <4>1. \A q \in Procs : pc'[q] = pc[q]
        BY <2>3
      <4> QED
        BY <1>3, <4>1
    <3> QED
      BY <1>1, <2>3, <2>5, <3>1, <3>2, <3>3, <3>4, <3>5, <3>6, <3>7 DEF KeysInv
  <2> QED
    BY <2>4, <2>5
<1>18. CASE FinishFile(p)
  <2>1. pc[p] \in Writing /\ open[p] # "no"
    BY <1>18 DEF FinishFile
  <2>2. plan[p] \in Seq(Items) /\ plan[p] # <<>> /\ plan[p][1].name \in NamesOf(pc[p]) \cap Files
    BY <2>1, NextFile
  <2>3. /\ \A f \in Files \ {"dump", plan[p][1].name} : file'[f] = file[f]
        /\ moved[p] = "no" =>
             \E c \in {plan[p][1].is} \cup (IF open[p] = "alone" THEN {} ELSE {Mangled}) :
                file' = [file EXCEPT ![plan[p][1].name] = c]
    BY <1>18 DEF FinishFile, Target, FilesTyped
  <2>4. /\ open' = [open EXCEPT ![p] = "no"]
        /\ plan' = [plan EXCEPT ![p] = Tail(@)]
        /\ moved' = [moved EXCEPT ![p] = "no"]
        /\ UNCHANGED mem
        /\ IF Len(plan[p]) = 1 THEN pc' = [pc EXCEPT ![p] = AfterWriting(pc[p])] ELSE pc' = pc
    BY <1>18 DEF FinishFile
  <2>5. AfterWriting(pc[p]) \in {"ended", "finalized", "proved", "rename"}
    BY DEF AfterWriting
  <2>6. /\ \A q \in Procs \ {p} : pc'[q] = pc[q]
        /\ pc'[p] \in {pc[p], AfterWriting(pc[p])}
    BY <2>4
  <2>7. CASE pc[p] \notin KeyWriting
    <3>1. \A f \in {"dump", "pk", "vk", "ccs"} : file'[f] = file[f]
      BY <1>1, <2>1, <2>2, <2>3, <2>7, NamesApart DEF FilesTyped, Files, KeyFiles, KeysInv
    <3>2. Loaded(p)' /\ pc'[p] # "selfVerifyFailed" /\ pc'[p] \notin KeyWriting
      BY <2>1, <2>5, <2>6, <2>7 DEF Loaded
    <3> QED
      BY <1>1, <1>3, <2>4, <2>6, <2>7, <3>1, <3>2, KeysElsewhere
  <2>8. CASE pc[p] \in KeyWriting
    <3>1. open[p] = "alone"
      BY <1>1, <2>1, <2>8 DEF KeysInv, Openness
    <3>2. PICK w \in WholePlans(pc[p]) : Rest(plan[p], w) /\ Done(p, w)
      BY <1>1, <2>8 DEF KeysInv
    <3>3. file' = [file EXCEPT ![plan[p][1].name] = plan[p][1].is]
      BY <1>1, <2>3, <3>1 DEF KeysInv
    <3>4. Done(p, w)' /\ Rest(plan[p], w)'
      BY <2>1, <2>2, <2>4, <3>2, <3>3, WholePlanFacts, DoneFinish DEF FilesTyped
    <3>5. file'["dump"] = Absent
      BY <1>1, <2>1, <2>2, <2>3, NamesApart DEF FilesTyped, Files, KeyFiles, KeysInv
    <3>6. \A q \in Procs : Loaded(q)'
      BY <1>3, <2>5, <2>6, <2>8 DEF Loaded
    <3>7. \A q \in Procs : pc'[q] = "selfVerifyFailed" => mem'[q].mode = "manifest"
      BY <1>1, <2>4, <2>5, <2>6, <2>8 DEF KeysInv
    <3>8. \A q \in Procs : pc'[q] \in KeyWriting => q = p
      BY <1>3, <2>6
    <3>9. \A q1, q2 \in Procs : Active(q1)' /\ Active(q2)' => q1 = q2
      BY <1>3, <2>6
    <3>10. \A q \in Procs : moved'[q] = "no"
      BY <1>1, <2>4 DEF KeysInv
    <3>11. CASE Len(plan[p]) = 1
      <4>1. plan'[p] = <<>>
        BY <2>2, <2>4, <3>11, EmptySeq
      <4>2. KeysMatch'
        BY <2>8, <3>2, <3>4, <4>1, KeyPlanDone
      <4>3. \A q \in Procs : pc'[q] \notin KeyWriting
        BY <2>4, <2>5, <3>8, <3>11
      <4> QED
        BY <3>5, <3>6, <3>7, <3>9, <3>10, <4>2, <4>3 DEF KeysInv
    <3>12. CASE Len(plan[p]) # 1
      <4>1. pc' = pc /\ open'[p] = "no"
        BY <2>4, <3>12
      <4>2. \A q \in Procs : pc'[q] \in KeyWriting =>
              /\ open'[q] # "disturbed"
              /\ \E u \in WholePlans(pc'[q]) : Rest(plan[q], u)' /\ Done(q, u)'
        BY <3>2, <3>4, <3>8, <4>1
      <4>3. ~(\A q \in Procs : pc'[q] \notin KeyWriting)
        BY <2>8, <4>1
      <4> QED
        BY <3>5, <3>6, <3>7, <3>9, <3>10, <4>2, <4>3 DEF KeysInv
    <3> QED
      BY <3>11, <3>12
  <2> QED
    BY <2>7, <2>8
<1> QED
  BY <1>2, <1>6, <1>7, <1>8, <1>9, <1>10, <1>11, <1>12, <1>13, <1>14, <1>15, <1>16, <1>17, <1>18

-----------------------------------------------------------------------------
LEMMA InitFiles == Init => FInv
<1> SUFFICES ASSUME Init PROVE FInv
  OBVIOUS
<1>1. \A f \in Files : file[f] = Absent
  BY DEF Init
<1>2. file["dump"] = Absent /\ file["pk"] = Absent /\ file["vk"] = Absent /\ file["ccs"] = Absent
  BY <1>1 DEF Files, KeyFiles
<1>3. \A f \in OutFiles : file[f] = Absent
  BY <1>1, KindsApart
<1>4. \A p \in Procs : pc[p] = "idle" /\ open[p] = "no"
  BY DEF Init
<1>5. Planned /\ Closed
  BY <1>4 DEF Planned, Closed
<1>6. OutputsInv
  BY <1>3, <1>4 DEF OutputsInv
<1>7. DumpInv
  BY <1>2, <1>4 DEF Init, DumpInv, UsesTmp
<1>8. KeysInv
  <2>1. \A p \in Procs : moved[p] = "no"
    BY DEF Init
  <2> QED
    BY <1>2, <1>4, <2>1 DEF KeysInv, KeysMatch, Loaded
<1> QED
  BY <1>5, <1>6, <1>7, <1>8, InitInv DEF FInv

LEMMA NextFiles == FInv /\ [Next]_vars => FInv'
<1>1. FInv /\ Next => FInv'
  BY NextInv, PlannedStep, OutputsStep, DumpInvStep, KeysStep DEF FInv
<1>2. FInv /\ UNCHANGED vars => FInv'
  <2> SUFFICES ASSUME FInv, UNCHANGED vars PROVE FInv'
    OBVIOUS
  <2>1. UNCHANGED <<file, pc, plan, open, moved, mem, aborts, overlap, dumped, dumpSpoilt, outSpoilt>>
    BY DEF vars
  <2>2. Planned' /\ Closed'
    BY <2>1 DEF FInv, Planned, Closed
  <2>3. OutputsInv'
    BY <2>1 DEF FInv, OutputsInv, Done, Whole
  <2>4. DumpInv'
    BY <2>1 DEF FInv, DumpInv, UsesTmp
  <2>5. KeysInv'
    BY <2>1 DEF FInv, KeysInv, Calm, Done, KeysMatch, Loaded
  <2> QED
    BY <2>2, <2>3, <2>4, <2>5, NextInv DEF FInv
<1> QED
  BY <1>1, <1>2

THEOREM FilesInvariance == Spec => []FInv
BY InitFiles, NextFiles, PTL DEF Spec

\* The output directory at rest is empty or one run's, unless the last
\* publication was cut short or shared with another (main.go:279-294).
THEOREM OutputsWhole == Spec => []OutputsOfOneRun
<1>1. FInv => OutputsOfOneRun
  BY DEF FInv, OutputsInv, OutputsOfOneRun
<1> QED
  BY <1>1, FilesInvariance, PTL

\* A crash never leaves a damaged dump under its published name (main.go:463).
THEOREM DumpWhole == Spec => []DumpPublishedWhole
<1>1. FInv => DumpPublishedWhole
  BY DEF FInv, DumpInv, DumpPublishedWhole
<1> QED
  BY <1>1, FilesInvariance, PTL

\* The self-verify fails only after a command died, two ran at once, a dump
\* was made, or a manifest asset was not what was verified (main.go:276).
THEOREM SelfVerifyExplained == Spec => []SelfVerifyFailsFor
<1>1. FInv => SelfVerifyFailsFor
  BY DEF FInv, IInv, TypeOK, KeysInv, Calm, SelfVerifyFailsFor
<1> QED
  BY <1>1, FilesInvariance, PTL
=============================================================================
