----------------------------- MODULE ProverKeys -----------------------------
(***************************************************************************)
(* The keys directory and the output directory of the Groth16 prover       *)
(* (go/cmd/groth16bls/main.go: setup --dev, prove, dump) and the ceremony  *)
(* command that fills the same keys directory (go/cmd/ceremony/main.go:    *)
(* phase2-finalize), run as processes that may overlap, die half way and   *)
(* be run again.                                                           *)
(*                                                                         *)
(* A key file is known by the key generation it belongs to: Pin for the    *)
(* ceremony's keys, a fresh one for each dev setup (each has its own    *)
(* toxic waste).  Mangled stands for any other contents: truncated, half   *)
(* written, or mixed from two writers.  A proof made with the proving key  *)
(* of one generation verifies under the verifying key of that generation   *)
(* and no other.                                                           *)
(***************************************************************************)
EXTENDS Naturals, Sequences

CONSTANTS
  Procs,      \* processes (shells, hosts) that run the commands
  Seals,      \* seals to prove, each with its own public inputs
  Pin,        \* the ceremony's key generation, whose fingerprint is pinned
  DevGens,    \* generations of dev keys: bounds the dev setups of a behaviour
  Absent,     \* no file
  Mangled,    \* contents that are nothing in particular
  MaxRuns,    \* bound on commands run in a behaviour
  MaxAborts   \* bound on commands that die half way

Gens == {Pin} \cup DevGens

ASSUME ProverKeysAssumption ==
  /\ MaxRuns \in Nat /\ MaxAborts \in Nat
  /\ Seals # {}
  /\ Pin \notin DevGens /\ Absent # Mangled
  /\ Absent \notin Gens /\ Mangled \notin Gens

KeyFiles == {"ccs", "pk", "vk", "vk.cardano", "INSECURE_DEV", "dump", "dump.tmp"}
OutFiles == {"proof", "public", "proof.cardano", "public.cardano", "out.vk.cardano"}
Files == KeyFiles \cup OutFiles
Output == [seal : Seals, gen : Gens]
KeyContents == Gens \cup {Absent, Mangled}
OutContents == Output \cup Gens \cup {Absent, Mangled}

VARIABLES
  file,       \* contents of every file
  pc,         \* what each process is doing
  plan,       \* the files it has yet to write, in order, with their contents
  open,       \* whether it is writing the first of them
  moved,      \* where that file is now: still under its name, or not
  mem,        \* what a prove has been asked for and has loaded
  used,       \* dev generations made so far
  runs,       \* commands started
  aborts,     \* commands that died half way
  overlap,    \* history: two commands have run at once
  dumped,     \* history: a dump has been published
  dumpSpoilt, \* history: two dumps shared dump.tmp, or one read a mangled key
  outSpoilt,  \* history: the last publication was cut short or shared
  published   \* history: the proofs that were written out

vars == <<file, pc, plan, open, moved, mem, used, runs, aborts, overlap, dumped, dumpSpoilt,
          outSpoilt, published>>

-----------------------------------------------------------------------------
Modes == {"dev", "keys", "manifest"}
Wanted == {Pin, Absent}          \* $RISC0_GROTH16_BLS_VK_SHA256: the pin, or unset

Memory == [mode : Modes, want : Wanted, seal : Seals, vk : KeyContents, ccs : KeyContents, pk : KeyContents]
NoMemory == [mode |-> "dev", want |-> Absent, seal |-> CHOOSE s \in Seals : TRUE,
             vk |-> Absent, ccs |-> Absent, pk |-> Absent]

Writing == {"setup", "finalize", "publish", "dump"}
Proving == {"readVK", "readCCS", "readPK", "prove"}
Ended == {"idle", "ended", "finalized", "proved", "selfVerifyFailed"}
Places == Writing \cup Proving \cup Ended \cup {"rename", "check"}
Openness == {"no", "alone", "disturbed"}
Moves == {"no", "renamed", "gone"}

Item(f, c) == [name |-> f, is |-> c]
Items == [name : KeyFiles, is : KeyContents] \cup [name : OutFiles, is : Output \cup Gens]

Active(p) == pc[p] \notin Ended
Others(p) == Procs \ {p}

FilesTyped ==
  /\ file \in [Files -> KeyContents \cup OutContents]
  /\ \A f \in KeyFiles : file[f] \in KeyContents
  /\ \A f \in OutFiles : file[f] \in OutContents

TypeOK ==
  /\ FilesTyped
  /\ pc \in [Procs -> Places]
  /\ plan \in [Procs -> Seq(Items)]
  /\ open \in [Procs -> Openness]
  /\ moved \in [Procs -> Moves]
  /\ mem \in [Procs -> Memory]
  /\ used \subseteq DevGens
  /\ runs \in 0 .. MaxRuns
  /\ aborts \in 0 .. MaxAborts
  /\ overlap \in BOOLEAN
  /\ dumped \in BOOLEAN
  /\ dumpSpoilt \in BOOLEAN
  /\ outSpoilt \in BOOLEAN
  /\ published \subseteq [mode : Modes, seal : Seals, vk : KeyContents, pk : KeyContents]

Init ==
  /\ file = [f \in Files |-> Absent]
  /\ pc = [p \in Procs |-> "idle"]
  /\ plan = [p \in Procs |-> <<>>]
  /\ open = [p \in Procs |-> "no"]
  /\ moved = [p \in Procs |-> "no"]
  /\ mem = [p \in Procs |-> NoMemory]
  /\ used = {}
  /\ runs = 0
  /\ aborts = 0
  /\ overlap = FALSE
  /\ dumped = FALSE
  /\ dumpSpoilt = FALSE
  /\ outSpoilt = FALSE
  /\ published = {}

-----------------------------------------------------------------------------
Goto(p, place) == pc' = [pc EXCEPT ![p] = place]

\* A process starts a command.
Start(p, place) ==
  /\ ~Active(p)
  /\ runs < MaxRuns
  /\ runs' = runs + 1
  /\ overlap' = (overlap \/ \E q \in Others(p) : Active(q))
  /\ Goto(p, place)

\* It stops, with an error message (die) or at its end: nothing is undone.
Forget(p) == mem' = [mem EXCEPT ![p] = NoMemory]
Die(p) == Goto(p, "ended") /\ Forget(p)

(* ---- writing files: writeTo, serialize.writeFile, os.WriteFile ---- *)

SetupPlan(g) ==
  <<Item("ccs", g), Item("pk", g), Item("vk", g), Item("vk.cardano", g),
    Item("INSECURE_DEV", g)>>

\* cmdSetup with --dev: new keys with a generation of their own.
Setup(p) ==
  /\ Start(p, "setup")
  /\ \E g \in DevGens \ used :
        /\ used' = used \cup {g}
        /\ plan' = [plan EXCEPT ![p] = SetupPlan(g)]
  /\ UNCHANGED <<file, open, moved, mem, aborts, dumped, dumpSpoilt, outSpoilt, published>>

\* (Mutant of FinalizePlan: the verifying key of earlier keys is kept.)
FinalizePlanOldVK ==
  <<Item("ccs", Pin), Item("pk", Pin), Item("vk.cardano", Pin)>>

FinalizePlan ==
  <<Item("ccs", Pin), Item("pk", Pin), Item("vk", Pin), Item("vk.cardano", Pin)>>

\* phase2-finalize over a verified transcript: the keys are a function of it.
Finalize(p) ==
  /\ Start(p, "finalize")
  /\ plan' = [plan EXCEPT ![p] = FinalizePlan]
  /\ UNCHANGED <<file, open, moved, mem, used, aborts, dumped, dumpSpoilt, outSpoilt, published>>

SameFileOpen(p) ==
  {q \in Others(p) :
     open[q] # "no" /\ moved[q] = "no" /\ plan[q][1].name = plan[p][1].name}

\* q is writing a dump.
DumpsInto(q) == pc[q] = "dump" /\ open[q] # "no"

UsesDumpTmp(ps) ==
  \E q \in ps : pc[q] = "rename" \/ DumpsInto(q)

\* os.Create truncates the file; whoever else has it open now shares it.
CreateFile(p) ==
  /\ pc[p] \in Writing
  /\ plan[p] # <<>>
  /\ open[p] = "no"
  /\ file' = [file EXCEPT ![plan[p][1].name] = Mangled]
  /\ open' = [q \in Procs |->
                IF q \in SameFileOpen(p) THEN "disturbed"
                ELSE IF q # p THEN open[q]
                ELSE IF SameFileOpen(p) = {} THEN "alone" ELSE "disturbed"]
  /\ dumpSpoilt' = (dumpSpoilt \/ (pc[p] = "dump" /\ UsesDumpTmp(Others(p))))
  /\ UNCHANGED <<pc, plan, moved, mem, used, runs, aborts, overlap, dumped, outSpoilt, published>>

\* (Mutant of AfterWriting: a dump ends where nothing takes it up.)
AfterWritingLost(place) ==
  CASE place = "setup" -> "ended"
    [] place = "finalize" -> "finalized"
    [] place = "publish" -> "proved"
    [] OTHER -> "dumped"

AfterWriting(place) ==
  CASE place = "setup" -> "ended"
    [] place = "finalize" -> "finalized"
    [] place = "publish" -> "proved"
    [] OTHER -> "rename"

\* The bytes are written, synced and the file closed; the next file follows.
\* They go to the file that was created, wherever another dump's rename has
\* moved it by now, and nowhere once nothing links to it.
Target(p) == IF moved[p] = "no" THEN plan[p][1].name ELSE "dump"

FinishFile(p) ==
  /\ pc[p] \in Writing
  /\ open[p] # "no"
  /\ IF moved[p] = "gone" THEN UNCHANGED file
     ELSE \E c \in {plan[p][1].is} \cup (IF open[p] = "alone" THEN {} ELSE {Mangled}) :
             file' = [file EXCEPT ![Target(p)] = c]
  /\ open' = [open EXCEPT ![p] = "no"]
  /\ moved' = [moved EXCEPT ![p] = "no"]
  /\ plan' = [plan EXCEPT ![p] = Tail(@)]
  /\ IF Len(plan[p]) = 1 THEN Goto(p, AfterWriting(pc[p])) ELSE UNCHANGED pc
  /\ UNCHANGED <<mem, used, runs, aborts, overlap, dumped, dumpSpoilt, outSpoilt, published>>

\* The process is killed, the machine stops, or a write fails, at any point.
\* Only files it has open are affected: each one before was synced.  A dump
\* whose write failed, rather than crashed, removes what has the temporary
\* name by then, even under another dump that is writing it.
Removed(p) ==
  [q \in Procs |-> IF q # p /\ DumpsInto(q) /\ moved[q] = "no" THEN "gone"
                   ELSE IF q = p THEN "no" ELSE moved[q]]

Abort(p) ==
  /\ Active(p)
  /\ aborts < MaxAborts
  /\ aborts' = aborts + 1
  /\ Goto(p, "idle")
  /\ \/ UNCHANGED file /\ moved' = [moved EXCEPT ![p] = "no"]
     \/ /\ DumpsInto(p) \/ pc[p] = "rename"
        /\ file' = [file EXCEPT !["dump.tmp"] = Absent]
        /\ moved' = Removed(p)
  /\ plan' = [plan EXCEPT ![p] = <<>>]
  /\ open' = [open EXCEPT ![p] = "no"]
  /\ outSpoilt' = (outSpoilt \/ pc[p] = "publish")
  /\ Forget(p)
  /\ UNCHANGED <<used, runs, overlap, dumped, dumpSpoilt, published>>

(* ---- reading files ---- *)

\* What reading contents c can yield: a decoder rejects some mangled input
\* (Absent here: the caller dies) and accepts some.
Read(c) == IF c = Mangled THEN {Mangled, Absent} ELSE {c}

\* loadProvingKey: the dump wins whenever it exists and is not empty, and is
\* not checked against anything.
LoadProvingKey ==
  CASE file["dump"] = Absent -> Read(file["pk"])
    [] file["dump"] = Mangled -> Read(Mangled) \cup Read(file["pk"])
    [] OTHER -> {file["dump"]}

\* The cached assets of a manifest key-set (module AssetCache), or a dump
\* lying beside them: the ceremony's, unusable, or not what was verified.
CachedAsset == {Pin, Absent, Mangled}

(* ---- prove ---- *)

HaveKeys == \A f \in {"ccs", "pk", "vk"} : file[f] # Absent

\* cmdProve up to haveKeys.
Prove(p) ==
  /\ Start(p, "readVK")
  /\ \E m \in Modes, w \in Wanted, s \in Seals :
        /\ m # "manifest" => HaveKeys
        /\ mem' = [mem EXCEPT ![p] = [NoMemory EXCEPT !.mode = m, !.want = w, !.seal = s]]
  /\ UNCHANGED <<file, plan, open, moved, used, aborts, dumped, dumpSpoilt, outSpoilt, published>>

\* The production gate: the fingerprint of the loaded verifying key must be
\* the pinned one; with explicit keys the pin must be given, the manifest
\* has its own.
GatePasses(m, vk) ==
  \/ m.mode = "dev"
  \/ m.mode = "keys" /\ m.want # Absent /\ vk = m.want
  \/ m.mode = "manifest" /\ vk = (IF m.want = Absent THEN Pin ELSE m.want)

\* The verifying key is read (embedded for a manifest key-set) and gated.
ReadVK(p) ==
  /\ pc[p] = "readVK"
  /\ \E v \in (IF mem[p].mode = "manifest" THEN {Pin} ELSE Read(file["vk"])) :
        IF v # Absent /\ GatePasses(mem[p], v)
        THEN mem' = [mem EXCEPT ![p].vk = v] /\ Goto(p, "readCCS")
        ELSE Die(p)
  /\ UNCHANGED <<file, plan, open, moved, used, runs, aborts, overlap, dumped, dumpSpoilt, outSpoilt, published>>

\* The constraint system, minutes before the proving key.
ReadCCS(p) ==
  /\ pc[p] = "readCCS"
  /\ \E v \in (IF mem[p].mode = "manifest" THEN CachedAsset ELSE Read(file["ccs"])) :
        IF v # Absent
        THEN mem' = [mem EXCEPT ![p].ccs = v] /\ Goto(p, "readPK")
        ELSE Die(p)
  /\ UNCHANGED <<file, plan, open, moved, used, runs, aborts, overlap, dumped, dumpSpoilt, outSpoilt, published>>

ReadPK(p) ==
  /\ pc[p] = "readPK"
  /\ \E v \in (IF mem[p].mode = "manifest" THEN CachedAsset ELSE LoadProvingKey) :
        IF v # Absent
        THEN mem' = [mem EXCEPT ![p].pk = v] /\ Goto(p, "prove")
        ELSE Die(p)
  /\ UNCHANGED <<file, plan, open, moved, used, runs, aborts, overlap, dumped, dumpSpoilt, outSpoilt, published>>

\* (Mutant of SelfVerifies: the post-prove check is dropped.)
SelfVerifiesUnchecked(m) == Mangled \notin {m.vk, m.ccs}

\* groth16.Verify of the fresh proof.  Every generation's ccs is the same
\* frozen circuit, so only a mangled one matters.
SelfVerifies(m) == m.pk = m.vk /\ Mangled \notin {m.vk, m.ccs}

\* What an output file holds: the verifying key is the run's, whatever the
\* seal; the others are of the seal as well.
Part(f, o) == IF f = "out.vk.cardano" THEN o.gen ELSE o

\* (Mutant of OutPlan: a verifying key that is there already is kept.)
OutPlanKeepsVK(o) ==
  <<Item("proof", o), Item("public", o), Item("proof.cardano", o), Item("public.cardano", o)>>
  \o (IF file["out.vk.cardano"] = Absent THEN <<Item("out.vk.cardano", o.gen)>> ELSE <<>>)

\* The five output files, in the order they are written.
OutPlan(o) ==
  <<Item("proof", o), Item("public", o), Item("proof.cardano", o),
    Item("public.cardano", o), Item("out.vk.cardano", o.gen)>>

\* Prove, self-verify and begin to write the outputs.
ProveSeal(p) ==
  /\ pc[p] = "prove"
  /\ IF SelfVerifies(mem[p])
     THEN /\ Goto(p, "publish")
          /\ plan' = [plan EXCEPT ![p] = OutPlan([seal |-> mem[p].seal, gen |-> mem[p].vk])]
          /\ published' = published \cup
               {[mode |-> mem[p].mode, seal |-> mem[p].seal, vk |-> mem[p].vk, pk |-> mem[p].pk]}
          /\ outSpoilt' = \E q \in Others(p) : pc[q] = "publish"
          /\ Forget(p)
     ELSE Goto(p, "selfVerifyFailed") /\ UNCHANGED <<plan, mem, published, outSpoilt>>
  /\ UNCHANGED <<file, open, moved, used, runs, aborts, overlap, dumped, dumpSpoilt>>

(* ---- dump ---- *)

\* (Mutant of DumpPlan: the dump is written in place.)
DumpPlanInPlace(g) == <<Item("dump", g)>>

DumpPlan(g) == <<Item("dump.tmp", g)>>

\* cmdDump: pk.bin is read, then written raw to a fixed temporary name.
Dump(p) ==
  /\ file["pk"] # Absent
  /\ Start(p, "dump")
  /\ \E v \in Read(file["pk"]) \ {Absent} :
        /\ plan' = [plan EXCEPT ![p] = DumpPlan(v)]
        /\ dumpSpoilt' = (dumpSpoilt \/ v = Mangled)
  /\ UNCHANGED <<file, open, moved, mem, used, aborts, dumped, outSpoilt, published>>

\* writeDump's os.Rename moves whatever the temporary name holds by now, from
\* under a dump that is writing it, and unlinks what had the final name.
Renamed(q) ==
  IF ~DumpsInto(q) THEN moved[q] ELSE IF moved[q] = "no" THEN "renamed" ELSE "gone"

RenameDump(p) ==
  /\ pc[p] = "rename"
  /\ IF file["dump.tmp"] = Absent
     THEN Die(p) /\ UNCHANGED <<file, moved, dumped>>
     ELSE /\ Goto(p, "check")
          /\ file' = [file EXCEPT !["dump"] = file["dump.tmp"], !["dump.tmp"] = Absent]
          /\ moved' = [q \in Procs |-> Renamed(q)]
          /\ dumped' = TRUE
          /\ UNCHANGED mem
  /\ UNCHANGED <<plan, open, used, runs, aborts, overlap, dumpSpoilt, outSpoilt, published>>

\* --check reads the dump back and compares a second dump of it; either way
\* the published one stays.
CheckDump(p) ==
  /\ pc[p] = "check"
  /\ Die(p)
  /\ UNCHANGED <<file, plan, open, moved, used, runs, aborts, overlap, dumped, dumpSpoilt, outSpoilt, published>>

-----------------------------------------------------------------------------
Next ==
  \E p \in Procs :
    \/ Setup(p) \/ Finalize(p) \/ Prove(p) \/ Dump(p)
    \/ CreateFile(p) \/ FinishFile(p) \/ Abort(p)
    \/ ReadVK(p) \/ ReadCCS(p) \/ ReadPK(p) \/ ProveSeal(p)
    \/ RenameDump(p) \/ CheckDump(p)

Spec == Init /\ [][Next]_vars

-----------------------------------------------------------------------------
(* Properties *)

\* main.go:16-21: whatever happens to the keys directory between the gate
\* and the proof - another setup, a stale or mangled dump, a half-written
\* key - a proof that is written out without --dev was made with the pinned
\* proving key.
ProductionIsPinned ==
  \A r \in published : r.mode # "dev" => r.vk = Pin /\ r.pk = Pin

\* The output directory at rest is empty or one run's complete set, unless
\* the last publication was cut short or shared with another; a later run
\* that is neither repairs what one left (main.go:279-294).
Whole(o) == \A f \in OutFiles : file[f] = Part(f, o)
OutputsOfOneRun ==
  (\A p \in Procs : pc[p] # "publish") /\ ~outSpoilt =>
     (\A f \in OutFiles : file[f] = Absent) \/ \E o \in Output : Whole(o)

\* main.go:463: a crash never leaves a damaged dump under the name that
\* loadProvingKey uses; only dumps sharing dump.tmp or a mangled pk.bin do.
DumpPublishedWhole == file["dump"] = Mangled => dumpSpoilt

\* The self-verify that "should never happen" to fail (main.go:276) indeed
\* fails only after a command died, two commands ran at once, a dump was
\* made, or a manifest asset was not what was verified.
SelfVerifyFailsFor ==
  \A p \in Procs : pc[p] = "selfVerifyFailed" =>
     aborts > 0 \/ overlap \/ dumped \/ mem[p].mode = "manifest"

\* main.go:276: "self-verify failed (this should never happen)" - with
\* explicit keys, where nothing but the prover's own commands write them.
SelfVerifyNeverFails ==
  \A p \in Procs : pc[p] = "selfVerifyFailed" => mem[p].mode = "manifest"

\* ceremony/main.go:282: "Keys written to %s (NO dev marker)".
CeremonyKeysUnmarked ==
  \A p \in Procs : pc[p] = "finalized" => file["INSECURE_DEV"] = Absent
=============================================================================
