------------------------------ MODULE Ceremony ------------------------------
(***************************************************************************)
(* The setup ceremony (go/cmd/ceremony/main.go): commands that read files  *)
(* handed from one participant to the next and write one file each.  The   *)
(* files are named by hand; any number of commands may run at once, over   *)
(* the same names, and may die between any two of their steps.             *)
(*                                                                         *)
(* The folder of a ceremony is one name space; the machines it is copied   *)
(* between are further names.  A command opens its output with O_TRUNC in  *)
(* place, so until it has finished the name holds a torn file, which does  *)
(* not decode; nor does a file of another kind.  Two commands that write   *)
(* one name at once leave the bytes of either, or of both mixed.           *)
(***************************************************************************)
EXTENDS SetupStates

CONSTANTS
  Procs,      \* processes, on any machine
  Paths,      \* file names
  Absent,     \* no file
  Torn,       \* a file that does not decode
  MaxRuns,    \* bound on the outputs opened
  MaxFaults,  \* bound on commands that die and files that come from outside
  MaxFiles    \* bound on the contribution files one command is given

ASSUME CeremonyAssumption ==
  /\ MaxRuns \in Nat /\ MaxFaults \in Nat /\ MaxFiles \in Nat
  /\ None \notin Contributors
  /\ Absent # Torn /\ {Absent, Torn} \cap (CommonsStates \cup PhaseStates) = {}

VARIABLES
  file,    \* what each name holds
  pc,      \* "idle", "reading", "writing", or "mixed" when another writer shares the output
  op,      \* the command each process runs
  got,     \* what it has read
  out,     \* the name it writes to
  result,  \* what it writes there
  keys,    \* the key pairs whose fingerprint phase2-finalize has printed
  runs, faults,
  seen,    \* history: everything a name ever held whole
  fresh    \* history: no command was given an output name that already existed

local == <<pc, op, got, out, result>>
vars == <<file, local, keys, runs, faults, seen, fresh>>

-----------------------------------------------------------------------------
Contribute == {"phase1-contribute", "phase2-contribute"}
Closing == {"phase1-seal", "phase2-finalize"}
Ops == {"phase1-init", "phase2-init"} \cup Contribute \cup Closing

\* readFrom: what the i-th file of a command has to hold.  The names are on the command line;
\* here each is chosen when it is opened.
Wanted(o, i) ==
  CASE o \in {"phase1-contribute", "phase1-seal"} -> "phase1"
    [] o = "phase2-contribute" -> "phase2"
    [] o = "phase2-init" -> "commons"
    [] o = "phase2-finalize" -> IF i = 1 THEN "commons" ELSE "phase2"

\* How many files a command may be given.
Fewest(o) == CASE o = "phase1-init" -> 0 [] o = "phase2-finalize" -> 2 [] OTHER -> 1
Most(o) == CASE o = "phase1-seal" -> MaxFiles
             [] o = "phase2-finalize" -> MaxFiles + 1
             [] OTHER -> Fewest(o)

\* (Mutant of Decodes: a file of any kind is taken.)
DecodesAnyKind(x, kind) == x \notin {Absent, Torn}

Decodes(x, kind) == x \notin {Absent, Torn} /\ x.kind = kind

\* (Mutants of Verified: the links between the files only; the last file only; the list has to
\* begin with the uncontributed state.)
VerifiedLinks(kind, root, g) ==
  \A i \in 2..Len(g) : \E c \in Contributors : g[i] = Contributed(g[i - 1], c)
VerifiedLast(kind, root, g) == g[Len(g)].root = root /\ g[Len(g)].chain # <<>>
VerifiedFromFile(kind, root, g) == g[1] = Initial(kind, root) /\ VerifiedLinks(kind, root, g)

\* mpcsetup.VerifyPhase1 and VerifyPhase2: from the initial state on, each file is the phase of
\* that beginning with the secrets of the file before it and one more.
Verified(kind, root, g) ==
  \A i \in 1..Len(g) : \E c \in Contributors :
    g[i] = State(kind, root, Append(IF i = 1 THEN <<>> ELSE g[i - 1].chain, c))

\* (Mutant of Unused: the same secret may be drawn in two commands at once.)
UnusedSoFar(c) == \A x \in seen : \A i \in 1..Len(x.chain) : x.chain[i] # c

\* A secret of nobody's: not in any state so far, nor in one that is being written.
Unused(c) == /\ \A x \in seen : \A i \in 1..Len(x.chain) : x.chain[i] # c
             /\ \A q \in Procs : pc[q] \in {"writing", "mixed"} =>
                  \A i \in 1..Len(result[q].chain) : result[q].chain[i] # c

\* What a command that has read g may make of it; --power, --beacon and the secret are
\* chosen here.  Nothing, when verification or Initialize fails.
Results(o, g) ==
  CASE o = "phase1-init" -> {Initial("phase1", n) : n \in Powers}
    [] o = "phase2-init" -> {Initial("phase2", k) : k \in {k \in {g[1]} : LargeEnough(k)}}
    [] o \in Contribute -> {Contributed(g[1], c) : c \in {c \in Contributors : Unused(c)}}
    [] o = "phase1-seal" ->
         {Sealed("commons", n, g[Len(g)].chain, b) :
            n \in {n \in Powers : Verified("phase1", n, g)}, b \in Beacons}
    [] o = "phase2-finalize" ->
         {Sealed("keys", k, g[Len(g)].chain, b) :
            k \in {k \in {g[1]} : LargeEnough(k) /\ Verified("phase2", k, Tail(g))}, b \in Beacons}

\* Where a command can fail after it has read its files: a chain that does not hold, for the
\* --power given, or a phase 1 that is too small.
MayFail(o, g) ==
  CASE o = "phase1-seal" -> \E n \in Powers : ~Verified("phase1", n, g)
    [] o = "phase2-init" -> ~LargeEnough(g[1])
    [] o = "phase2-finalize" -> ~LargeEnough(g[1]) \/ ~Verified("phase2", g[1], Tail(g))
    [] OTHER -> FALSE

-----------------------------------------------------------------------------
Init ==
  /\ file = [f \in Paths |-> Absent]
  /\ pc = [p \in Procs |-> "idle"]
  /\ op = [p \in Procs |-> None]
  /\ got = [p \in Procs |-> <<>>]
  /\ out = [p \in Procs |-> None]
  /\ result = [p \in Procs |-> None]
  /\ keys = {} /\ seen = {}
  /\ runs = 0 /\ faults = 0
  /\ fresh = TRUE

\* The process is gone; its output, if it had opened one, stays as it is.
Exit(p) == /\ pc' = [pc EXCEPT ![p] = "idle"]
           /\ op' = [op EXCEPT ![p] = None]
           /\ got' = [got EXCEPT ![p] = <<>>]
           /\ out' = [out EXCEPT ![p] = None]
           /\ result' = [result EXCEPT ![p] = None]

\* The next file is read whole, or the command dies; the first one when it starts.
Read(p, o, f) ==
  /\ \/ pc[p] = "idle" /\ (runs < MaxRuns \/ o = "phase2-finalize")
     \/ pc[p] = "reading" /\ op[p] = o
  /\ Len(got[p]) < Most(o)
  /\ IF Decodes(file[f], Wanted(o, Len(got[p]) + 1))
     THEN /\ pc' = [pc EXCEPT ![p] = "reading"]
          /\ op' = [op EXCEPT ![p] = o]
          /\ got' = [got EXCEPT ![p] = Append(@, file[f])]
          /\ UNCHANGED <<out, result>>
     ELSE Exit(p)
  /\ UNCHANGED <<file, keys, runs, faults, seen, fresh>>

\* It has been given all its files (phase1-init reads none).
ReadAll(p, o) == \/ pc[p] = "reading" /\ op[p] = o /\ Len(got[p]) >= Fewest(o)
                 \/ pc[p] = "idle" /\ Fewest(o) = 0

\* Verification or Initialize fails, and the command dies before it opens its output.
Refuse(p) ==
  /\ pc[p] = "reading" /\ ReadAll(p, op[p]) /\ MayFail(op[p], got[p])
  /\ Exit(p)
  /\ UNCHANGED <<file, keys, runs, faults, seen, fresh>>

\* writeTo: os.Create empties whatever had the name.
Create(p, o, f) ==
  /\ ReadAll(p, o) /\ o # "phase2-finalize" /\ runs < MaxRuns
  /\ \E x \in Results(o, got[p]) : result' = [result EXCEPT ![p] = x]
  /\ file' = [file EXCEPT ![f] = Torn]
  /\ out' = [out EXCEPT ![p] = f]
  /\ op' = [op EXCEPT ![p] = o]
  /\ got' = [got EXCEPT ![p] = <<>>]
  /\ LET sharing == {q \in Procs : pc[q] \in {"writing", "mixed"} /\ out[q] = f}
     IN pc' = [q \in Procs |-> IF q \in sharing THEN "mixed"
                              ELSE IF q # p THEN pc[q]
                              ELSE IF sharing = {} THEN "writing" ELSE "mixed"]
  /\ fresh' = (fresh /\ file[f] = Absent)
  /\ runs' = runs + 1
  /\ UNCHANGED <<keys, faults, seen>>

\* What the name holds after a write: what was written, or, if others wrote there as well, some
\* mixture, which may happen to decode but is no state of this setup.
Written(p) == IF pc[p] = "writing" THEN {result[p]}
              ELSE {result[p], Torn} \cup {x \in OutsideFiles : x.kind = result[p].kind}

\* The rest of writeTo.
Write(p) ==
  /\ pc[p] \in {"writing", "mixed"}
  /\ \E x \in Written(p) : /\ file' = [file EXCEPT ![out[p]] = x]
                          /\ seen' = seen \cup ({x} \ {Torn})
  /\ Exit(p)
  /\ UNCHANGED <<keys, runs, faults, fresh>>

\* phase2-finalize writes the keys directory (module ProverKeys) and prints the fingerprint.
Finalize(p) ==
  /\ ReadAll(p, "phase2-finalize")
  /\ \E k \in Results("phase2-finalize", got[p]) : keys' = keys \cup {k}
  /\ Exit(p)
  /\ UNCHANGED <<file, runs, faults, seen, fresh>>

\* The command dies: an I/O error, a crash, an impatient participant.  (Before it has opened its
\* output it leaves no trace, and the fault is not counted.)
Die(p) ==
  /\ pc[p] # "idle"
  /\ IF pc[p] = "reading" THEN UNCHANGED faults ELSE faults < MaxFaults /\ faults' = faults + 1
  /\ Exit(p)
  /\ UNCHANGED <<file, keys, runs, seen, fresh>>

\* A file that no command here wrote is handed in.
HandIn(f) ==
  /\ file[f] = Absent /\ faults < MaxFaults
  /\ faults' = faults + 1
  /\ \E x \in OutsideFiles : file' = [file EXCEPT ![f] = x] /\ seen' = seen \cup {x}
  /\ UNCHANGED <<local, keys, runs, fresh>>

Next == \/ \E p \in Procs : \/ \E o \in Ops, f \in Paths : Read(p, o, f) \/ Create(p, o, f)
                           \/ Refuse(p) \/ Write(p) \/ Finalize(p) \/ Die(p)
        \/ \E f \in Paths : HandIn(f)

Spec == Init /\ [][Next]_vars

-----------------------------------------------------------------------------
Contents == {"phase1", "phase2", "commons"}

\* Every name holds something that was once whole, or nothing that decodes; what a process
\* has read has the kinds its command wants.
TypeOK ==
  /\ \A f \in Paths : file[f] \in seen \cup {Absent, Torn}
  /\ \A x \in seen : x.kind \in Contents
  /\ \A k \in keys : k.kind = "keys"
  /\ pc \in [Procs -> {"idle", "reading", "writing", "mixed"}]
  /\ \A p \in Procs :
       /\ pc[p] = "idle" => got[p] = <<>>
       /\ pc[p] # "idle" => op[p] \in Ops
       /\ Len(got[p]) <= MaxFiles + 1
       /\ \A i \in 1..Len(got[p]) : got[p][i] \in seen /\ got[p][i].kind = Wanted(op[p], i)
       /\ pc[p] \in {"writing", "mixed"} => out[p] \in Paths /\ result[p].kind \in Contents
  /\ runs \in 0..MaxRuns /\ faults \in 0..MaxFaults /\ fresh \in BOOLEAN

\* A secret ends up where its contributor put it: whatever is sealed or published with it
\* also has every secret its contributor had found there, in the same order and on the same
\* beginning, however the files were named, passed on, raced for or listed (main.go:190-196).
AsContributed ==
  \A s \in seen, k \in seen \cup keys :
    LET n == Len(s.chain)
    IN  s.kind \in Phases /\ n > 0 /\ (\E i \in 1..Len(k.chain) : k.chain[i] = s.chain[n])
          => k.root = s.root /\ SubSeq(k.chain, 1, n) = s.chain

LastSecrets(g) == [i \in 1..Len(g) |-> IF g[i].chain = <<>> THEN None ELSE g[i].chain[Len(g[i].chain)]]

SealsTheList(p) == op'[p] = "phase1-seal" /\ pc[p] = "reading" /\ pc'[p] \in {"writing", "mixed"}
                   => result'[p].chain = LastSecrets(got[p])

KeysFromList(k) == \E p \in Procs : op[p] = "phase2-finalize" /\ k.chain = LastSecrets(Tail(got[p]))

\* What is sealed or published is the secrets of the listed files, one of each, in the order of
\* the list: with a file left out in the middle, out of order, twice, or of another fork, there
\* is nothing to seal (main.go:186-198, 252-266).
ListIsChain ==
  [][(\A p \in Procs : SealsTheList(p)) /\ (\A k \in keys' \ keys : KeysFromList(k))]_vars

\* As long as every command was given a name of its own, nothing that was contributed is
\* stuck: the files on hand, given in order, pass the verification (main.go:186-198).  An
\* output that replaces its input (--out the same as --in) breaks the chain for good.
NeverStuck ==
  fresh => \A s \in seen :
             (s.kind \in Phases /\ s.root # Outside /\ s.chain # <<>>) =>
               \E fs \in [1..Len(s.chain) -> Paths] :
                 /\ \A i \in DOMAIN fs : file[fs[i]] \in seen
                 /\ Verified(s.kind, s.root, [i \in DOMAIN fs |-> file[fs[i]]])
                 /\ file[fs[Len(s.chain)]] = s

\* The commands on their files do what a transcript that only grows would do.
Setup == INSTANCE TrustedSetup WITH
           states <- {x \in seen : x.kind # "commons"},
           commons <- {x \in seen : x.kind = "commons"}
ImplementsSetup == Setup!Spec
=============================================================================
