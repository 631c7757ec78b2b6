--------------------------- MODULE CeremonyProofs ---------------------------
(***************************************************************************)
(* What the ceremony's files can hold, and that the commands do what       *)
(* TrustedSetup promises, for any number of processes, names,              *)
(* contributors, sizes and beacons, and for runs of any length.            *)
(*                                                                         *)
(* The argument: everything a process has read was once whole under some   *)
(* name (a file that is torn does not decode), so what it goes on to write *)
(* is made from the past of the ceremony, whatever has become of the names *)
(* since; and a secret that is being folded in is in no state so far and   *)
(* in no other state that is being written.                                *)
(***************************************************************************)
EXTENDS Ceremony, Arithmetic, SequenceTheorems, TLAPS

-----------------------------------------------------------------------------
Writing(p) == pc[p] \in {"writing", "mixed"}
Lacks(x, c) == \A i \in 1..Len(x.chain) : x.chain[i] # c
Good(x) == x.kind \in Contents /\ x.chain \in Seq(Contributors)

\* What an output can be: a beginning, a sealed phase 1, or a state with one secret more.
Begun(x) == \/ \E n \in Powers : x = Initial("phase1", n)
            \/ \E k \in seen : k.kind = "commons" /\ LargeEnough(k) /\ x = Initial("phase2", k)
Closed(x) == \E s \in seen, b \in Beacons :
               /\ s.kind = "phase1" /\ s.root \in Powers /\ s.chain # <<>>
               /\ x = Sealed("commons", s.root, s.chain, b)
Extended(x, c) == \E s \in seen : s.kind \in Phases /\ x = Contributed(s, c)

\* c is folded into the output of p and into nothing else.
AddedBy(p, c) == /\ Extended(result[p], c)
                 /\ \A x \in seen : Lacks(x, c)
                 /\ \A q \in Procs \ {p} : Writing(q) => Lacks(result[q], c)

OutputOK(p) == \/ Begun(result[p])
               \/ Closed(result[p])
               \/ \E c \in Contributors : AddedBy(p, c)

Typed ==
  /\ file \in [Paths -> seen \cup {Absent, Torn}]
  /\ pc \in [Procs -> {"idle", "reading", "writing", "mixed"}]
  /\ op \in [Procs -> Ops \cup {None}]
  /\ got \in [Procs -> Seq(seen)]
  /\ out \in [Procs -> Paths \cup {None}]
  /\ result = [p \in Procs |-> result[p]]
  /\ runs \in 0..MaxRuns /\ faults \in 0..MaxFaults /\ fresh \in BOOLEAN

ReadOK(p) == /\ pc[p] = "idle" => got[p] = <<>>
             /\ pc[p] # "idle" => op[p] \in Ops
             /\ Len(got[p]) <= MaxFiles + 1
             /\ \A i \in 1..Len(got[p]) : got[p][i].kind = Wanted(op[p], i)

IInv == /\ Typed
        /\ \A x \in seen : Good(x)
        /\ \A k \in keys : k.kind = "keys"
        /\ \A p \in Procs : ReadOK(p)
        /\ \A p \in Procs : Writing(p) => out[p] \in Paths /\ OutputOK(p)

-----------------------------------------------------------------------------
LEMMA NoSecrets == <<>> \in Seq(Contributors) /\ Len(<<>>) = 0
BY EmptySeq

LEMMA UnsealedGood ==
  ASSUME NEW r, NEW b, NEW kind \in Phases
  PROVE  /\ Initial(kind, r).kind = kind /\ Initial(kind, r).chain = <<>> /\ Good(Initial(kind, r))
         /\ Sealed("commons", r, <<>>, b).chain = <<>> /\ Good(Sealed("commons", r, <<>>, b))
<1>1. /\ Initial(kind, r).kind = kind /\ Initial(kind, r).chain = <<>>
      /\ Sealed("commons", r, <<>>, b).kind = "commons" /\ Sealed("commons", r, <<>>, b).chain = <<>>
  BY DEF Initial, State, Sealed
<1> QED
  BY <1>1, NoSecrets DEF Good, Contents, Phases

LEMMA OutsideFilesGood == \A x \in OutsideFiles : Good(x) /\ x.chain = <<>>
BY UnsealedGood DEF OutsideFiles, OutsideCommons, Phases

\* An output is as good as what it was made from.
LEMMA OutputGood ==
  ASSUME IInv, NEW p \in Procs, OutputOK(p)
  PROVE  Good(result[p])
<1>1. CASE Begun(result[p])
  BY <1>1, UnsealedGood DEF Begun, Phases
<1>2. CASE Closed(result[p])
  BY <1>2 DEF Closed, Sealed, Good, Contents, IInv
<1>3. ASSUME NEW c \in Contributors, AddedBy(p, c) PROVE Good(result[p])
  <2>1. PICK s \in seen : s.kind \in Phases /\ result[p] = Contributed(s, c)
    BY <1>3 DEF AddedBy, Extended
  <2>2. s.chain \in Seq(Contributors)
    BY DEF IInv, Good
  <2>3. Append(s.chain, c) \in Seq(Contributors)
    BY <2>2, AppendProperties
  <2> QED
    BY <2>1, <2>3 DEF Contributed, State, Good, Contents, Phases
<1> QED
  BY <1>1, <1>2, <1>3 DEF OutputOK

\* What was read is in the past of the ceremony.
LEMMA ReadSeen ==
  ASSUME IInv, NEW p \in Procs, NEW i \in 1..Len(got[p])
  PROVE  got[p][i] \in seen /\ got[p][i].kind = Wanted(op[p], i) /\ Good(got[p][i])
<1>1. got[p] \in Seq(seen)
  BY DEF IInv, Typed
<1>2. got[p][i] \in seen
  BY <1>1, ElementOfSeq
<1> QED
  BY <1>2 DEF IInv, ReadOK

LEMMA InitInv == Init => IInv
<1> SUFFICES ASSUME Init PROVE IInv
  OBVIOUS
<1>1. Typed
  BY CeremonyAssumption DEF Init, Typed
<1>2. \A p \in Procs : ReadOK(p) /\ ~Writing(p)
  BY CeremonyAssumption DEF Init, ReadOK, Writing
<1> QED
  BY <1>1, <1>2 DEF Init, IInv

-----------------------------------------------------------------------------
\* Nothing that another process writes is touched by a process that exits.
LEMMA ExitInv ==
  ASSUME IInv, NEW p \in Procs, Exit(p), seen' = seen,
         file' = file, UNCHANGED <<runs, fresh>>, faults' \in 0..MaxFaults,
         \A k \in keys' : k.kind = "keys"
  PROVE  IInv'
<1>1. Typed'
  BY EmptySeq, CeremonyAssumption DEF IInv, Typed, Exit
<1>2. \A q \in Procs : ReadOK(q)'
  BY CeremonyAssumption, NoSecrets DEF IInv, Typed, Exit, ReadOK
<1>3. \A q \in Procs : Writing(q)' => q # p /\ Writing(q) /\ out'[q] = out[q] /\ result'[q] = result[q]
  BY DEF IInv, Typed, Exit, Writing
<1>4. ASSUME NEW q \in Procs, Writing(q)' PROVE out'[q] \in Paths /\ OutputOK(q)'
  <2>1. out[q] \in Paths /\ OutputOK(q)
    BY <1>3, <1>4 DEF IInv
  <2>2. \A c : AddedBy(q, c) => AddedBy(q, c)'
    BY <1>3, <1>4 DEF AddedBy, Extended, Lacks
  <2> QED
    BY <1>3, <1>4, <2>1, <2>2 DEF OutputOK, Begun, Closed
<1> QED
  BY <1>1, <1>2, <1>4 DEF IInv, Good

LEMMA ReadInv ==
  ASSUME IInv, NEW p \in Procs, NEW o \in Ops, NEW f \in Paths, Read(p, o, f)
  PROVE  IInv'
<1> DEFINE i == Len(got[p]) + 1
<1>1. CASE ~Decodes(file[f], Wanted(o, i))
  BY <1>1, ExitInv DEF Read, IInv, Typed
<1>2. CASE Decodes(file[f], Wanted(o, i))
  <2> SUFFICES ASSUME TRUE PROVE IInv'
    OBVIOUS
  <2>1. /\ pc' = [pc EXCEPT ![p] = "reading"] /\ op' = [op EXCEPT ![p] = o]
        /\ got' = [got EXCEPT ![p] = Append(@, file[f])]
        /\ UNCHANGED <<file, out, result, keys, runs, faults, seen, fresh>>
        /\ pc[p] \in {"idle", "reading"} /\ (pc[p] = "reading" => op[p] = o)
        /\ Len(got[p]) < Most(o)
    BY <1>2 DEF Read
  <2>2. file[f] \in seen /\ file[f].kind = Wanted(o, i)
    BY <1>2 DEF Decodes, IInv, Typed
  <2>3. got[p] \in Seq(seen) /\ Len(got[p]) \in Nat
    BY LenProperties DEF IInv, Typed
  <2>4. /\ Append(got[p], file[f]) \in Seq(seen)
        /\ Len(Append(got[p], file[f])) = i
        /\ \A j \in 1..Len(got[p]) : Append(got[p], file[f])[j] = got[p][j]
        /\ Append(got[p], file[f])[i] = file[f]
    BY <2>2, <2>3, AppendProperties
  <2>5. Typed'
    BY <2>1, <2>4 DEF IInv, Typed
  <2>6. Most(o) <= MaxFiles + 1 /\ Most(o) \in Nat
    BY CeremonyAssumption DEF Most, Fewest, Ops, Contribute, Closing
  <2>7. got'[p] = Append(got[p], file[f]) /\ op'[p] = o /\ pc'[p] = "reading"
    BY <2>1 DEF IInv, Typed
  <2>8. ReadOK(p)'
    <3>1. Len(got'[p]) <= MaxFiles + 1
      BY <2>1, <2>3, <2>4, <2>6, <2>7, CeremonyAssumption
    <3>2. \A j \in 1..Len(got[p]) : got[p][j].kind = Wanted(o, j)
      BY <2>1, NoSecrets DEF IInv, ReadOK
    <3>3. \A j \in 1..i : got'[p][j].kind = Wanted(o, j)
      BY <2>2, <2>3, <2>4, <2>7, <3>2
    <3> QED
      BY <2>4, <2>7, <3>1, <3>3 DEF ReadOK
  <2>9. \A q \in Procs \ {p} : ReadOK(q)'
    BY <2>1 DEF IInv, Typed, ReadOK
  <2>10. ASSUME NEW q \in Procs, Writing(q)' PROVE out'[q] \in Paths /\ OutputOK(q)'
    <3>1. \A r \in Procs : Writing(r)' => r # p /\ Writing(r)
      BY <2>1 DEF IInv, Typed, Writing
    <3>2. out[q] \in Paths /\ OutputOK(q)
      BY <2>10, <3>1 DEF IInv
    <3>3. \A c : AddedBy(q, c) => AddedBy(q, c)'
      BY <2>1, <3>1 DEF AddedBy, Extended, Lacks
    <3> QED
      BY <2>1, <3>2, <3>3 DEF OutputOK, Begun, Closed
  <2> QED
    BY <2>1, <2>5, <2>8, <2>9, <2>10 DEF IInv, Good
<1> QED
  BY <1>1, <1>2

LEMMA RefuseInv == ASSUME IInv, NEW p \in Procs, Refuse(p) PROVE IInv'
BY ExitInv DEF Refuse, IInv, Typed

LEMMA DieInv == ASSUME IInv, NEW p \in Procs, Die(p) PROVE IInv'
<1>1. faults' \in 0..MaxFaults
  BY CeremonyAssumption DEF Die, IInv, Typed
<1> QED
  BY <1>1, ExitInv DEF Die, IInv

LEMMA FinalizeInv == ASSUME IInv, NEW p \in Procs, Finalize(p) PROVE IInv'
<1>1. \A k \in Results("phase2-finalize", got[p]) : k.kind = "keys"
  BY DEF Results, Sealed, Contribute
<1>2. \A k \in keys' : k.kind = "keys"
  BY <1>1 DEF Finalize, IInv
<1> QED
  BY <1>2, ExitInv DEF Finalize, IInv, Typed

\* The last file of a verified list was begun where the list was and has been contributed to.
LEMMA LastContributed ==
  ASSUME NEW kind, NEW root, NEW g, Len(g) \in Nat, Len(g) >= 1,
         \A i \in 1..Len(g) : Good(g[i]), Verified(kind, root, g)
  PROVE  g[Len(g)].root = root /\ g[Len(g)].chain # <<>>
<1>1. Len(g) \in 1..Len(g) /\ (Len(g) # 1 => Len(g) - 1 \in 1..Len(g))
  OBVIOUS
<1> DEFINE before == IF Len(g) = 1 THEN <<>> ELSE g[Len(g) - 1].chain
<1>2. PICK c \in Contributors : g[Len(g)] = State(kind, root, Append(before, c))
  BY <1>1 DEF Verified
<1>3. before \in Seq(Contributors)
  BY <1>1, NoSecrets DEF Good
<1>4. \A s \in Seq(Contributors) : Append(s, c) # <<>>
  BY AppendProperties
<1> QED
  BY <1>2, <1>3, <1>4 DEF State

\* The results of a command, case by case.
LEMMA ResultsOK ==
  ASSUME IInv, NEW p \in Procs, NEW o \in Ops, o # "phase2-finalize", ReadAll(p, o),
         NEW x \in Results(o, got[p])
  PROVE  \/ Begun(x)
         \/ Closed(x)
         \/ \E c \in Contributors : Unused(c) /\ Extended(x, c)
<1>1. CASE o = "phase1-init"
  <2>1. x \in {Initial("phase1", n) : n \in Powers}
    BY <1>1 DEF Results, Contribute
  <2> QED
    BY <2>1 DEF Begun
<1>2. CASE o # "phase1-init"
  <2> DEFINE g == got[p]
  <2>1. pc[p] = "reading" /\ op[p] = o /\ Len(g) >= 1
    BY <1>2 DEF ReadAll, Fewest, Ops, Contribute, Closing
  <2>2. Len(g) \in Nat /\ 1 \in 1..Len(g) /\ Len(g) \in 1..Len(g)
    BY <2>1, LenProperties DEF IInv, Typed
  <2>3. \A i \in 1..Len(g) : g[i] \in seen /\ g[i].kind = Wanted(o, i)
    BY <2>1, ReadSeen
  <2>4. CASE o = "phase2-init"
    <3>1. g[1] \in seen /\ g[1].kind = "commons"
      BY <2>2, <2>3, <2>4 DEF Wanted, Contribute
    <3>2. x \in {Initial("phase2", k) : k \in {k \in {g[1]} : LargeEnough(k)}}
      BY <2>4 DEF Results, Contribute
    <3> QED
      BY <3>1, <3>2 DEF Begun
  <2>5. CASE o \in Contribute
    <3>1. g[1] \in seen /\ g[1].kind \in Phases
      BY <2>2, <2>3, <2>5 DEF Wanted, Contribute, Phases
    <3> QED
      BY <2>5, <3>1 DEF Results, Contribute, Extended
  <2>6. CASE o = "phase1-seal"
    <3>1. g[Len(g)] \in seen /\ g[Len(g)].kind = "phase1"
      BY <2>2, <2>3, <2>6 DEF Wanted
    <3>2. PICK n \in Powers, b \in Beacons :
            Verified("phase1", n, g) /\ x = Sealed("commons", n, g[Len(g)].chain, b)
      BY <2>6 DEF Results, Contribute
    <3>3. \A i \in 1..Len(g) : Good(g[i])
      BY ReadSeen
    <3>4. g[Len(g)].root = n /\ g[Len(g)].chain # <<>>
      BY <2>1, <2>2, <3>2, <3>3, LastContributed
    <3> QED
      BY <3>1, <3>2, <3>4 DEF Closed
  <2> QED
    BY <1>2, <2>4, <2>5, <2>6 DEF Ops, Closing
<1> QED
  BY <1>1, <1>2

\* An output has only one secret that is in no state yet, its last.
LEMMA OnlyOneNew ==
  ASSUME IInv, NEW x, NEW c,
         \A y \in seen : Lacks(y, c)
  PROVE  /\ Begun(x) \/ Closed(x) => Lacks(x, c)
         /\ \A d \in Contributors : Extended(x, d) /\ d # c => Lacks(x, c)
         /\ \A d \in Contributors : Extended(x, d) => ~Lacks(x, d)
<1>1. ASSUME Begun(x) PROVE Lacks(x, c)
  BY <1>1, UnsealedGood, NoSecrets DEF Begun, Lacks, Phases
<1>2. ASSUME Closed(x) PROVE Lacks(x, c)
  BY <1>2 DEF Closed, Lacks, Sealed
<1>3. ASSUME NEW d \in Contributors, Extended(x, d)
      PROVE  ~Lacks(x, d) /\ (d # c => Lacks(x, c))
  <2>1. PICK s \in seen : x.chain = Append(s.chain, d)
    BY <1>3 DEF Extended, Contributed, State
  <2>2. s.chain \in Seq(Contributors)
    BY DEF IInv, Good
  <2>3. /\ Len(s.chain) \in Nat /\ Len(x.chain) = Len(s.chain) + 1
        /\ \A i \in 1..Len(s.chain) : x.chain[i] = s.chain[i]
        /\ x.chain[Len(s.chain) + 1] = d
    BY <2>1, <2>2, AppendProperties, LenProperties
  <2>4. ~Lacks(x, d)
    <3>1. Len(s.chain) + 1 \in 1..Len(x.chain)
      BY <2>3
    <3> QED
      BY <2>3, <3>1 DEF Lacks
  <2>5. ASSUME d # c, NEW i \in 1..Len(x.chain) PROVE x.chain[i] # c
    <3>1. i \in 1..Len(s.chain) \/ i = Len(s.chain) + 1
      BY <2>3
    <3> QED
      BY <2>3, <2>5, <3>1 DEF Lacks
  <2> QED
    BY <2>4, <2>5 DEF Lacks
<1> QED
  BY <1>1, <1>2, <1>3

LEMMA CreateInv ==
  ASSUME IInv, NEW p \in Procs, NEW o \in Ops, NEW f \in Paths, Create(p, o, f)
  PROVE  IInv'
<1>1. PICK x \in Results(o, got[p]) : result' = [result EXCEPT ![p] = x]
  BY DEF Create
<1>2. /\ ReadAll(p, o) /\ o # "phase2-finalize" /\ runs < MaxRuns
      /\ file' = [file EXCEPT ![f] = Torn] /\ out' = [out EXCEPT ![p] = f]
      /\ op' = [op EXCEPT ![p] = o] /\ got' = [got EXCEPT ![p] = <<>>]
      /\ pc' \in [Procs -> {"idle", "reading", "writing", "mixed"}]
      /\ Writing(p)' /\ ~Writing(p)
      /\ \A q \in Procs \ {p} : (pc'[q] = pc[q] \/ (Writing(q) /\ Writing(q)'))
      /\ fresh' \in BOOLEAN /\ runs' = runs + 1
      /\ UNCHANGED <<keys, faults, seen>>
  BY DEF Create, IInv, Typed, Writing, ReadAll
<1>3. Typed'
  <2>1. runs' \in 0..MaxRuns
    BY <1>2, CeremonyAssumption DEF IInv, Typed
  <2>2. result' = [q \in Procs |-> result'[q]]
    BY <1>1 DEF IInv, Typed
  <2>3. got' \in [Procs -> Seq(seen')]
    BY <1>2, EmptySeq DEF IInv, Typed
  <2>4. file' \in [Paths -> seen' \cup {Absent, Torn}]
    BY <1>2 DEF IInv, Typed
  <2> QED
    BY <1>2, <2>1, <2>2, <2>3, <2>4 DEF IInv, Typed
<1>4. ReadOK(p)'
  BY <1>2, NoSecrets, CeremonyAssumption DEF ReadOK, IInv, Typed, Writing
<1>5. \A q \in Procs \ {p} : ReadOK(q)'
  BY <1>2 DEF IInv, Typed, ReadOK, Writing
<1>6. /\ \A q \in Procs \ {p} : Writing(q)' <=> Writing(q)
      /\ \A q \in Procs \ {p} : result'[q] = result[q] /\ out'[q] = out[q]
      /\ result'[p] = x /\ out'[p] = f
  BY <1>1, <1>2 DEF IInv, Typed, Writing
<1>7. \/ Begun(x) \/ Closed(x)
      \/ \E c \in Contributors : Unused(c) /\ Extended(x, c)
  BY <1>1, <1>2, ResultsOK
<1>8. OutputOK(p)'
  <2>1. CASE Begun(x) \/ Closed(x)
    BY <1>2, <1>6, <2>1 DEF OutputOK, Begun, Closed
  <2>2. ASSUME NEW c \in Contributors, Unused(c), Extended(x, c) PROVE OutputOK(p)'
    <3>1. AddedBy(p, c)'
      BY <1>2, <1>6, <2>2 DEF AddedBy, Extended, Unused, Lacks, Writing
    <3> QED
      BY <3>1 DEF OutputOK
  <2> QED
    BY <1>7, <2>1, <2>2
<1>9. ASSUME NEW q \in Procs \ {p}, Writing(q)' PROVE out'[q] \in Paths /\ OutputOK(q)'
  <2>1. out[q] \in Paths /\ OutputOK(q) /\ Writing(q)
    BY <1>6, <1>9 DEF IInv
  <2>2. ASSUME NEW c \in Contributors, AddedBy(q, c) PROVE AddedBy(q, c)'
    <3>1. Lacks(x, c)
      <4>1. \A y \in seen : Lacks(y, c)
        BY <2>2 DEF AddedBy
      <4>2. ASSUME NEW d \in Contributors, Unused(d) PROVE d # c
        <5>1. Lacks(result[q], d)
          BY <2>1, <4>2 DEF Unused, Lacks, Writing
        <5>2. ~Lacks(result[q], c)
          BY <2>2, <4>1, OnlyOneNew DEF AddedBy
        <5> QED
          BY <5>1, <5>2
      <4> QED
        BY <1>7, <4>1, <4>2, OnlyOneNew
    <3>2. Extended(result[q], c)'
      BY <1>2, <1>6, <2>2 DEF AddedBy, Extended
    <3>3. ASSUME NEW r \in Procs \ {q}, Writing(r)' PROVE Lacks(result[r], c)'
      <4>1. CASE r = p
        BY <1>6, <3>1, <4>1 DEF Lacks
      <4>2. CASE r # p
        BY <1>6, <2>2, <3>3, <4>2 DEF AddedBy, Lacks
      <4> QED
        BY <4>1, <4>2
    <3> QED
      BY <1>2, <2>2, <3>2, <3>3 DEF AddedBy, Lacks
  <2> QED
    BY <1>2, <1>6, <2>1, <2>2 DEF OutputOK, Begun, Closed
<1> QED
  BY <1>2, <1>3, <1>4, <1>5, <1>6, <1>8, <1>9 DEF IInv, Good

\* What is on disk after a write or a hand-over, and what of the past it changes.
LEMMA WriteInv == ASSUME IInv, NEW p \in Procs, Write(p) PROVE IInv'
<1>1. PICK y \in Written(p) : file' = [file EXCEPT ![out[p]] = y] /\ seen' = seen \cup ({y} \ {Torn})
  BY DEF Write
<1>2. Writing(p) /\ Exit(p) /\ UNCHANGED <<keys, runs, faults, fresh>>
  BY DEF Write, Writing
<1>3. out[p] \in Paths /\ OutputOK(p) /\ Good(result[p])
  BY <1>2, OutputGood DEF IInv
<1>4. y = result[p] \/ y = Torn \/ y \in OutsideFiles
  BY DEF Written
<1>5. y # Torn => Good(y)
  BY <1>3, <1>4, OutsideFilesGood
<1>6. \A x \in seen' : Good(x)
  BY <1>1, <1>5 DEF IInv
<1>7. Typed'
  <2>1. file' \in [Paths -> seen' \cup {Absent, Torn}]
    BY <1>1, <1>3 DEF IInv, Typed
  <2>2. got' \in [Procs -> Seq(seen')]
    <3>1. \A q \in Procs : got[q] \in Seq(seen')
      BY <1>1, SeqMonotonic DEF IInv, Typed
    <3> QED
      BY <1>2, <3>1, EmptySeq DEF Exit, IInv, Typed
  <2> QED
    BY <1>2, <2>1, <2>2 DEF IInv, Typed, Exit
<1>8. \A q \in Procs : ReadOK(q)'
  BY <1>2, CeremonyAssumption, NoSecrets DEF IInv, Typed, Exit, ReadOK
<1>9. \A q \in Procs : Writing(q)' => q # p /\ Writing(q) /\ out'[q] = out[q] /\ result'[q] = result[q]
  BY <1>2 DEF IInv, Typed, Exit, Writing
<1>10. ASSUME NEW q \in Procs, Writing(q)' PROVE out'[q] \in Paths /\ OutputOK(q)'
  <2>1. q # p /\ Writing(q) /\ out[q] \in Paths /\ OutputOK(q)
    BY <1>9, <1>10 DEF IInv
  <2>2. ASSUME NEW c \in Contributors, AddedBy(q, c) PROVE AddedBy(q, c)'
    <3>1. y # Torn => Lacks(y, c)
      BY <1>2, <1>4, <2>1, <2>2, OutsideFilesGood, NoSecrets DEF AddedBy, Lacks
    <3>2. \A x \in seen' : Lacks(x, c)
      BY <1>1, <2>2, <3>1 DEF AddedBy
    <3>3. Extended(result[q], c)'
      BY <1>1, <1>9, <1>10, <2>2 DEF AddedBy, Extended
    <3>4. \A r \in Procs \ {q} : Writing(r)' => Lacks(result[r], c)'
      BY <1>9, <2>2 DEF AddedBy, Lacks
    <3> QED
      BY <3>2, <3>3, <3>4 DEF AddedBy, Lacks
  <2>3. Begun(result[q]) => Begun(result[q])'
    BY <1>1, <1>9, <1>10 DEF Begun
  <2>4. Closed(result[q]) => Closed(result[q])'
    BY <1>1, <1>9, <1>10 DEF Closed
  <2> QED
    BY <1>9, <1>10, <2>1, <2>2, <2>3, <2>4 DEF OutputOK
<1> QED
  BY <1>2, <1>6, <1>7, <1>8, <1>10 DEF IInv, Good

LEMMA HandInInv == ASSUME IInv, NEW f \in Paths, HandIn(f) PROVE IInv'
<1>1. PICK y \in OutsideFiles : file' = [file EXCEPT ![f] = y] /\ seen' = seen \cup {y}
  BY DEF HandIn
<1>2. faults < MaxFaults /\ faults' = faults + 1 /\ UNCHANGED <<pc, op, got, out, result, keys, runs, fresh>>
  BY DEF HandIn, local
<1>3. Good(y) /\ \A c : Lacks(y, c)
  BY OutsideFilesGood, NoSecrets DEF Lacks
<1>4. \A x \in seen' : Good(x)
  BY <1>1, <1>3 DEF IInv
<1>5. Typed'
  <2>1. got' \in [Procs -> Seq(seen')]
    BY <1>1, <1>2, SeqMonotonic DEF IInv, Typed
  <2>2. faults' \in 0..MaxFaults
    BY <1>2, CeremonyAssumption DEF IInv, Typed
  <2> QED
    BY <1>1, <1>2, <2>1, <2>2 DEF IInv, Typed
<1>6. \A q \in Procs : ReadOK(q)'
  BY <1>2 DEF IInv, ReadOK
<1>7. ASSUME NEW q \in Procs, Writing(q)' PROVE out'[q] \in Paths /\ OutputOK(q)'
  <2>1. Writing(q) /\ out[q] \in Paths /\ OutputOK(q)
    BY <1>2, <1>7 DEF IInv, Writing
  <2>2. \A c : AddedBy(q, c) => AddedBy(q, c)'
    BY <1>1, <1>2, <1>3 DEF AddedBy, Extended, Lacks, Writing
  <2>3. (Begun(result[q]) => Begun(result[q])') /\ (Closed(result[q]) => Closed(result[q])')
    BY <1>1, <1>2 DEF Begun, Closed
  <2> QED
    BY <1>2, <2>1, <2>2, <2>3 DEF OutputOK
<1> QED
  BY <1>2, <1>4, <1>5, <1>6, <1>7 DEF IInv, Good

LEMMA NextInv == IInv /\ [Next]_vars => IInv'
<1> SUFFICES ASSUME IInv, [Next]_vars PROVE IInv'
  OBVIOUS
<1>1. CASE UNCHANGED vars
  BY <1>1 DEF IInv, Typed, Good, ReadOK, Writing, OutputOK, Begun, Closed, Extended, AddedBy, Lacks, vars, local
<1>2. CASE Next
  BY <1>2, ReadInv, CreateInv, RefuseInv, WriteInv, FinalizeInv, DieInv, HandInInv DEF Next
<1> QED
  BY <1>1, <1>2

LEMMA InvTypeOK == IInv => TypeOK
<1> SUFFICES ASSUME IInv PROVE TypeOK
  OBVIOUS
<1>1. ASSUME NEW p \in Procs, Writing(p) PROVE out[p] \in Paths /\ result[p].kind \in Contents
  BY <1>1, OutputGood DEF IInv, Good
<1>2. ASSUME NEW p \in Procs PROVE \A i \in 1..Len(got[p]) : got[p][i] \in seen /\ got[p][i].kind = Wanted(op[p], i)
  BY ReadSeen
<1> QED
  BY <1>1, <1>2 DEF IInv, Typed, Good, ReadOK, TypeOK, Writing

\* Whatever the commands do, a name holds something that was once whole or nothing that
\* decodes, and a command works on files of the kinds it asked for (main.go:107-135).
THEOREM TypeCorrect == Spec => []TypeOK
<1>1. Spec => []IInv
  BY InitInv, NextInv, PTL DEF Spec
<1> QED
  BY <1>1, InvTypeOK, PTL

-----------------------------------------------------------------------------
\* The abstract states are built as the ceremony's are.
LEMMA SameStates ==
  /\ \A kind, r : Setup!Initial(kind, r) = Initial(kind, r)
  /\ \A s, c : Setup!Contributed(s, c) = Contributed(s, c)
  /\ \A kind, r, ch, b : Setup!Sealed(kind, r, ch, b) = Sealed(kind, r, ch, b)
  /\ \A k : Setup!LargeEnough(k) <=> LargeEnough(k)
  /\ Setup!OutsideFiles = OutsideFiles
BY DEF Setup!Initial, Setup!State, Initial, State, Setup!Contributed, Contributed, Setup!Sealed,
       Sealed, Setup!LargeEnough, LargeEnough, Setup!OutsideFiles, Setup!OutsideCommons,
       OutsideFiles, OutsideCommons

\* An output that is finished is a step of the transcript.
LEMMA OutputStep ==
  ASSUME IInv, NEW p \in Procs, OutputOK(p), seen' = seen \cup {result[p]}, keys' = keys
  PROVE  Setup!Next
<1>1. ASSUME NEW n \in Powers, result[p] = Initial("phase1", n) PROVE Setup!Next
  <2>1. result[p].kind = "phase1"
    BY <1>1 DEF Initial, State
  <2>2. Setup!Begin1(n)
    BY <1>1, <2>1, SameStates DEF Setup!Begin1
  <2> QED
    BY <2>2 DEF Setup!Next
<1>2. ASSUME NEW k \in seen, k.kind = "commons", LargeEnough(k), result[p] = Initial("phase2", k)
      PROVE  Setup!Next
  <2>1. result[p].kind = "phase2"
    BY <1>2 DEF Initial, State
  <2>2. Setup!Begin2(k)
    BY <1>2, <2>1, SameStates DEF Setup!Begin2
  <2> QED
    BY <1>2, <2>2 DEF Setup!Next
<1>3. ASSUME NEW s \in seen, NEW b \in Beacons, s.kind = "phase1", s.root \in Powers, s.chain # <<>>,
             result[p] = Sealed("commons", s.root, s.chain, b)
      PROVE  Setup!Next
  <2>1. result[p].kind = "commons"
    BY <1>3 DEF Sealed
  <2>2. Setup!Seal(s, b)
    BY <1>3, <2>1, SameStates DEF Setup!Seal
  <2> QED
    BY <1>3, <2>2 DEF Setup!Next
<1>4. ASSUME NEW c \in Contributors, AddedBy(p, c) PROVE Setup!Next
  <2>1. PICK s \in seen : s.kind \in Phases /\ result[p] = Contributed(s, c)
    BY <1>4 DEF AddedBy, Extended
  <2>2. result[p].kind \in Phases
    BY <2>1 DEF Contributed, State
  <2>3. Setup!Contribute(s, c)
    BY <1>4, <2>1, <2>2, SameStates DEF Setup!Contribute, AddedBy, Lacks, Phases
  <2> QED
    BY <2>1, <2>3 DEF Setup!Next, Phases
<1> QED
  BY <1>1, <1>2, <1>3, <1>4 DEF OutputOK, Begun, Closed

LEMMA ImportStep ==
  ASSUME NEW x \in OutsideFiles, seen' = seen \cup {x}, keys' = keys
  PROVE  Setup!Next
<1>1. Setup!Import(x)
  BY SameStates DEF Setup!Import
<1> QED
  BY <1>1, SameStates DEF Setup!Next

\* The keys are made from a contributed state of the phase 2 that was begun from the commons.
LEMMA PublishedOK ==
  ASSUME IInv, NEW p \in Procs, ReadAll(p, "phase2-finalize"),
         NEW x \in Results("phase2-finalize", got[p])
  PROVE  \E s \in seen, b \in Beacons :
           /\ s.kind = "phase2" /\ s.chain # <<>>
           /\ s.root \in seen /\ s.root.kind = "commons"
           /\ x = Sealed("keys", s.root, s.chain, b)
<1> DEFINE g == got[p]
           t == Tail(g)
<1>1. op[p] = "phase2-finalize" /\ Len(g) >= 2
  BY DEF ReadAll, Fewest
<1>2. g \in Seq(seen) /\ Len(g) \in Nat /\ g # <<>>
  BY <1>1, LenProperties, NoSecrets DEF IInv, Typed
<1>3. /\ Len(t) = Len(g) - 1 /\ Len(t) \in Nat /\ Len(t) >= 1
      /\ \A i \in 1..Len(t) : t[i] = g[i + 1]
  BY <1>1, <1>2, HeadTailProperties
<1>4. g[1].kind = "commons" /\ g[1] \in seen
  BY <1>1, <1>2, ReadSeen DEF Wanted, Contribute
<1>5. \A i \in 1..Len(t) : t[i] \in seen /\ t[i].kind = "phase2" /\ Good(t[i])
  <2>1. \A i \in 1..Len(t) : i + 1 \in 1..Len(g) /\ i + 1 # 1
    BY <1>2, <1>3
  <2> QED
    BY <1>1, <1>3, <2>1, ReadSeen DEF Wanted, Contribute
<1>6. PICK b \in Beacons : Verified("phase2", g[1], t) /\ x = Sealed("keys", g[1], g[Len(g)].chain, b)
  BY DEF Results, Contribute
<1>7. g[Len(g)] = t[Len(t)] /\ Len(t) \in 1..Len(t)
  BY <1>2, <1>3
<1>8. t[Len(t)].root = g[1] /\ t[Len(t)].chain # <<>>
  BY <1>3, <1>5, <1>6, LastContributed
<1> DEFINE s == t[Len(t)]
<1>9. /\ s \in seen /\ s.kind = "phase2" /\ s.chain # <<>>
      /\ s.root \in seen /\ s.root.kind = "commons"
      /\ x = Sealed("keys", s.root, s.chain, b)
  BY <1>4, <1>5, <1>6, <1>7, <1>8
<1> QED
  BY <1>9

LEMMA NextStep == IInv /\ [Next]_vars => [Setup!Next]_(Setup!vars)
<1> SUFFICES ASSUME IInv, [Next]_vars PROVE Setup!Next \/ UNCHANGED Setup!vars
  OBVIOUS
<1>1. seen' = seen /\ keys' = keys => UNCHANGED Setup!vars
  BY DEF Setup!vars
<1>2. ASSUME NEW p \in Procs, Write(p) PROVE Setup!Next \/ UNCHANGED Setup!vars
  <2>1. PICK y \in Written(p) : seen' = seen \cup ({y} \ {Torn})
    BY <1>2 DEF Write
  <2>2. keys' = keys /\ OutputOK(p)
    BY <1>2 DEF Write, IInv, Writing
  <2>3. y = Torn \/ y = result[p] \/ y \in OutsideFiles
    BY DEF Written
  <2>4. CASE y = Torn
    BY <1>1, <2>1, <2>2, <2>4
  <2>5. CASE y # Torn
    <3>1. seen' = seen \cup {y}
      BY <2>1, <2>5
    <3> QED
      BY <2>2, <2>3, <2>5, <3>1, OutputStep, ImportStep
  <2> QED
    BY <2>4, <2>5
<1>3. ASSUME NEW p \in Procs, Finalize(p) PROVE Setup!Next
  <2>1. PICK k \in Results("phase2-finalize", got[p]) : keys' = keys \cup {k}
    BY <1>3 DEF Finalize
  <2>2. PICK s \in seen, b \in Beacons :
           /\ s.kind = "phase2" /\ s.chain # <<>>
           /\ s.root \in seen /\ s.root.kind = "commons"
           /\ k = Sealed("keys", s.root, s.chain, b)
    BY <1>3, PublishedOK DEF Finalize
  <2>3. Setup!Publish(s, b)
    BY <1>3, <2>1, <2>2, SameStates DEF Setup!Publish, Finalize
  <2> QED
    BY <2>2, <2>3 DEF Setup!Next
<1>4. ASSUME NEW f \in Paths, HandIn(f) PROVE Setup!Next
  BY <1>4, ImportStep DEF HandIn
<1>5. ASSUME NEW p \in Procs, NEW o \in Ops, NEW f \in Paths, Read(p, o, f) \/ Create(p, o, f)
      PROVE  seen' = seen /\ keys' = keys
  BY <1>5 DEF Read, Create
<1>6. ASSUME NEW p \in Procs, Refuse(p) \/ Die(p) PROVE seen' = seen /\ keys' = keys
  BY <1>6 DEF Refuse, Die
<1>7. CASE UNCHANGED vars
  BY <1>1, <1>7 DEF vars
<1>8. CASE Next
  BY <1>1, <1>2, <1>3, <1>4, <1>5, <1>6, <1>8 DEF Next
<1> QED
  BY <1>7, <1>8

\* The commands and their files implement the transcript that only grows: what is passed on,
\* sealed or published is what TrustedSetup allows, however commands overlap, die, replace
\* each other's files or read what is half written (main.go:147-285).
THEOREM CeremonyImplementsSetup == Spec => ImplementsSetup
<1>1. Init => Setup!Init
  BY DEF Init, Setup!Init
<1>2. Spec => []IInv
  BY InitInv, NextInv, PTL DEF Spec
<1> QED
  BY <1>1, <1>2, NextStep, PTL DEF Spec, ImplementsSetup, Setup!Spec

-----------------------------------------------------------------------------
(***************************************************************************)
(* AsContributed is not inductive as it stands: it has to hold of what is  *)
(* being written as well, since a second command may read what the first   *)
(* one reads while the first has not finished.                             *)
(***************************************************************************)
Past == seen \cup {result[p] : p \in {p \in Procs : Writing(p)}}

\* k has the last secret of s only on top of all of s.
Agree(s, k) ==
  s.kind \in Phases /\ Len(s.chain) > 0 /\ ~Lacks(k, s.chain[Len(s.chain)])
    => /\ k.root = s.root /\ Len(s.chain) <= Len(k.chain)
       /\ \A i \in 1..Len(s.chain) : k.chain[i] = s.chain[i]

AllAgree == \A s \in Past, k \in Past : Agree(s, k)
KeysOfStates == \A k \in keys : \E s \in seen : k.root = s.root /\ k.chain = s.chain

LEMMA PastGood == ASSUME IInv PROVE \A x \in Past : Good(x)
BY OutputGood DEF IInv, Past

LEMMA AgreeWithItself == ASSUME NEW s, Good(s) PROVE Agree(s, s)
<1>1. Len(s.chain) \in Nat
  BY LenProperties DEF Good
<1> QED
  BY <1>1 DEF Agree

\* Whatever has no secrets agrees with everything.
LEMMA EmptyAgrees == ASSUME NEW x, x.chain = <<>> PROVE \A y : Agree(x, y) /\ Agree(y, x)
BY NoSecrets DEF Agree, Lacks

\* A sealed phase 1 agrees with what the state it was made of agrees with.
LEMMA CopyAgrees ==
  ASSUME NEW s, NEW x, x.kind \notin Phases, x.root = s.root, x.chain = s.chain
  PROVE  \A y : Agree(x, y) /\ (Agree(y, s) => Agree(y, x))
BY DEF Agree, Lacks

\* One more secret, found nowhere else.
LEMMA NewAgrees ==
  ASSUME NEW s, Good(s), NEW c \in Contributors, NEW x, x = Contributed(s, c),
         NEW y, Good(y), Lacks(y, c)
  PROVE  Agree(x, y) /\ (Agree(y, s) => Agree(y, x))
<1>1. s.chain \in Seq(Contributors) /\ y.chain \in Seq(Contributors)
  BY DEF Good
<1>2. /\ Len(s.chain) \in Nat /\ Len(y.chain) \in Nat
      /\ x.root = s.root /\ x.chain = Append(s.chain, c) /\ Len(x.chain) = Len(s.chain) + 1
      /\ \A i \in 1..Len(s.chain) : x.chain[i] = s.chain[i]
      /\ x.chain[Len(s.chain) + 1] = c
  BY <1>1, AppendProperties, LenProperties DEF Contributed, State
<1>3. Agree(x, y)
  BY <1>2 DEF Agree
<1>4. ASSUME Agree(y, s), y.kind \in Phases, Len(y.chain) > 0,
             ~Lacks(x, y.chain[Len(y.chain)])
      PROVE  /\ x.root = y.root /\ Len(y.chain) <= Len(x.chain)
             /\ \A i \in 1..Len(y.chain) : x.chain[i] = y.chain[i]
  <2> DEFINE d == y.chain[Len(y.chain)]
  <2>1. d # c
    <3>1. Len(y.chain) \in 1..Len(y.chain)
      BY <1>2, <1>4
    <3> QED
      BY <3>1 DEF Lacks
  <2>2. PICK i \in 1..Len(x.chain) : x.chain[i] = d
    BY <1>4 DEF Lacks
  <2>3. i \in 1..Len(s.chain)
    BY <1>2, <2>1, <2>2
  <2>4. ~Lacks(s, d)
    BY <1>2, <2>2, <2>3 DEF Lacks
  <2> QED
    BY <1>2, <1>4, <2>4 DEF Agree
<1> QED
  BY <1>3, <1>4 DEF Agree

\* One thing more in the past: nothing, something without secrets, a sealed phase 1, or a
\* state with a secret that is nowhere else.
LEMMA MoreAgree ==
  ASSUME IInv, IInv', AllAgree, NEW x, Past' \subseteq Past \cup {x},
         \/ x \in Past \/ x.chain = <<>>
         \/ \E s \in Past : x.kind \notin Phases /\ x.root = s.root /\ x.chain = s.chain
         \/ \E s \in Past, c \in Contributors :
               x = Contributed(s, c) /\ \A y \in Past : Lacks(y, c)
  PROVE  AllAgree'
<1>1. CASE x \in Past
  BY <1>1 DEF AllAgree, Agree, Lacks
<1>2. CASE x.chain = <<>>
  BY <1>2, EmptyAgrees DEF AllAgree, Agree, Lacks
<1>3. ASSUME NEW s \in Past, x.kind \notin Phases, x.root = s.root, x.chain = s.chain PROVE AllAgree'
  <2>1. \A y \in Past \cup {x} : Agree(y, s)
    BY <1>3, CopyAgrees DEF AllAgree
  <2> QED
    BY <1>3, <2>1, CopyAgrees DEF AllAgree, Agree, Lacks
<1>4. ASSUME NEW s \in Past, NEW c \in Contributors, x = Contributed(s, c), \A y \in Past : Lacks(y, c)
      PROVE  AllAgree'
  <2>1. \A y \in Past : Agree(x, y) /\ Agree(y, x)
    BY <1>4, PastGood, NewAgrees DEF AllAgree
  <2>2. Append(s.chain, c) \in Seq(Contributors)
    BY PastGood, AppendProperties DEF Good
  <2>3. Agree(x, x)
    <3>1. x.chain \in Seq(Contributors)
      BY <1>4, <2>2 DEF Contributed, State
    <3>2. Len(x.chain) \in Nat
      BY <3>1, LenProperties
    <3> QED
      BY <3>2 DEF Agree
  <2> QED
    BY <2>1, <2>3 DEF AllAgree, Agree, Lacks
<1> QED
  BY <1>1, <1>2, <1>3, <1>4

LEMMA CreateAgrees ==
  ASSUME IInv, IInv', AllAgree, NEW p \in Procs, NEW o \in Ops, NEW f \in Paths, Create(p, o, f)
  PROVE  AllAgree'
<1>1. PICK x \in Results(o, got[p]) : result' = [result EXCEPT ![p] = x]
  BY DEF Create
<1>2. ReadAll(p, o) /\ o # "phase2-finalize" /\ seen' = seen
  BY DEF Create
<1>3. \A q \in Procs : Writing(q)' => q = p \/ Writing(q)
  BY DEF Create, IInv, Typed, Writing
<1>4. \A q \in Procs : result'[q] = IF q = p THEN x ELSE result[q]
  BY <1>1 DEF IInv, Typed
<1>5. Past' \subseteq Past \cup {x}
  BY <1>2, <1>3, <1>4 DEF Past
<1>6. CASE Begun(x)
  <2>1. x.chain = <<>>
    BY <1>6, UnsealedGood DEF Begun, Phases
  <2> QED
    BY <1>5, <2>1, MoreAgree
<1>7. CASE Closed(x)
  <2>1. PICK s \in seen, b \in Beacons : x = Sealed("commons", s.root, s.chain, b)
    BY <1>7 DEF Closed
  <2>2. x.kind \notin Phases /\ x.root = s.root /\ x.chain = s.chain /\ s \in Past
    BY <2>1 DEF Sealed, Phases, Past
  <2> QED
    BY <1>5, <2>2, MoreAgree
<1>8. ASSUME NEW c \in Contributors, Unused(c), Extended(x, c) PROVE AllAgree'
  <2>1. PICK s \in seen : x = Contributed(s, c)
    BY <1>8 DEF Extended
  <2>2. s \in Past /\ \A y \in Past : Lacks(y, c)
    BY <1>8 DEF Unused, Lacks, Past, Writing
  <2> QED
    BY <1>5, <2>1, <2>2, MoreAgree
<1> QED
  BY <1>1, <1>2, <1>6, <1>7, <1>8, ResultsOK

LEMMA WriteAgrees ==
  ASSUME IInv, IInv', AllAgree, NEW p \in Procs, Write(p)
  PROVE  AllAgree'
<1>1. PICK y \in Written(p) : seen' = seen \cup ({y} \ {Torn})
  BY DEF Write
<1>2. Writing(p) /\ Exit(p)
  BY DEF Write, Writing
<1>3. \A q \in Procs : Writing(q)' => Writing(q) /\ result'[q] = result[q]
  BY <1>2 DEF IInv, Typed, Exit, Writing
<1>4. result[p] \in Past
  BY <1>2 DEF Past
<1>5. CASE y = Torn
  <2>1. Past' \subseteq Past \cup {result[p]}
    BY <1>1, <1>3, <1>5 DEF Past
  <2> QED
    BY <1>4, <2>1, MoreAgree
<1>6. CASE y # Torn
  <2>1. Past' \subseteq Past \cup {y}
    BY <1>1, <1>3 DEF Past
  <2>2. y \in Past \/ y.chain = <<>>
    BY <1>4, <1>6, OutsideFilesGood DEF Written
  <2> QED
    BY <2>1, <2>2, MoreAgree
<1> QED
  BY <1>5, <1>6

LEMMA HandInAgrees ==
  ASSUME IInv, IInv', AllAgree, NEW f \in Paths, HandIn(f)
  PROVE  AllAgree'
<1>1. PICK y \in OutsideFiles : seen' = seen \cup {y}
  BY DEF HandIn
<1>2. UNCHANGED <<pc, result>>
  BY DEF HandIn, local
<1>3. Past' \subseteq Past \cup {y} /\ y.chain = <<>>
  BY <1>1, <1>2, OutsideFilesGood DEF Past, Writing
<1> QED
  BY <1>3, MoreAgree

LEMMA ExitAgrees ==
  ASSUME IInv, AllAgree, seen' = seen,
         \A q \in Procs : Writing(q)' => Writing(q) /\ result'[q] = result[q]
  PROVE  AllAgree'
<1>1. Past' \subseteq Past
  BY DEF Past
<1> QED
  BY <1>1 DEF AllAgree, Agree, Lacks

LEMMA NextAgrees == IInv /\ IInv' /\ AllAgree /\ [Next]_vars => AllAgree'
<1> SUFFICES ASSUME IInv, IInv', AllAgree, [Next]_vars PROVE AllAgree'
  OBVIOUS
<1>1. ASSUME NEW p \in Procs, NEW o \in Ops, NEW f \in Paths, Read(p, o, f) PROVE AllAgree'
  <2>1. seen' = seen /\ \A q \in Procs : Writing(q)' => Writing(q) /\ result'[q] = result[q]
    BY <1>1 DEF Read, Exit, IInv, Typed, Writing
  <2> QED
    BY <2>1, ExitAgrees
<1>2. ASSUME NEW p \in Procs, Refuse(p) \/ Die(p) \/ Finalize(p) PROVE AllAgree'
  <2>1. seen' = seen /\ \A q \in Procs : Writing(q)' => Writing(q) /\ result'[q] = result[q]
    BY <1>2 DEF Refuse, Die, Finalize, Exit, IInv, Typed, Writing
  <2> QED
    BY <2>1, ExitAgrees
<1>3. CASE UNCHANGED vars
  BY <1>3, ExitAgrees DEF vars, local, Writing
<1>4. CASE Next
  BY <1>1, <1>2, <1>4, CreateAgrees, WriteAgrees, HandInAgrees DEF Next
<1> QED
  BY <1>3, <1>4

LEMMA NextKeys == IInv /\ KeysOfStates /\ [Next]_vars => KeysOfStates'
<1> SUFFICES ASSUME IInv, KeysOfStates, [Next]_vars PROVE KeysOfStates'
  OBVIOUS
<1>1. seen \subseteq seen'
  BY DEF Next, Read, Refuse, Create, Write, Finalize, Die, HandIn, vars
<1>2. CASE keys' = keys
  BY <1>1, <1>2 DEF KeysOfStates
<1>3. ASSUME NEW p \in Procs, Finalize(p) PROVE KeysOfStates'
  <2>1. PICK k \in Results("phase2-finalize", got[p]) : keys' = keys \cup {k}
    BY <1>3 DEF Finalize
  <2>2. \E s \in seen : k.root = s.root /\ k.chain = s.chain
    BY <1>3, PublishedOK DEF Finalize, Sealed
  <2> QED
    BY <1>1, <2>1, <2>2 DEF KeysOfStates
<1> QED
  BY <1>2, <1>3 DEF Next, Read, Refuse, Create, Write, Die, HandIn, vars

LEMMA AgreeAsContributed == IInv /\ AllAgree /\ KeysOfStates => AsContributed
<1> SUFFICES ASSUME IInv, AllAgree, KeysOfStates,
                    NEW s \in seen, NEW k \in seen \cup keys,
                    s.kind \in Phases, Len(s.chain) > 0,
                    \E i \in 1..Len(k.chain) : k.chain[i] = s.chain[Len(s.chain)]
             PROVE  k.root = s.root /\ SubSeq(k.chain, 1, Len(s.chain)) = s.chain
  BY DEF AsContributed
<1>1. PICK t \in seen : k.root = t.root /\ k.chain = t.chain
  BY DEF KeysOfStates
<1>2. Agree(s, t)
  BY DEF AllAgree, Past
<1>3. /\ t.root = s.root /\ Len(s.chain) <= Len(t.chain)
      /\ \A i \in 1..Len(s.chain) : t.chain[i] = s.chain[i]
  BY <1>1, <1>2 DEF Agree, Lacks
<1>4. s.chain \in Seq(Contributors) /\ t.chain \in Seq(Contributors)
  BY DEF IInv, Good
<1> DEFINE u == SubSeq(t.chain, 1, Len(s.chain))
<1>5. Len(s.chain) \in Nat /\ Len(t.chain) \in Nat
  BY <1>4, LenProperties
<1>6. /\ u \in Seq(Contributors) /\ Len(u) = Len(s.chain)
      /\ \A i \in 1..Len(s.chain) : u[i] = t.chain[i]
  BY <1>3, <1>4, <1>5, SubSeqProperties
<1>7. u = s.chain
  BY <1>3, <1>4, <1>6, SeqEqual
<1> QED
  BY <1>1, <1>3, <1>7

\* A secret is sealed or published only on top of what its contributor had found, for any
\* number of participants at work at once (main.go:163-177, 190-198, 220-234).
THEOREM SecretsStayAsContributed == Spec => []AsContributed
<1>1. Init => AllAgree /\ KeysOfStates
  BY DEF Init, AllAgree, KeysOfStates, Past, Writing
<1>2. Spec => []IInv
  BY InitInv, NextInv, PTL DEF Spec
<1>3. Spec => [](AllAgree /\ KeysOfStates)
  BY <1>1, <1>2, NextAgrees, NextKeys, PTL DEF Spec
<1> QED
  BY <1>2, <1>3, AgreeAsContributed, PTL

-----------------------------------------------------------------------------
(* The order of a list. *)

LastOf(x) == x.chain[Len(x.chain)]

\* By induction over the list: the i-th file of a verified one has i secrets, the last of
\* each file up to it.
LEMMA VerifiedChains ==
  ASSUME NEW kind, NEW root, NEW g, Len(g) \in Nat,
         \A i \in 1..Len(g) : Good(g[i]), Verified(kind, root, g)
  PROVE  \A i \in 1..Len(g) : /\ Len(g[i].chain) = i
                              /\ \A j \in 1..i : g[i].chain[j] = LastOf(g[j])
<1> DEFINE Holds(i) == Len(g[i].chain) = i /\ \A j \in 1..i : g[i].chain[j] = LastOf(g[j])
           S == {i \in Nat : i \in 1..Len(g) => Holds(i)}
<1>1. 0 \in S
  OBVIOUS
<1>2. ASSUME NEW n \in S PROVE n + 1 \in S
  <2> SUFFICES ASSUME n + 1 \in 1..Len(g) PROVE Holds(n + 1)
    OBVIOUS
  <2>1. n \in Nat /\ (n # 0 => n \in 1..Len(g) /\ Holds(n))
    OBVIOUS
  <2> HIDE DEF S
  <2> DEFINE before == IF n = 0 THEN <<>> ELSE g[n].chain
  <2>2. PICK c \in Contributors : g[n + 1] = State(kind, root, Append(before, c))
    <3>1. (n + 1) - 1 = n /\ (n + 1 = 1 <=> n = 0)
      BY <2>1
    <3> QED
      BY <3>1 DEF Verified
  <2>3. before \in Seq(Contributors) /\ Len(before) = n
    BY <2>1, NoSecrets DEF Good
  <2>4. /\ Len(Append(before, c)) = n + 1
        /\ \A j \in 1..n : Append(before, c)[j] = before[j]
        /\ Append(before, c)[n + 1] = c
    BY <2>3, AppendProperties
  <2>5. g[n + 1].chain = Append(before, c)
    BY <2>2 DEF State
  <2>6. LastOf(g[n + 1]) = c
    BY <2>4, <2>5 DEF LastOf
  <2>7. \A j \in 1..n : before[j] = LastOf(g[j])
    BY <2>1
  <2>8. \A j \in 1..n + 1 : g[n + 1].chain[j] = LastOf(g[j])
    <3>1. \A j \in 1..n + 1 : j \in 1..n \/ j = n + 1
      BY <2>1
    <3> QED
      BY <2>4, <2>5, <2>6, <2>7, <3>1
  <2> QED
    BY <2>4, <2>5, <2>8
<1> HIDE DEF S
<1>3. S = Nat
  <2>1. S \in SUBSET Nat
    BY DEF S
  <2> QED
    BY <1>1, <1>2, <2>1, SetInduction
<1> QED
  BY <1>3 DEF S

\* What a verified list amounts to is the last secret of each of its files, in its order.
LEMMA VerifiedList ==
  ASSUME NEW kind, NEW root, NEW g, Len(g) \in Nat, Len(g) >= 1,
         \A i \in 1..Len(g) : Good(g[i]), Verified(kind, root, g)
  PROVE  g[Len(g)].chain = LastSecrets(g)
<1> DEFINE n == Len(g)
           ch == g[n].chain
<1>1. n \in 1..n /\ n \in Nat
  OBVIOUS
<1>2. ch \in Seq(Contributors) /\ Len(ch) = n /\ \A j \in 1..n : ch[j] = LastOf(g[j])
  BY <1>1, VerifiedChains DEF Good
<1>3. \A j \in 1..n : g[j].chain # <<>>
  BY <1>1, VerifiedChains, NoSecrets
<1>4. \A j \in 1..n : LastSecrets(g)[j] = LastOf(g[j])
  BY <1>1, <1>3 DEF LastSecrets, LastOf
<1>5. ch = [j \in 1..n |-> ch[j]]
  BY <1>2, LenProperties
<1>6. LastSecrets(g) = [j \in 1..n |-> LastSecrets(g)[j]]
  BY <1>1 DEF LastSecrets
<1> QED
  BY <1>2, <1>4, <1>5, <1>6

LEMMA SealedFromList ==
  ASSUME IInv, Next, NEW p \in Procs PROVE SealsTheList(p)
<1> SUFFICES ASSUME op'[p] = "phase1-seal", pc[p] = "reading", pc'[p] \in {"writing", "mixed"}
             PROVE  result'[p].chain = LastSecrets(got[p])
  BY DEF SealsTheList
<1>1. \A q \in Procs : Exit(q) => pc'[p] \in {pc[p], "idle"}
  BY DEF Exit, IInv, Typed
<1>2. PICK q \in Procs, o \in Ops, f \in Paths : Create(q, o, f)
  BY <1>1 DEF Next, Read, Refuse, Write, Finalize, Die, HandIn, local, IInv, Typed
<1>3. q = p
  BY <1>2 DEF Create, IInv, Typed
<1>4. o = "phase1-seal" /\ ReadAll(p, o)
  BY <1>2, <1>3 DEF Create, IInv, Typed
<1> DEFINE g == got[p]
<1>5. PICK x \in Results(o, g) : result' = [result EXCEPT ![p] = x]
  BY <1>2, <1>3 DEF Create
<1>6. PICK n \in Powers, b \in Beacons :
        Verified("phase1", n, g) /\ x = Sealed("commons", n, g[Len(g)].chain, b)
  BY <1>4, <1>5 DEF Results, Contribute
<1>7. Len(g) \in Nat /\ Len(g) >= 1
  BY <1>4, LenProperties DEF ReadAll, Fewest, IInv, Typed
<1>8. g[Len(g)].chain = LastSecrets(g)
  BY <1>6, <1>7, ReadSeen, VerifiedList
<1> QED
  BY <1>5, <1>6, <1>8 DEF Sealed, IInv, Typed

LEMMA PublishedFromList ==
  ASSUME IInv, Next, NEW k \in keys' \ keys PROVE KeysFromList(k)
<1>1. PICK p \in Procs : Finalize(p)
  BY DEF Next, Read, Refuse, Create, Write, Die, HandIn
<1> DEFINE g == got[p]
           t == Tail(g)
<1>2. op[p] = "phase2-finalize" /\ Len(g) >= 2
  BY <1>1 DEF Finalize, ReadAll, Fewest
<1>3. k \in Results("phase2-finalize", g)
  BY <1>1 DEF Finalize
<1>4. PICK b \in Beacons : Verified("phase2", g[1], t) /\ k = Sealed("keys", g[1], g[Len(g)].chain, b)
  BY <1>3 DEF Results, Contribute
<1>5. g \in Seq(seen) /\ Len(g) \in Nat /\ g # <<>>
  BY <1>2, LenProperties, NoSecrets DEF IInv, Typed
<1>6. /\ Len(t) = Len(g) - 1 /\ Len(t) \in Nat /\ Len(t) >= 1
      /\ \A i \in 1..Len(t) : t[i] = g[i + 1]
  BY <1>2, <1>5, HeadTailProperties
<1>7. \A i \in 1..Len(t) : Good(t[i])
  <2>1. \A i \in 1..Len(t) : i + 1 \in 1..Len(g)
    BY <1>5, <1>6
  <2> QED
    BY <1>6, <2>1, ReadSeen
<1>8. t[Len(t)] = g[Len(g)]
  BY <1>5, <1>6
<1>9. t[Len(t)].chain = LastSecrets(t)
  BY <1>4, <1>6, <1>7, VerifiedList
<1> QED
  BY <1>2, <1>4, <1>8, <1>9 DEF KeysFromList, Sealed

\* What is sealed or published is the list that was given, one secret of each file in its
\* order, for lists of any length (main.go:186-198, 252-266).
THEOREM SealedAsListed == Spec => ListIsChain
<1>1. IInv /\ [Next]_vars =>
        [(\A p \in Procs : SealsTheList(p)) /\ (\A k \in keys' \ keys : KeysFromList(k))]_vars
  BY SealedFromList, PublishedFromList
<1>2. Spec => []IInv
  BY InitInv, NextInv, PTL DEF Spec
<1> QED
  BY <1>1, <1>2, PTL DEF Spec, ListIsChain

-----------------------------------------------------------------------------
(***************************************************************************)
(* What every command was given a name of its own for: nothing is ever     *)
(* overwritten, so every state there was is still under some name; and     *)
(* what a contributor found is in the past with all that came before it.   *)
(***************************************************************************)
FileStates == CommonsStates \cup PhaseStates

Kept == seen \subseteq FileStates

\* The first i contributions to x.
Before(x, i) == State(x.kind, x.root, SubSeq(x.chain, 1, i))

Grown == \A x \in seen : x.kind \in Phases => \A i \in 1..Len(x.chain) : Before(x, i) \in seen

OnHand == fresh =>
  /\ \A p \in Procs : Writing(p) => pc[p] = "writing" /\ file[out[p]] = Torn
  /\ \A p, q \in Procs : Writing(p) /\ Writing(q) /\ out[p] = out[q] => p = q
  /\ \A s \in seen : \E f \in Paths : file[f] = s

NInv == IInv /\ Kept /\ Grown /\ OnHand

\* What a step adds to the past: nothing, an output, or a file of another origin.
LEMMA SeenGrows ==
  ASSUME IInv, [Next]_vars
  PROVE  \/ seen' = seen
         \/ \E p \in Procs : OutputOK(p) /\ seen' = seen \cup {result[p]}
         \/ \E x \in OutsideFiles : seen' = seen \cup {x}
<1>1. ASSUME NEW p \in Procs, Write(p)
      PROVE  \/ seen' = seen
             \/ OutputOK(p) /\ seen' = seen \cup {result[p]}
             \/ \E x \in OutsideFiles : seen' = seen \cup {x}
  <2>1. PICK y \in Written(p) : seen' = seen \cup ({y} \ {Torn})
    BY <1>1 DEF Write
  <2>2. OutputOK(p)
    BY <1>1 DEF Write, Writing, IInv
  <2>3. y = Torn \/ y = result[p] \/ y \in OutsideFiles
    BY DEF Written
  <2>4. y = Torn => seen' = seen
    BY <2>1
  <2>5. y # Torn => seen' = seen \cup {y}
    BY <2>1
  <2> QED
    BY <2>2, <2>3, <2>4, <2>5
<1>2. ASSUME NEW f \in Paths, HandIn(f) PROVE \E x \in OutsideFiles : seen' = seen \cup {x}
  BY <1>2 DEF HandIn
<1>3. ASSUME NEW p \in Procs, NEW o \in Ops, NEW f \in Paths, Read(p, o, f) \/ Create(p, o, f)
      PROVE  seen' = seen
  BY <1>3 DEF Read, Create
<1>4. ASSUME NEW p \in Procs, Refuse(p) \/ Die(p) \/ Finalize(p) PROVE seen' = seen
  BY <1>4 DEF Refuse, Die, Finalize
<1>5. CASE UNCHANGED vars
  BY <1>5 DEF vars
<1>6. CASE Next
  BY <1>1, <1>2, <1>3, <1>4, <1>6 DEF Next
<1> QED
  BY <1>5, <1>6

\* A state is known by its kind, beginning and secrets.
LEMMA StateOfParts ==
  ASSUME NEW x \in FileStates, x.kind \in Phases
  PROVE  x = State(x.kind, x.root, x.chain) /\ x \in PhaseStates
BY DEF FileStates, CommonsStates, PhaseStates, Phases, State

LEMMA OutsideFilesKept == OutsideFiles \subseteq FileStates
<1>1. <<>> \in Seq(Contributors)
  BY NoSecrets
<1>2. \A b \in Beacons : Sealed("commons", Outside, <<>>, b) \in CommonsStates
  BY <1>1 DEF Sealed, CommonsStates, Sizes
<1>3. Initial("phase1", Outside) \in PhaseStates
  BY <1>1 DEF Initial, State, PhaseStates, Sizes
<1>4. \A k \in CommonsStates : Initial("phase2", k) \in PhaseStates
  BY <1>1 DEF Initial, State, PhaseStates
<1> QED
  BY <1>2, <1>3, <1>4 DEF OutsideFiles, OutsideCommons, FileStates

LEMMA OutputKept ==
  ASSUME IInv, Kept, NEW p \in Procs, OutputOK(p)
  PROVE  result[p] \in FileStates
<1>1. <<>> \in Seq(Contributors)
  BY NoSecrets
<1>2. CASE Begun(result[p])
  <2>1. ASSUME NEW n \in Powers PROVE Initial("phase1", n) \in PhaseStates
    BY <1>1 DEF Initial, State, PhaseStates, Sizes
  <2>2. ASSUME NEW k \in seen, k.kind = "commons" PROVE Initial("phase2", k) \in PhaseStates
    <3>1. k \in CommonsStates
      BY <2>2 DEF Kept, FileStates, PhaseStates
    <3> QED
      BY <1>1, <3>1 DEF Initial, State, PhaseStates
  <2> QED
    BY <1>2, <2>1, <2>2 DEF Begun, FileStates
<1>3. CASE Closed(result[p])
  <2>1. PICK s \in seen, b \in Beacons :
          s.root \in Powers /\ result[p] = Sealed("commons", s.root, s.chain, b)
    BY <1>3 DEF Closed
  <2>2. s.chain \in Seq(Contributors)
    BY DEF IInv, Good
  <2> QED
    BY <2>1, <2>2 DEF Sealed, CommonsStates, Sizes, FileStates
<1>4. ASSUME NEW c \in Contributors, AddedBy(p, c) PROVE result[p] \in FileStates
  <2>1. PICK s \in seen : s.kind \in Phases /\ result[p] = Contributed(s, c)
    BY <1>4 DEF AddedBy, Extended
  <2>2. s \in PhaseStates
    BY <2>1, StateOfParts DEF Kept
  <2>3. Append(s.chain, c) \in Seq(Contributors)
    BY AppendProperties DEF IInv, Good
  <2> QED
    BY <2>2, <2>1, <2>3 DEF Contributed, State, PhaseStates, FileStates
<1> QED
  BY <1>2, <1>3, <1>4 DEF OutputOK

LEMMA KeptStep == ASSUME IInv, Kept, [Next]_vars PROVE Kept'
BY SeenGrows, OutputKept, OutsideFilesKept DEF Kept

\* An output has all its beginnings in the past, but for itself.
LEMMA OutputGrown ==
  ASSUME IInv, Kept, Grown, NEW p \in Procs, OutputOK(p), result[p].kind \in Phases
  PROVE  \A i \in 1..Len(result[p].chain) : Before(result[p], i) \in seen \cup {result[p]}
<1> DEFINE x == result[p]
<1>1. CASE Begun(x)
  <2>1. x.chain = <<>>
    BY <1>1, UnsealedGood DEF Begun, Phases
  <2> QED
    BY <2>1, NoSecrets
<1>2. CASE Closed(x)
  BY <1>2 DEF Closed, Sealed, Phases
<1>3. ASSUME NEW c \in Contributors, AddedBy(p, c)
      PROVE  \A i \in 1..Len(x.chain) : Before(x, i) \in seen \cup {x}
  <2>1. PICK s \in seen : s.kind \in Phases /\ x = Contributed(s, c)
    BY <1>3 DEF AddedBy, Extended
  <2>2. s.chain \in Seq(Contributors)
    BY DEF IInv, Good
  <2>3. x.kind = s.kind /\ x.root = s.root /\ x.chain = Append(s.chain, c)
    BY <2>1 DEF Contributed, State
  <2>4. /\ x.chain \in Seq(Contributors) /\ Len(s.chain) \in Nat
        /\ Len(x.chain) = Len(s.chain) + 1
        /\ \A i \in 1..Len(s.chain) : x.chain[i] = s.chain[i]
    BY <2>2, <2>3, AppendProperties, LenProperties
  <2>5. ASSUME NEW i \in 1..Len(s.chain) PROVE Before(x, i) \in seen
    <3>1. i \in Int /\ \A j \in 1..i : s.chain[j] \in Contributors /\ x.chain[j] = s.chain[j]
      BY <2>2, <2>4
    <3>2. /\ SubSeq(s.chain, 1, i) \in Seq(Contributors) /\ SubSeq(x.chain, 1, i) \in Seq(Contributors)
          /\ Len(SubSeq(s.chain, 1, i)) = i /\ Len(SubSeq(x.chain, 1, i)) = i
          /\ \A j \in 1..i : SubSeq(s.chain, 1, i)[j] = SubSeq(x.chain, 1, i)[j]
      BY <3>1
    <3>3. SubSeq(x.chain, 1, i) = SubSeq(s.chain, 1, i)
      BY <3>2, SeqEqual
    <3>4. Before(x, i) = Before(s, i)
      BY <2>3, <3>3 DEF Before
    <3> QED
      BY <2>1, <3>4 DEF Grown
  <2>6. Before(x, Len(x.chain)) = x
    <3>1. SubSeq(x.chain, 1, Len(x.chain)) = x.chain
      BY <2>4, SubSeqFull
    <3>2. x = State(x.kind, x.root, x.chain)
      BY OutputKept, StateOfParts
    <3> QED
      BY <3>1, <3>2 DEF Before
  <2>7. \A i \in 1..Len(x.chain) : i \in 1..Len(s.chain) \/ i = Len(x.chain)
    BY <2>4
  <2> QED
    BY <2>5, <2>6, <2>7
<1> QED
  BY <1>1, <1>2, <1>3 DEF OutputOK

LEMMA GrownStep == ASSUME IInv, Kept, Grown, [Next]_vars PROVE Grown'
<1>1. CASE seen' = seen
  BY <1>1 DEF Grown, Before
<1>2. ASSUME NEW p \in Procs, OutputOK(p), seen' = seen \cup {result[p]} PROVE Grown'
  <2>1. result[p].kind \in Phases =>
          \A i \in 1..Len(result[p].chain) : Before(result[p], i) \in seen'
    BY <1>2, OutputGrown
  <2> QED
    BY <1>2, <2>1 DEF Grown, Before
<1>3. ASSUME NEW x \in OutsideFiles, seen' = seen \cup {x} PROVE Grown'
  <2>1. 1..Len(x.chain) = {}
    BY OutsideFilesGood, NoSecrets
  <2> QED
    BY <1>3, <2>1 DEF Grown, Before
<1> QED
  BY <1>1, <1>2, <1>3, SeenGrows

-----------------------------------------------------------------------------
\* Nobody writes to a name that another command writes to, or over one that holds anything.
LEMMA OnHandStep == ASSUME IInv, Kept, OnHand, [Next]_vars PROVE OnHand'
<1> USE CeremonyAssumption DEF IInv, Typed
<1>1. Absent \notin seen /\ Torn \notin seen /\ Absent # Torn
  BY DEF Kept, FileStates
<1>2. ASSUME UNCHANGED <<file, seen, fresh>>,
             \A p \in Procs : Writing(p)' =>
               Writing(p) /\ pc'[p] = pc[p] /\ out'[p] = out[p]
      PROVE  OnHand'
  BY <1>2 DEF OnHand
<1>3. ASSUME NEW p \in Procs, Exit(p)
      PROVE  \A q \in Procs : Writing(q)' =>
               q # p /\ Writing(q) /\ pc'[q] = pc[q] /\ out'[q] = out[q]
  BY <1>3 DEF Exit, Writing
<1>4. ASSUME NEW p \in Procs, NEW o \in Ops, NEW f \in Paths, Read(p, o, f) PROVE OnHand'
  <2>1. CASE Exit(p)
    BY <1>2, <1>3, <1>4, <2>1 DEF Read
  <2>2. CASE ~Exit(p)
    BY <1>2, <1>4, <2>2 DEF Read, Writing
  <2> QED
    BY <2>1, <2>2
<1>5. ASSUME NEW p \in Procs, Refuse(p) \/ Die(p) \/ Finalize(p) PROVE OnHand'
  BY <1>2, <1>3, <1>5 DEF Refuse, Die, Finalize
<1>6. ASSUME NEW p \in Procs, NEW o \in Ops, NEW f \in Paths, Create(p, o, f) PROVE OnHand'
  <2> SUFFICES ASSUME fresh' PROVE OnHand'
    BY DEF OnHand
  <2>1. /\ fresh /\ file[f] = Absent /\ seen' = seen
        /\ file' = [file EXCEPT ![f] = Torn] /\ out' = [out EXCEPT ![p] = f]
        /\ ~Writing(p)
    BY <1>6 DEF Create, ReadAll, Writing
  <2> DEFINE sharing == {q \in Procs : pc[q] \in {"writing", "mixed"} /\ out[q] = f}
  <2>2. sharing = {}
    BY <1>1, <2>1 DEF OnHand, Writing
  <2>3. pc' = [q \in Procs |-> IF q # p THEN pc[q] ELSE "writing"]
    BY <1>6, <2>2 DEF Create
  <2>4. \A q \in Procs \ {p} : Writing(q)' => Writing(q) /\ pc'[q] = pc[q] /\ out'[q] = out[q]
    BY <2>1, <2>3 DEF Writing
  <2>5. \A q \in Procs \ {p} : Writing(q) => out[q] # f /\ out[q] \in Paths
    BY <2>2 DEF Writing
  <2>6. pc'[p] = "writing" /\ out'[p] = f /\ file'[f] = Torn
    BY <2>1, <2>3
  <2>7. \A q \in Procs : Writing(q)' => pc'[q] = "writing" /\ file'[out'[q]] = Torn
    BY <2>1, <2>4, <2>5, <2>6 DEF OnHand
  <2>8. \A q, r \in Procs : Writing(q)' /\ Writing(r)' /\ out'[q] = out'[r] => q = r
    BY <2>1, <2>4, <2>5, <2>6 DEF OnHand
  <2>9. \A s \in seen' : \E h \in Paths : file'[h] = s
    <3> SUFFICES ASSUME NEW s \in seen PROVE \E h \in Paths : file'[h] = s
      BY <2>1
    <3>1. PICK h \in Paths : file[h] = s
      BY <2>1 DEF OnHand
    <3>2. h # f
      BY <1>1, <2>1, <3>1
    <3> QED
      BY <2>1, <3>1, <3>2
  <2> QED
    BY <2>7, <2>8, <2>9 DEF OnHand
<1>7. ASSUME NEW p \in Procs, Write(p) PROVE OnHand'
  <2> SUFFICES ASSUME fresh' PROVE OnHand'
    BY DEF OnHand
  <2>1. Writing(p) /\ Exit(p) /\ fresh /\ out[p] \in Paths
    BY <1>7 DEF Write, Writing
  <2>2. pc[p] = "writing" /\ file[out[p]] = Torn
    BY <2>1 DEF OnHand
  <2>3. file' = [file EXCEPT ![out[p]] = result[p]] /\ seen' = seen \cup ({result[p]} \ {Torn})
    BY <1>7, <2>2 DEF Write, Written
  <2>4. result[p] # Torn
    BY <2>1, OutputKept DEF FileStates
  <2>5. \A q \in Procs : Writing(q)' =>
          q # p /\ Writing(q) /\ pc'[q] = pc[q] /\ out'[q] = out[q] /\ out[q] # out[p]
    BY <1>3, <2>1 DEF OnHand
  <2>6. \A q \in Procs : Writing(q)' => pc'[q] = "writing" /\ file'[out'[q]] = Torn
    BY <2>1, <2>3, <2>5 DEF OnHand
  <2>7. \A q, r \in Procs : Writing(q)' /\ Writing(r)' /\ out'[q] = out'[r] => q = r
    BY <2>1, <2>5 DEF OnHand
  <2>8. ASSUME NEW s \in seen' PROVE \E h \in Paths : file'[h] = s
    <3>1. CASE s = result[p]
      BY <2>1, <2>3, <3>1
    <3>2. CASE s # result[p]
      <4>1. s \in seen
        BY <2>3, <3>2
      <4>2. PICK h \in Paths : file[h] = s
        BY <2>1, <4>1 DEF OnHand
      <4>3. h # out[p]
        BY <1>1, <2>2, <4>1, <4>2
      <4> QED
        BY <2>3, <4>2, <4>3
    <3> QED
      BY <3>1, <3>2
  <2> QED
    BY <2>6, <2>7, <2>8 DEF OnHand
<1>8. ASSUME NEW f \in Paths, HandIn(f) PROVE OnHand'
  <2> SUFFICES ASSUME fresh' PROVE OnHand'
    BY DEF OnHand
  <2>1. PICK x \in OutsideFiles : file' = [file EXCEPT ![f] = x] /\ seen' = seen \cup {x}
    BY <1>8 DEF HandIn
  <2>2. fresh /\ file[f] = Absent /\ UNCHANGED <<pc, out>>
    BY <1>8 DEF HandIn, local
  <2>3. \A q \in Procs : Writing(q)' => Writing(q) /\ out[q] \in Paths /\ out[q] # f
    BY <1>1, <2>2 DEF OnHand, Writing
  <2>4. \A q \in Procs : Writing(q)' => pc'[q] = "writing" /\ file'[out'[q]] = Torn
    BY <2>1, <2>2, <2>3 DEF OnHand
  <2>5. \A q, r \in Procs : Writing(q)' /\ Writing(r)' /\ out'[q] = out'[r] => q = r
    BY <2>2, <2>3 DEF OnHand
  <2>6. ASSUME NEW s \in seen' PROVE \E h \in Paths : file'[h] = s
    <3>1. CASE s = x
      BY <2>1, <3>1
    <3>2. CASE s # x
      <4>1. s \in seen
        BY <2>1, <3>2
      <4>2. PICK h \in Paths : file[h] = s
        BY <2>2, <4>1 DEF OnHand
      <4>3. h # f
        BY <1>1, <2>2, <4>1, <4>2
      <4> QED
        BY <2>1, <4>2, <4>3
    <3> QED
      BY <3>1, <3>2
  <2> QED
    BY <2>4, <2>5, <2>6 DEF OnHand
<1>9. CASE UNCHANGED vars
  BY <1>2, <1>9 DEF vars, local, Writing
<1>10. CASE Next
  BY <1>4, <1>5, <1>6, <1>7, <1>8, <1>10 DEF Next
<1> QED
  BY <1>9, <1>10

\* The files that hold the beginnings of a state, given in order, are verified.
LEMMA OnHandVerified ==
  ASSUME NInv, fresh, NEW s \in seen, s.kind \in Phases, s.chain # <<>>
  PROVE  \E fs \in [1..Len(s.chain) -> Paths] :
           /\ \A i \in DOMAIN fs : file[fs[i]] \in seen
           /\ Verified(s.kind, s.root, [i \in DOMAIN fs |-> file[fs[i]]])
           /\ file[fs[Len(s.chain)]] = s
<1> DEFINE n == Len(s.chain)
           fs == [i \in 1..n |-> CHOOSE f \in Paths : file[f] = Before(s, i)]
           g == [i \in 1..n |-> Before(s, i)]
<1>1. s.chain \in Seq(Contributors) /\ n \in Nat /\ n # 0
  BY EmptySeq, LenProperties DEF NInv, IInv, Good
<1>2. \A i \in 1..n : Before(s, i) \in seen /\ \E f \in Paths : file[f] = Before(s, i)
  BY DEF NInv, Grown, OnHand
<1>3. fs \in [1..n -> Paths] /\ \A i \in 1..n : file[fs[i]] = Before(s, i)
  BY <1>2
<1>4. DOMAIN fs = 1..n /\ [i \in DOMAIN fs |-> file[fs[i]]] = g
  BY <1>3
<1>5. Before(s, n) = s
  <2>1. SubSeq(s.chain, 1, n) = s.chain
    BY <1>1, SubSeqFull
  <2>2. s = State(s.kind, s.root, s.chain)
    BY StateOfParts DEF NInv, Kept
  <2> QED
    BY <2>1, <2>2 DEF Before
<1>6. ASSUME NEW i \in 1..n
      PROVE  g[i] = State(s.kind, s.root, Append(IF i = 1 THEN <<>> ELSE g[i - 1].chain, s.chain[i]))
  <2> DEFINE before == IF i = 1 THEN <<>> ELSE g[i - 1].chain
             now == SubSeq(s.chain, 1, i)
  <2>1. /\ before \in Seq(Contributors) /\ Len(before) = i - 1
        /\ \A j \in 1..i - 1 : before[j] = s.chain[j]
    <3>1. CASE i = 1
      BY <3>1, NoSecrets
    <3>2. CASE i # 1
      <4>1. i - 1 \in 1..n /\ i - 1 \in Nat
        BY <1>1, <3>2
      <4>2. before = SubSeq(s.chain, 1, i - 1)
        BY <3>2, <4>1 DEF Before, State
      <4>3. \A j \in 1..i - 1 : s.chain[j] \in Contributors
        BY <1>1, <4>1
      <4> HIDE DEF before
      <4> QED
        BY <1>1, <4>1, <4>2, <4>3
    <3> QED
      BY <3>1, <3>2
  <2>2. s.chain[i] \in Contributors
    BY <1>1
  <2>3. /\ Append(before, s.chain[i]) \in Seq(Contributors)
        /\ Len(Append(before, s.chain[i])) = i
        /\ \A j \in 1..i - 1 : Append(before, s.chain[i])[j] = s.chain[j]
        /\ Append(before, s.chain[i])[i] = s.chain[i]
    <3> HIDE DEF before
    <3>1. i \in Nat /\ (i - 1) + 1 = i
      OBVIOUS
    <3> QED
      BY <2>1, <2>2, <3>1, AppendProperties
  <2>4. /\ now \in Seq(Contributors) /\ Len(now) = i
        /\ \A j \in 1..i : now[j] = s.chain[j]
    <3>1. \A j \in 1..i : s.chain[j] \in Contributors
      BY <1>1
    <3> QED
      BY <1>1, <3>1
  <2> HIDE DEF before, now
  <2>5. \A j \in 1..i : Append(before, s.chain[i])[j] = now[j]
    BY <2>3, <2>4
  <2>6. now = Append(before, s.chain[i])
    BY <2>3, <2>4, <2>5, SeqEqual
  <2> QED
    BY <2>6 DEF Before, now, before
<1>7. Verified(s.kind, s.root, g)
  <2>1. Len(g) = n
    BY <1>1
  <2>2. \A i \in 1..n : s.chain[i] \in Contributors
    BY <1>1
  <2> HIDE DEF g
  <2> QED
    BY <1>6, <2>1, <2>2 DEF Verified
<1> HIDE DEF g, fs
<1>8. \A i \in DOMAIN fs : file[fs[i]] \in seen
  BY <1>2, <1>3, <1>4
<1>9. Verified(s.kind, s.root, [i \in DOMAIN fs |-> file[fs[i]]])
  BY <1>4, <1>7
<1>10. file[fs[n]] = s
  <2>1. n \in 1..n
    BY <1>1
  <2> HIDE DEF n
  <2> QED
    BY <1>3, <1>5, <2>1
<1> QED
  BY <1>3, <1>8, <1>9, <1>10

\* As long as every command was given a name of its own, everything that was contributed can
\* still be verified from the files on hand (main.go:186-198).
THEOREM NothingStuck == Spec => []NeverStuck
<1>1. Init => NInv
  BY InitInv DEF Init, NInv, Kept, Grown, OnHand, Writing
<1>2. NInv /\ [Next]_vars => NInv'
  BY NextInv, KeptStep, GrownStep, OnHandStep DEF NInv
<1>3. NInv => NeverStuck
  BY OnHandVerified DEF NeverStuck
<1> QED
  BY <1>1, <1>2, <1>3, PTL DEF Spec
=============================================================================
