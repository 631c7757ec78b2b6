---------------------------- MODULE TrustedSetup ----------------------------
(***************************************************************************)
(* What the ceremony promises, with no files in it: everybody contributes  *)
(* to one public transcript that only grows, phase 1 is sealed and keys    *)
(* are made from states of that transcript, and from nothing else but what *)
(* was knowingly brought in from outside.                                  *)
(***************************************************************************)
EXTENDS SetupStates

VARIABLES
  states,   \* every state of either phase that was ever passed on
  commons,  \* every sealed phase 1
  keys      \* every key pair that was published

vars == <<states, commons, keys>>

Init == states = {} /\ commons = {} /\ keys = {}

Begin1(n) == /\ n \in Powers
             /\ states' = states \cup {Initial("phase1", n)}
             /\ UNCHANGED <<commons, keys>>

Begin2(k) == /\ k \in commons /\ LargeEnough(k)
             /\ states' = states \cup {Initial("phase2", k)}
             /\ UNCHANGED <<commons, keys>>

\* A secret is folded in once, into one state.
Contribute(s, c) == /\ s \in states
                    /\ \A t \in states : \A i \in 1..Len(t.chain) : t.chain[i] # c
                    /\ states' = states \cup {Contributed(s, c)}
                    /\ UNCHANGED <<commons, keys>>

\* Phase 1 is sealed at a state of a proper size that somebody contributed to.
Seal(s, b) == /\ s \in states /\ s.kind = "phase1" /\ s.root \in Powers /\ s.chain # <<>>
              /\ commons' = commons \cup {Sealed("commons", s.root, s.chain, b)}
              /\ UNCHANGED <<states, keys>>

\* Keys are made of a phase 2 that somebody contributed to.
Publish(s, b) == /\ s \in states /\ s.kind = "phase2" /\ s.root \in commons /\ s.chain # <<>>
                 /\ keys' = keys \cup {Sealed("keys", s.root, s.chain, b)}
                 /\ UNCHANGED <<states, commons>>

\* A file of another origin is taken in.
Import(x) == /\ x \in OutsideFiles
             /\ \/ x.kind = "commons" /\ commons' = commons \cup {x} /\ UNCHANGED states
                \/ x.kind # "commons" /\ states' = states \cup {x} /\ UNCHANGED commons
             /\ UNCHANGED keys

Next == \/ \E n \in Powers : Begin1(n)
        \/ \E k \in commons : Begin2(k)
        \/ \E s \in states, c \in Contributors : Contribute(s, c)
        \/ \E s \in states, b \in Beacons : Seal(s, b) \/ Publish(s, b)
        \/ \E x \in OutsideFiles : Import(x)

Spec == Init /\ [][Next]_vars
=============================================================================
