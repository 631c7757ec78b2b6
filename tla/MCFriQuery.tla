----------------------------- MODULE MCFriQuery -----------------------------
(* FriQuery with three rounds, scaled down: 2^7 positions, folded by 4.  To  *)
(* any index a prover opens any row of the tree, or the row at the index     *)
(* with one digest replaced: by none of the tree's, its sibling or its       *)
(* parent.                                                                   *)
EXTENDS FriQuery

MCGroupBits == <<5, 3, 1>>
MCFriPath == <<4, 2, 0>>

Sibling(v) == IF v % 2 = 0 THEN v + 1 ELSE v - 1
Others(v) == {0, Sibling(v), v \div 2}

Spoilt(o) ==
  {[o EXCEPT !.leaf = v] : v \in Others(o.leaf)}
    \cup UNION {{[o EXCEPT !.path[k] = v] : v \in Others(o.path[k])} : k \in DOMAIN o.path}

OfferTable ==
  [t \in Trees |->
     LET own == {Honest(t, j) : j \in Indices(t)}
     IN [i \in Indices(t) |-> own \cup Spoilt(Honest(t, i))]]

MCOffers(t, i) == OfferTable[t][i]
=============================================================================
