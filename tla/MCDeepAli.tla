------------------------------ MODULE MCDeepAli ------------------------------
(* A small instance of DeepAli for TLC: a selector, a sequence that triples from a public  *)
(* first value, its square, and an accumulated column.                                     *)
EXTENDS DeepAli

MCRegs == <<[group |-> 0, offset |-> 0, combo |-> 2, backs |-> <<0, 1>>],   \* the accumulator
            [group |-> 1, offset |-> 0, combo |-> 1, backs |-> <<0>>],      \* the selector
            [group |-> 2, offset |-> 0, combo |-> 2, backs |-> <<0, 1>>],   \* a
            [group |-> 2, offset |-> 1, combo |-> 1, backs |-> <<0>>]>>     \* a squared
MCComboBegin == <<0, 1, 3>>
MCComboTaps == <<0, 0, 1>>

MCBlock ==
  << <<"Const", 1>>, <<"Const", 2>>, <<"Add", 0, 1>>,                 \* 3
     <<"ConstExt", 0, 1, 0, 0>>, <<"Mul", 3, 3>>, <<"Mul", 4, 4>>,    \* X^4
     <<"True">>,
     <<"Get", 3>>, <<"Get", 4>>, <<"Mul", 2, 7>>, <<"Sub", 6, 8>>, <<"Mul", 9, 5>>,
     <<"AndEqz", 0, 10>>,                                             \* X^4 (a - 3 a') = 0
     <<"Get", 5>>, <<"Mul", 6, 6>>, <<"Sub", 11, 12>>, <<"AndEqz", 1, 13>>,
     <<"Get", 2>>, <<"AndCond", 0, 14, 2>>,                           \* both where the selector is 1
     <<"GetGlobal", 1, 0>>, <<"Mul", 15, 6>>, <<"Get", 0>>, <<"Sub", 17, 16>>, <<"AndEqz", 3, 18>>,
     <<"Sub", 0, 14>>, <<"GetGlobal", 0, 0>>, <<"Sub", 6, 20>>, <<"AndEqz", 0, 21>>,
     <<"AndCond", 4, 19, 5>> >>                                       \* a = the public value elsewhere
\* The last mix register, or, by a slip in the dump, the one before.
MCRets == {5, 6}

MCGlobals == <<7>>
Tripled == <<7, 21, 63, 189>>
Selector == <<0, 1, 1, 1>>
Squares == <<0, 441 % 241, 3969 % 241, 35721 % 241>>
MCTraces == {<< <<0, 0, 0, 0>>, Selector, Tripled, Squares >>,
             << <<0, 0, 0, 0>>, Selector, Tripled, [Squares EXCEPT ![3] = @ + 1] >>,
             << <<0, 0, 0, 0>>, Selector, [Tripled EXCEPT ![1] = 8], Squares >>,
             << <<0, 0, 0, 0>>, Selector, <<8, 24, 72, 216>>, <<0, 576 % 241, 5184 % 241, 46656 % 241>> >>}
MCAccumTraces(m) == LET t == [i \in 1..4 |-> (m * Tripled[i]) % P]
                    IN {t, [t EXCEPT ![4] = (@ + 1) % P]}

\* What is squeezed: from the least that can be to the most.
MCSums == <<17, 241 * 160 - 160, 5003, 31, 240, 241, 12345, 20011, 3, 38000, 777, 9001, 28657,
            40, 32999, 611, 28000>>
=============================================================================
