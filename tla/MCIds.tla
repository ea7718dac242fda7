------------------------------- MODULE MCIds ---------------------------------
(* The instances of SMARTids that TLC checks.                              *)
EXTENDS SMARTids

(* Lists of all kinds: none, only 0, ascending, with 0, repeated or        *)
(* unsorted IDs, with text that is no number; without a comma after the    *)
(* last for some.                                                          *)
MCItems ==
  {<< >>, <<0>>, <<1>>, <<3>>, <<1, 2>>, <<2, 3>>, <<1, 2, 3>>, <<1, 0, 3>>, <<2, 2, 3>>, <<3, 1>>,
   <<1, NotANumber, 3>>}
MCTexts ==
  [items : MCItems, comma : {TRUE}] \cup [items : {<<3>>, <<1, NotANumber, 3>>}, comma : {FALSE}]

(* All orders of all choices of attributes.                                *)
MCTables == {s \in UNION {[1..n -> 1..N - 1] : n \in 1..N - 1} :
              \A i, j \in DOMAIN s : i # j => s[i] # s[j]}
MCCounts == {0, 2, N}

(* Nothing, or IDs of another list that was there before.                  *)
MCTails == {<< >>, <<1, 3>>}
=============================================================================
