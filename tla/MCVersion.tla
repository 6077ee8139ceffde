------------------------------ MODULE MCVersion ------------------------------
(* An instance of Version for TLC.                                         *)
EXTENDS Version

\* Two values for each number, with what New rejects among the texts.
MCTexts ==
  [numbers  : [1 .. 3 -> {0, 1}] \union {<<1>>, <<1, 1>>, <<1, 1, 1, 1>>,
                                         <<1, NotANumber, 0>>, <<0, 1, NotANumber>>},
   suffixes : {<< >>, <<0>>, <<1>>, <<2>>, <<1, 2>>}]
=============================================================================
