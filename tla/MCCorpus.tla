----------------------------- MODULE MCCorpus ------------------------------
(***************************************************************************)
(* Model checking of the corpus generator on a short table: an empty       *)
(* fixture and two datasets to be grown, of which the last has paragraphs  *)
(* that differ in length and in plane.                                     *)
(***************************************************************************)
EXTENDS Corpus

MCTable ==
    <<[name |-> "empty", exact |-> TRUE, paragraphs |-> <<<<>>>>],
      [name |-> "plain", exact |-> FALSE, paragraphs |-> <<<<"bmp">>>>],
      [name |-> "mixed", exact |-> FALSE,
       paragraphs |-> <<<<"supp", "bmp">>, <<"supp">>>>]>>
MCSorted == <<"empty", "mixed", "plain">>

SeedSymmetry == Permutations(Seeds)
=============================================================================
