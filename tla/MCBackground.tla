---------------------------- MODULE MCBackground ----------------------------
(***************************************************************************)
(* The dumps and exports TLC checks Background on.                         *)
(***************************************************************************)
EXTENDS Background

CONSTANTS t1, t2, w1, w2, w3, m1, m2, v1, v2, wiktionary, extract, entry, bank, us

\* A dump that changes, with a repeated article and lines that yield none, and
\* another source whose second version is empty.
ChangingDumps ==
    [s \in {wiktionary, extract} |->
        IF s = wiktionary
        THEN << <<entry, bank, entry>>, <<NoEntry, NoEntry, bank, entry>> >>
        ELSE << <<entry, us>>, <<NoEntry>> >>]

\* Exports that lose pairs and sentences; the last has no pair at all.
LosingExports ==
    << [pairs |-> {<<1, 11>>, <<1, 12>>, <<2, 12>>}, ru |-> <<12, 13, 11>>, en |-> <<2, 1, 3>>],
       [pairs |-> {<<1, 11>>, <<1, 12>>, <<2, 13>>, <<3, 12>>}, ru |-> <<13, 12>>, en |-> <<1, 2>>],
       [pairs |-> {<<1, 11>>}, ru |-> <<12>>, en |-> <<1>>] >>

=============================================================================
