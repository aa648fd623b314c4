------------------------------ MODULE MCSessions ------------------------------
(* Values for the constants of Sessions in TLC's runs.                       *)
EXTENDS Sessions, TLC

CONSTANTS c1, c2, gift, like

OneClient  == {c1}
TwoClients == {c1, c2}
TwoTypes   == {gift, like}

(* Everything (None), or gifts only.                                         *)
AllOrGifts == {TwoTypes, {gift}}

Interchangeable == Permutations(TwoClients)
=============================================================================
