---------------------------- MODULE MC_EcSchemes ----------------------------
(***************************************************************************)
(* Keys, signatures and shared secrets on small curves: K11's order takes  *)
(* a chunk more than its field, H13 and H7 have a cofactor.                *)
(***************************************************************************)
EXTENDS EcSchemes

K13 == [p |-> 19, a |-> 0, b |-> 2, g |-> <<4, 3>>, n |-> 13, h |-> 1]
K11 == [p |-> 7, a |-> 1, b |-> 6, g |-> <<1, 1>>, n |-> 11, h |-> 1]
H13 == [p |-> 23, a |-> 1, b |-> 18, g |-> <<0, 8>>, n |-> 13, h |-> 2]
H7  == [p |-> 23, a |-> 1, b |-> 1, g |-> <<5, 4>>, n |-> 7, h |-> 4]

MCKeyCurves    == {K13, K11}
MCSecretCurves == {H13, H7, K13}

\* One of them, where one kind of wrong answer is met and not the others.
MCOnlyK13 == {K13}
MCOnlyK11 == {K11}

MCSchemeCurves == MCKeyCurves \union MCSecretCurves
=============================================================================
