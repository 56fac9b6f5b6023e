------------------------------- MODULE MCEasyFs --------------------------------
\* EasyFs on a device with a data area of fourteen blocks.
EXTENDS EasyFs, TLC

TwoNames == {1, 2}
Runs == {<<>>, <<1, 2, 3, 4, 5, 6>>, <<6, 7, 8, 9, 1, 2, 3, 4, 5>>}
Symmetry == Permutations(Handles)
=============================================================================
