---------------------------- MODULE MCStepCapture ----------------------------
EXTENDS StepCapture, TLC

\* The steps captured: the attention block of a decode step, and lookups.
DecodeStep == <<"kv-write", "attention">>
OneLookup == <<"embedding">>
TwoLookups == <<"embedding", "embedding">>

\* Tensors of one float; of one or two rows; and of two floats in a row too.
OneFloat == {<<1, 1>>}
Columns == {<<1, 1>>, <<2, 1>>}
RowsAndColumns == {<<1, 1>>, <<2, 1>>, <<1, 2>>}

\* A decode step advances both, or the keys of a store others fill.
DecodeAdvances == {Advancing, {"key_count"}}
NoAdvances == {{}}

\* Only identity of ids and of addresses matters to any action.
Symmetry == Permutations(Ids) \cup Permutations(Addrs)
=============================================================================
