-------------------------- MODULE MCRandomEngines --------------------------
(* RandomEngines for TLC: the format of the floats and the seeds p.        *)
EXTENDS RandomEngines

Format(e, s) == [exp |-> e, sig |-> s]
Random4 == Format(4, 5)
SeedPairs == {<<0, 0>>, <<0, 1>>, <<4660, 22136>>, <<43981, 61185>>, <<65535, 65535>>}
=============================================================================
