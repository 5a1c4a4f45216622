-------------------------- MODULE MCStreamFraming --------------------------
(* StreamFraming with bytes of two values: payloads of the shortest and of   *)
(* the longest legal length, an empty one and one that is too long.          *)
EXTENDS StreamFraming, TLC

MCPayloads == {<<>>, <<1>>, <<0, 1>>, <<0, 0, 0>>}
MCSymmetry == Permutations(Streams)
=============================================================================
