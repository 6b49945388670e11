------------------------------ MODULE MCChannels ------------------------------
(* V3Channels for TLC: no channel is special.                              *)
EXTENDS V3Channels, TLC

ChannelSymmetry == Permutations(Channels)
=============================================================================
