----------------------- MODULE MCGenerationTransport ------------------------
(* Instances of GenerationTransport for TLC: generations are 1 .. n.       *)
EXTENDS GenerationTransport, TLC

=============================================================================
