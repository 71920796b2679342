---------------------------- MODULE MCSdkTracing ----------------------------
EXTENDS SdkTracing, TLC

Names == Permutations(Contexts) \cup Permutations(Traces) \cup Permutations(Spans) \cup Permutations(Strands \ {Root})
=============================================================================
