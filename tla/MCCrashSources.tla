--------------------------- MODULE MCCrashSources ---------------------------
(* Two files and three GUIDs, the zero one among them, over three sources: *)
(* enough for a file to own a source, adopt a second and read either, and  *)
(* for two sources to bear one GUID.                                       *)
EXTENDS CrashSources, TLC

SourcesSymmetry == Permutations(File) \cup Permutations(Guid \ {ZeroGuid})
=============================================================================
