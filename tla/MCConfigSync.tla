---------------------------- MODULE MCConfigSync -----------------------------
(* One application whose manifest is in the config directory, or in the manifest
   repository, when the program starts. *)
EXTENDS ConfigSync

OnlyIn(source) ==
  [s \in Sources |-> [a \in Apps |-> IF s = source THEN CHOOSE v \in Versions : TRUE
                                     ELSE NoVersion]]
InConfigDir == OnlyIn("dir")
InManifestRepo == OnlyIn("repo")
=============================================================================
