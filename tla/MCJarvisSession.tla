--------------------------- MODULE MCJarvisSession ---------------------------
(* Small instances of JarvisSession. *)
EXTENDS JarvisSession, TLC

=============================================================================
