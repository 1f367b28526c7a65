---------------------------- MODULE MCServerSync -----------------------------
(* TLC instances of ServerSync.                                              *)
EXTENDS ServerSync

AllPlugins == {"pod", "cloud", "none"}
PodOnly    == {"pod"}
AllCreds   == {"ready", "absent", "invalid"}
ReadyCreds == {"ready"}
=============================================================================
