----------------------------- MODULE MCOfflineCache ----------------------------
(* OfflineCache with the values the checker enumerates.  Tabs are alike, and so *)
(* are the versions of a file.                                                  *)
EXTENDS OfflineCache

CONSTANTS A, B, p, v1, v2

Alike == Permutations({A, B}) \union Permutations({v1, v2})
================================================================================
