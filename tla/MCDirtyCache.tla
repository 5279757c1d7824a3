---------------------------- MODULE MCDirtyCache ----------------------------
(* The third response has the URL of the first.                            *)
EXTENDS DirtyCache
CONSTANTS url1, url2
MCName == <<url1, url2, url1>>
=============================================================================
