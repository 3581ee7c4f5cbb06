---------------------------- MODULE MCDownload ----------------------------
(* One download of three blocks, from every disk an earlier run can leave, of *)
(* partials up to two blocks too long too.                                    *)
EXTENDS Download
=============================================================================
