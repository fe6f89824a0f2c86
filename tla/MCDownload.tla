----------------------------- MODULE MCDownload -----------------------------
(* Two pieces, two seeders and two workers; one crash or retry. *)
EXTENDS Download
=============================================================================
