---- MODULE MCBullyElection ----
(* Three leaders, the highest of which is First: both backups wait for it. *)
EXTENDS BullyElection
====
