---- MODULE NtripClientMC ----
(* NtripClient with the constants of its configurations. *)
EXTENDS NtripClient
====
