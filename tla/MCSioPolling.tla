---------------------------- MODULE MCSioPolling ----------------------------
(* Small instances of SioPolling for TLC: the query strings a user may    *)
(* give ClientPolling::new.                                                *)
EXTENDS SioPolling

(* No query, and one naming another transport's parameter. *)
MCPlainQueries == {{}, {<<"EIO", "4">>}}

=============================================================================
