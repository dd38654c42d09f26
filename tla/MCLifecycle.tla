---------------------------- MODULE MCLifecycle ----------------------------
(***************************************************************************)
(* Names for the life of the server process: two plain ones, and three     *)
(* that hold separators.  Read back, the first of those spells the name    *)
(* <<a>>, the second both plain names, the third the user ID of <<a>>.     *)
(***************************************************************************)
EXTENDS ServerLifecycle

CONSTANTS a, b, c, p, h

MCChar == {a, b, c, p, h, Bar, Newline, Mark, Time}

MCName == {<<a>>, <<b>>, <<a, Bar, b>>, <<b, Newline, a>>, <<c, Bar, c, Bar, Mark, a, p>>}

=============================================================================
