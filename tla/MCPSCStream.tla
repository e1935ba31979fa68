---------------------------- MODULE MCPSCStream ----------------------------
(* Instances of PSCStream for TLC.  A header has two bytes and the read    *)
(* buffer three, so that a header or a body can arrive in pieces and a body*)
(* can be longer than the buffer's usual limit.                            *)
EXTENDS PSCStream

MCBlocks == {1, 2}

\* Registered and unregistered IDs, bodies that fit the buffer and one that
\* does not, an empty body, and something that is not a message.
MCMsg == {[id |-> 1, len |-> 1, magic |-> TRUE],
          [id |-> 2, len |-> 5, magic |-> TRUE],
          [id |-> 1, len |-> 0, magic |-> TRUE],
          [id |-> 9, len |-> 2, magic |-> TRUE],
          [id |-> 9, len |-> 0, magic |-> FALSE]}
=============================================================================
