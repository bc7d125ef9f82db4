-------------------------- MODULE MCSharedSynthesis --------------------------
(* A small instance of the shared syntheses for TLC. *)
EXTENDS SharedSynthesis

CONSTANTS edge, gtts   \* a text for each engine

MCEdgeKeys == {edge}
MCGttsKeys == {gtts}

\* A playback and a prefetch of the edge text, a file of it for the cache, and
\* a playback of the gtts text.
MCRequests ==
    {[key |-> edge, foreground |-> TRUE, store |-> FALSE, at |-> "waiting"],
     [key |-> edge, foreground |-> FALSE, store |-> FALSE, at |-> "waiting"],
     [key |-> edge, foreground |-> FALSE, store |-> TRUE, at |-> "filing"],
     [key |-> gtts, foreground |-> TRUE, store |-> FALSE, at |-> "waiting"]}
=============================================================================
