---------------------------- MODULE MCGuildSpeech ----------------------------
(* A small instance of a guild's speech for TLC. *)
EXTENDS GuildSpeech

CONSTANTS a, b, c   \* three texts

\* Messages of one part, and one of two parts that shares its first text with one
\* of them and fills the queue.
MCGroups == {<<a>>, <<c>>, <<a, b>>}
MCTexts == {a, b, c}
=============================================================================
