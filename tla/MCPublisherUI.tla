--------------------------- MODULE MCPublisherUI ---------------------------
(* PublisherUI with two identities, a catalogue that parses and one that   *)
(* does not.                                                               *)
EXTENDS PublisherUI
=============================================================================
