----------------------------- MODULE MCDecode ------------------------------
(* A prompt and the boot probe; the pieces the grammar names and one       *)
(* other; four tokens to an answer, enough for each forcing rule and for a *)
(* second comma.                                                           *)
EXTENDS Decode

CONSTANTS weather, word

MCPrompts == {weather, Probe}
MCVocab == {EOS, Open, Name, Colon, Comma, Args, word}
=============================================================================
