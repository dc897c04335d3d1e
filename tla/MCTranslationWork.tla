-------------------------- MODULE MCTranslationWork --------------------------
(* Small instances of TranslationWork for TLC.                              *)
EXTENDS TranslationWork

CONSTANTS s1, s2, r1, o1, p1, p2

OneProvider == <<p1>>
TwoProviders == <<p1, p2>>
OneChunk == <<1>>
TwoChunks == <<1, 2>>
=============================================================================
