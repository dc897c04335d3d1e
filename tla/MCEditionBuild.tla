--------------------------- MODULE MCEditionBuild ---------------------------
(* Small instances of EditionBuild for TLC.                                *)
EXTENDS EditionBuild

CONSTANTS a1, a2

OneArticle == <<a1>>
TwoArticles == <<a1, a2>>
=============================================================================
