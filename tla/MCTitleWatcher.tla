--------------------------- MODULE MCTitleWatcher ---------------------------
(* The title watcher over the transcripts of one or two sessions.          *)
EXTENDS TitleWatcher
=============================================================================
