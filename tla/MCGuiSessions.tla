--------------------------- MODULE MCGuiSessions ---------------------------
(* GuiSessions for TLC.                                                     *)
EXTENDS GuiSessions
============================================================================
