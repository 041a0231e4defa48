----------------------------- MODULE MCLineEdit -----------------------------
(* Instance of LineEdit: a short buffer and a history of two lines.          *)
EXTENDS LineEdit
=============================================================================
