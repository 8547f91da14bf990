------------------------------- MODULE MCMenu -------------------------------
(***************************************************************************)
(* A small instance of MenuInput.                                          *)
(***************************************************************************)
EXTENDS MenuInput

(* Every choice, a word, a number with a word behind it, an empty line.    *)
MCLines == {<<c>> : c \in Numbers}
             \cup {<<Word>>, <<1, Word>>, <<2, 2>>, <<>>}
=============================================================================
