------------------------------ MODULE MCPrompt -------------------------------
(* A narrow terminal, one letter, one file.                              *)
EXTENDS Prompt

MCFiles   == {<<"a", "a">>}
MCUnended == {<< >>, <<"a">>}
=============================================================================
