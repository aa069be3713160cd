------------------------------ MODULE MCEditor -------------------------------
(* The editor on a buffer of five characters, with a clipboard of two.       *)
(* With /lua and then /spiele as working directory, two files are "a".       *)
EXTENDS Editor

MCPrintable == {"x"}
MCNames     == {"/lua/a", "/lua/b", "/spiele/a"}
MCRelName   == [f \in MCNames |-> IF f = "/lua/b" THEN "b" ELSE "a"]
MCFileTexts == {<<"x">>, <<"nl", "nl", "x">>}
MCNeedles   == {<<"x">>}

\* Long sessions on one file, and short ones on several files between which
\* error messages of three lines arrive.
MCPlans == {[files |-> {"/lua/a"}, block |-> TRUE, lines |-> 1, stray |-> 2],
            [files |-> {"/lua/a", "/lua/b"}, block |-> FALSE, lines |-> 3, stray |-> 0],
            [files |-> {"/lua/a", "/spiele/a"}, block |-> FALSE, lines |-> 1, stray |-> 0]}

\* Between sessions the buffer, the name of the last file and the history
\* variable are dead: the next session overwrites them before it reads them.
MCView == IF status = "closed"
          THEN <<plan, sd, status, editorClipboard, memoryVars>>
          ELSE <<plan, sd, sessionVars, textVars, editorClipboard, memoryVars, strayed>>
=============================================================================
