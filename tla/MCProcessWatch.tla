--------------------------- MODULE MCProcessWatch ---------------------------
(* Two numbers and two processes.  The list has a pattern that may sit at   *)
(* the end of a section and one longer than the shortest section; or a line   *)
(* of a comment only; or is an error page.  Values above a byte are cut.      *)
EXTENDS ProcessWatch

MCAnswers == {<< <<3, 1, Comment>>, <<1, 0, 1>> >>,
              << <<Comment, Junk>>, <<0, 0>> >>,
              << <<4, Junk>> >>}
MCTexts == {<<>>, <<1>>, <<0, 1, 1>>, <<1, 0, 1>>, <<0, 0, 1>>}
=============================================================================
