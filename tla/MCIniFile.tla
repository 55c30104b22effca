----------------------------- MODULE MCIniFile -----------------------------
(* IniFile on small instances for TLC. *)
EXTENDS IniFile

\* Files somebody wrote, or that are not there.
MCFiles ==
    LET blank == CommentLine(Blank)  note == CommentLine("c")
        all == SectionLine("all", "")  game == SectionLine("CUSA", "c")
        p0 == KeyLine("p", "0", "")  q1 == KeyLine("q", "1", "c")
    IN {<<>>,
        <<note, all, p0>>,
        <<all, note, p0, q1, blank, game, q1>>,
        <<all, blank, game, q1, note, p0, note>>}
=============================================================================
