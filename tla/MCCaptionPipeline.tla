--------------------------- MODULE MCCaptionPipeline ---------------------------
(* Recordings with a repeated word, words that the edges of a window cut, and every *)
(* way a recording may end: before, in and after the context of a window.           *)
EXTENDS CaptionPipeline

Word(text, start, end, stop) == [text |-> text, start |-> start, end |-> end, stop |-> stop]

Phrase == <<Word("once", 0, 2, FALSE), Word("again", 3, 5, TRUE), Word("again", 5, 7, FALSE),
            Word("and", 7, 9, FALSE), Word("again", 10, 12, TRUE), Word("end", 12, 14, FALSE),
            Word("end", 15, 17, TRUE), Word("once", 17, 19, FALSE)>>

Until(length) == [length |-> length, words |-> SelectSeq(Phrase, LAMBDA w : w.end <= length)]

MCRecordings == {Until(n) : n \in {0, 5, 8, 14, 15, 20}}
================================================================================
