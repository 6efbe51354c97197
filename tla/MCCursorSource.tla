--------------------------- MODULE MCCursorSource ---------------------------
(* Instances of CursorSource for TLC.                                        *)
EXTENDS CursorSource

CONSTANTS i1, i2    \* merge keys

Mode(reader, filter, placeholder, tracked, json, write) ==
    [reader |-> reader, filter |-> filter, placeholder |-> placeholder,
     tracked |-> tracked, json |-> json, write |-> write]

MCModes == {
    Mode("table", "above", FALSE, TRUE, TRUE, "append"),
    Mode("table", "above", FALSE, TRUE, FALSE, "merge"),
    Mode("table", "above", FALSE, FALSE, TRUE, "merge"),
    Mode("file", "above", TRUE, TRUE, TRUE, "merge"),
    Mode("file", "from", TRUE, TRUE, TRUE, "append"),
    Mode("file", "free", FALSE, TRUE, TRUE, "merge"),
    Mode("cache_file", "from", TRUE, TRUE, TRUE, "merge"),
    Mode("cache_file", "free", TRUE, TRUE, TRUE, "merge")}
=============================================================================
