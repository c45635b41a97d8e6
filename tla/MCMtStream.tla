------------------------------ MODULE MCMtStream ------------------------------
(* Instances of MtStream for TLC, scaled down: blocks of two bytes, a floor   *)
(* of three, windows of two to eight and a computed section of at least eight.*)
EXTENDS MtStream

\* A level without a dictionary; the sizes of its tables admit any overlap.
Level(wlog, default_overlap, overlap, job) ==
    [window_log |-> wlog, default_overlap_log |-> default_overlap,
     overlap_log |-> overlap, job_size |-> job, max_dict_size |-> 16,
     content_len |-> 0]

WithDictionary(level, len) == [level EXCEPT !.content_len = len]

\* Overlap of a whole window, of half of it, none; explicit and computed
\* sections; an overlap the tables cannot index; a dictionary before a section that
\* fits the window and before sections of two and, computed, four windows; one that
\* is too small.
MCConfigs ==
    {Level(2, 9, 0, 3), Level(2, 9, 8, 3), Level(1, 6, 0, 5), Level(1, 8, 9, 0),
     [Level(2, 9, 0, 3) EXCEPT !.max_dict_size = 2],
     WithDictionary(Level(3, 8, 0, 4), 3), WithDictionary(Level(2, 9, 0, 3), 2),
     WithDictionary(Level(1, 6, 0, 5), 3), WithDictionary(Level(1, 6, 0, 0), 3)}

MCPledges == {None, 3, 5, 6}
=============================================================================
