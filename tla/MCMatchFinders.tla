--------------------------- MODULE MCMatchFinders ---------------------------
(* Blocks of two pieces each out of a few, so that the same bytes return near *)
(* and far, and configurations that vary one choice at a time.                *)
EXTENDS MatchFinders

Piece1 == <<0, 0, 1, 0, 0, 0, 1>>
Piece2 == <<0, 1, 0, 0, 1, 1, 1>>
Piece3 == <<1, 0, 0, 1, 0, 1, 0>>
MCBlocks == {Piece1 \o Piece2, Piece2 \o Piece1, Piece3 \o Piece1, Piece3 \o Piece2,
             Piece1 \o Piece1, Piece2}
MCContents == {Piece1, Piece1 \o Piece3}
MCReps == {<<1, 4, 8>>, <<5, 12, 1>>}
Config(dicts, hash, step) ==
    [matcher : {"fast", "dfast"}, hash : {hash}, dict : dicts, step_size : {step}]
LazyConfig(dicts, methods, depth) ==
    [matcher : {"lazy"}, hash : {"first"}, dict : dicts, method : methods, depth : {depth}]
\* Prices under which long matches pay, no match pays much, and a sequence without
\* literals is dearer than one with a literal.
Prices(lit, ll, ml, left) ==
    [lit |-> [b \in {0, 1} |-> lit + b], ll |-> [n \in 0 .. 30 |-> ll[IF n > 1 THEN 3 ELSE n + 1] + n],
     off |-> [k \in 0 .. 6 |-> k], ml |-> [n \in 0 .. 30 |-> ml + n \div 4], left |-> left]
Plain == Prices(6, <<0, 0, 1>>, 4, 0)
Cheap == Prices(2, <<1, 1, 1>>, 7, 1000)
Dear == Prices(4, <<9, 2, 6>>, 3, 1000)
OptConfig(dict, level, ultra2, mls, sufficient, ldm, choice, splits) ==
    {[matcher |-> "opt", hash |-> "first", dict |-> dict, level |-> level, ultra2 |-> ultra2,
      mls |-> mls, sufficient |-> sufficient, ldm |-> ldm, prices |-> choice,
      split_after |-> split] : split \in splits}
MCConfigs ==
    Config({"none"}, "first", 1)
        \cup Config({"none", "loaded", "attached"}, "word", 3)
        \cup Config({"loaded", "attached"}, "one", 1)
        \cup Config({"copied", "prefix"}, "first", 1)
        \cup LazyConfig({"none", "loaded", "attached"}, {"HashChain", "BinaryTree"}, 2)
        \cup LazyConfig({"none", "loaded"}, {"RowHash"}, 1)
        \cup LazyConfig({"prefix"}, {"HashChain"}, 1)
        \cup LazyConfig({"none", "attached"}, {"RowHash"}, 0)
        \cup OptConfig("none", 2, TRUE, 4, 9, "none", {Plain}, {{1}})
        \cup OptConfig("none", 2, FALSE, 3, 6, "block", {Dear, Plain}, {{1}})
        \cup OptConfig("none", 0, FALSE, 4, 9, "none", {Cheap}, {{1}})
        \cup OptConfig("loaded", 2, FALSE, 3, 9, "none", {Dear}, {{1}})
        \cup OptConfig("attached", 0, FALSE, 4, 9, "none", {Plain, Dear}, {{1}})
        \cup OptConfig("attached", 2, FALSE, 3, 9, "none", {Cheap, Dear}, {{1}})
        \cup OptConfig("prefix", 2, TRUE, 3, 6, "job", {Plain, Dear}, {{0}, {1}})
=============================================================================
