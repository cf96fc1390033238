------------------------ MODULE MCFullDataComparison ------------------------
(* Instances of FullDataComparison for TLC.                                 *)
EXTENDS FullDataComparison

CONSTANTS x1, X1, y1, c1, c2

Million   == 1000000
TwoTexts  == {x1, X1, y1}
TwoColumns == {c1, c2}
AllKeys == {x1, X1, y1, 2, NULL}
Eight == 8

\* X1 is x1 once folded.
FoldCase == [t \in TwoTexts |-> IF t = X1 THEN x1 ELSE t]

FramesOf(kinds, cells, keys, n) ==
  UNION {{[kind |-> kind, rows |-> rows] :
            rows \in UNION {[1 .. m -> [key : keys, cell : [DOMAIN kind -> cells]]] :
                            m \in 0 .. n}} : kind \in kinds}

Settings(folds, drops, nulls, tolerances, asked, chunks) ==
  [fold : folds, dropDuplicates : drops, nullsEqual : nulls,
   tolerance : tolerances, columns : asked, chunk : chunks]

ObjectOnly == [c \in {c1} |-> "object"]
IntOnly == [c \in {c1} |-> "int"]
FloatOnly == [c \in {c1} |-> "float"]

Calls(sources, targets, configs) ==
  [source : sources, target : targets, config : configs]

\* Texts and NULLs: two rows on each side, every option.
TextFrames  == FramesOf({ObjectOnly}, {x1, X1, NULL}, {x1, X1}, 2)
TextConfigs == Settings(BOOLEAN, BOOLEAN, BOOLEAN, {0}, {NULL}, {1})
TextCalls   == Calls(TextFrames, TextFrames, TextConfigs)

\* Numbers on both sides of those that doubles can hold: 9 becomes 8, 11 and
\* 13 become 12.
AllNumbers == 2 .. 4 \cup {8, 9, 11, 12, 13}

\* Numbers that doubles can hold, at tolerance zero.
SmallNumbers == 2 .. 4
IntFrames    == FramesOf({IntOnly}, SmallNumbers, {x1, y1, NULL}, 2)
FloatFrames  == FramesOf({FloatOnly}, SmallNumbers \cup {NULL}, {x1, NULL}, 1)
NumberFrames == IntFrames \cup FloatFrames
ExactConfigs == Settings({FALSE}, {TRUE}, {TRUE}, {0}, {NULL}, {1})
ExactCalls   == Calls(NumberFrames, NumberFrames, ExactConfigs)

\* A tolerance, against a column of doubles.
TolerantConfigs == Settings({FALSE}, {TRUE}, BOOLEAN, {0, 1, 2}, {NULL}, {1})
TolerantCalls   == Calls(NumberFrames, FloatFrames, TolerantConfigs)

\* Three rows of two columns against every target of up to three rows, some
\* without the second column; chunks of nothing, one and two rows.
TwoInts == [c \in TwoColumns |-> "int"]
ThreeRows ==
  {[kind |-> TwoInts,
    rows |-> <<[key |-> x1, cell |-> [c \in TwoColumns |-> 2]],
               [key |-> X1, cell |-> [c \in TwoColumns |-> 2]],
               [key |-> y1, cell |-> [c \in TwoColumns |-> 2]]>>]}
OtherRows == FramesOf({TwoInts, IntOnly}, {2, 3}, {x1, X1, y1}, 3)
ChunkConfigs ==
  Settings({FALSE}, {TRUE}, {TRUE}, {0}, {NULL, TwoColumns}, {0, 1, 2})
ChunkCalls == Calls(ThreeRows, OtherRows, ChunkConfigs)

\* Numbers that doubles cannot all hold: whole, as doubles, as objects.
LargeFrames ==
  FramesOf({IntOnly}, {8, 9, 11, 12, 13}, {x1, y1}, 1)
    \cup FramesOf({IntOnly}, {9, 11, 12}, {x1, y1}, 2)
    \cup FramesOf({FloatOnly}, {8, 12, NULL}, {x1, y1}, 1)
    \cup FramesOf({ObjectOnly}, {x1, 8, 9, 12}, {x1}, 1)
LargeCalls == Calls(LargeFrames, LargeFrames, ExactConfigs)

\* Object columns with strings and numbers in them.
MixedFrames  == FramesOf({ObjectOnly}, {x1, 2, 3}, {x1, y1}, 2)
MixedConfigs == Settings({TRUE}, {FALSE}, {TRUE}, {0}, {NULL}, {1})
MixedCalls   == Calls(MixedFrames, MixedFrames, MixedConfigs)

\* Keys with numbers among them.
MixedKeys      == FramesOf({ObjectOnly}, {x1, X1, 2, NULL}, {x1, X1, 2, NULL}, 1)
                    \cup FramesOf({ObjectOnly}, {x1, 2}, {x1, 2}, 2)
MixedKeyConfigs == Settings({TRUE}, {TRUE}, BOOLEAN, {0}, {NULL}, {1})
MixedKeyCalls  == Calls(MixedKeys, MixedKeys, MixedKeyConfigs)

AllCalls ==
  TextCalls \cup ExactCalls \cup TolerantCalls \cup ChunkCalls \cup LargeCalls
    \cup MixedCalls \cup MixedKeyCalls
=============================================================================
