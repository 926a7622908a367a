---------------------------- MODULE MCSourceLoad ----------------------------
(* An instance of SourceLoad for TLC: archives of up to three members, sound or with *)
(* one thing wrong, written by a producer whose encoding is Encode. *)
EXTENDS SourceLoad

Part(f, s) == [fold |-> f, form |-> s]
a == Part("a", "lower")  aa == Part("a", "upper")
b == Part("b", "lower")  c == Part("c", "lower")
empty == Part("empty", "lower")  up == Part("up", "lower")  con == Part("con", "upper")

Data(x, y) == [header |-> FALSE, whole |-> TRUE, bytes |-> <<x, y>>]
Zero == Data("zero", "zero")
Cut(block) == [block EXCEPT !.whole = FALSE]

Content(size) == SubSeq(<<"x", "y", "z">>, 1, size)

\* A member: what is meant, its header and its data blocks.
Encoded(name, kind, size, prefix, spelling, sound, pad) ==
    [name |-> name, kind |-> kind, content |-> Content(size),
     blocks |->
        <<[header |-> TRUE, whole |-> TRUE, sound |-> sound, prefix |-> prefix, name |-> spelling,
           kind |-> kind, size |-> size]>>
        \o (CASE size = 0 -> <<>>
              [] size = 1 -> <<Data("x", pad)>>
              [] size = 2 -> <<Data("x", "y")>>
              [] size = 3 -> <<Data("x", "y"), Data("z", pad)>>)]

Plain(name, kind, size) == Encoded(name, kind, size, <<>>, name, TRUE, "zero")

CoreMembers ==
    {Plain(n, "file", s) : n \in {<<a>>, <<a, b>>, <<aa, c>>}, s \in {0, 1}}
    \cup {Plain(<<a>>, "dir", 0)}

AllMembers ==
    CoreMembers
    \cup {Plain(n, "file", s) : n \in {<<b>>, <<aa, b>>, <<a, c>>}, s \in {1, 2, 3}}
    \cup {Plain(n, "dir", 0) : n \in {<<aa>>, <<b>>, <<a, b>>, <<aa, b>>}}
    \cup { Plain(<<b>>, "other", 0), Plain(<<up, b>>, "file", 1), Plain(<<con>>, "dir", 0),
           Plain(<<a, b, c>>, "file", 0), Plain(<<a, b, c, c>>, "dir", 0),
           Plain(<<b, empty>>, "file", 0),
           Encoded(<<b, c>>, "file", 2, <<b>>, <<c>>, TRUE, "zero"),
           Encoded(<<c>>, "dir", 0, <<>>, <<c, empty>>, TRUE, "zero"),
           Encoded(<<c>>, "file", 1, <<>>, <<c>>, FALSE, "zero"),
           Encoded(<<c>>, "file", 1, <<>>, <<c>>, TRUE, "y"),
           Plain(<<c>>, "dir", 1) }

Meaning(m) == [name |-> m.name, kind |-> m.kind, content |-> m.content]

Archive(ms, tail) ==
    LET upto(i) == FoldLeft(LAMBDA bs, m : bs \o m.blocks, <<>>, SubSeq(ms, 1, i))
    IN  [members |-> [i \in DOMAIN ms |-> Meaning(ms[i])],
         blocks |-> upto(Len(ms)) \o tail,
         starts |-> [i \in 1..(Len(ms) + 1) |-> Len(upto(i - 1)) + 1]]

\* Cut off before or within the last block, of a header or of data.
CutOff(ms) == [Archive(ms, <<>>) EXCEPT !.blocks = Front(@)]
CutWithin(ms) == [Archive(ms, <<>>) EXCEPT !.blocks = Front(@) \o <<Cut(Last(@))>>]

Tails == {<<Zero, Zero>>, <<Zero, Zero, Zero>>, <<>>, <<Zero>>, <<Zero, Data("x", "zero")>>,
          <<Zero, Zero, Data("zero", "x")>>, <<Cut(Zero)>>, <<Zero, Cut(Zero)>>,
          <<Zero, Zero, Cut(Zero)>>, <<Zero, Zero, Cut(Data("x", "zero"))>>}

MCArchives ==
    {Archive(ms, <<Zero, Zero>>) :
        ms \in {<<>>} \cup [1..1 -> AllMembers] \cup [1..2 -> AllMembers] \cup [1..3 -> CoreMembers]}
    \cup {Archive(ms, t) : ms \in [1..1 -> AllMembers], t \in Tails}
    \cup {CutOff(ms) : ms \in [1..1 -> {m \in AllMembers : m.content # <<>>}]}
    \cup {CutWithin(ms) : ms \in [1..1 -> AllMembers]}
    \cup {Archive(<<Plain(<<b>>, "file", 3), Plain(<<c>>, "file", 1)>>, <<Zero, Zero, Zero>>)}
    \cup {Archive([i \in 1..4 |-> Plain(n, "file", 0)], <<Zero, Zero>>) : n \in {<<a>>, <<b>>}}

MCOther == Archive(<<Plain(<<b>>, "file", 1)>>, <<Zero, Zero>>).blocks

MCForeign == {<<a>>, <<b>>, <<a, b>>}
=============================================================================
