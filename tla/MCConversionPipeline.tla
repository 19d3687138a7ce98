------------------------ MODULE MCConversionPipeline ------------------------
(***************************************************************************)
(* ConversionPipeline with every image of a few sizes on an undisturbed    *)
(* way, and two of them under copies of the request and faults.            *)
(***************************************************************************)
EXTENDS ConversionPipeline

\* Sizes around an input of 20: a tenth saved, too little, none, and more.
Picture ==
    [format |-> "png", size |-> 20, pages |-> 1, pixels |-> 4, turned |-> FALSE, tagged |-> FALSE,
     hidden |-> FALSE, stripped |-> FALSE, sound |-> TRUE, features |-> FALSE,
     isPalette |-> FALSE, fewColours |-> FALSE, indexed |-> "larger",
     lossySize |-> 18, strippedSize |-> 19]

Sized(p) ==
    {[p EXCEPT !.lossySize = l, !.strippedSize = s] : l \in {18, 19, 21}, s \in {17, 19, 21}}

\* Orientation is a tag; what else is carried is seen by the walk only.
Marked(p) ==
    {p, [p EXCEPT !.tagged = TRUE], [p EXCEPT !.hidden = TRUE],
     [p EXCEPT !.turned = TRUE, !.tagged = TRUE]}

Jpegs == UNION {Marked([Picture EXCEPT !.format = "jpeg", !.sound = s]) : s \in BOOLEAN}

Webps ==
    UNION {Marked([Picture EXCEPT !.format = "webp", !.features = v]) : v \in BOOLEAN}
      \cup {[Picture EXCEPT !.format = "webp", !.sound = FALSE, !.hidden = TRUE]}

Pngs ==
    UNION {{p, [p EXCEPT !.tagged = TRUE]} :
             p \in {[Picture EXCEPT !.isPalette = c /\ d, !.fewColours = c, !.indexed = i] :
                      c \in BOOLEAN, d \in BOOLEAN, i \in {"larger", "same", "different"}}}

Avifs == Marked([Picture EXCEPT !.format = "avif"])

\* What LOSSLESS makes of a turned image is uploaded again.
StrippedBefore ==
    {[Picture EXCEPT !.format = f, !.turned = TRUE, !.tagged = TRUE, !.features = (f = "webp"),
                     !.stripped = TRUE, !.lossySize = l, !.strippedSize = 20] :
       f \in {"jpeg", "webp"}, l \in {18, 19, 21}}

\* Only a new orientation block makes a stripped copy grow.
Possible(p) == p.format \in {"jpeg", "webp"} /\ p.strippedSize > p.size => p.turned

Refused ==
    {[Picture EXCEPT !.size = 31], [Picture EXCEPT !.format = "undecodable"],
     [Picture EXCEPT !.format = "gif"], [Picture EXCEPT !.pages = 2], [Picture EXCEPT !.pixels = 9]}

Images ==
    {p \in UNION {Sized(q) : q \in Jpegs \cup Webps \cup Pngs \cup Avifs} : Possible(p)}
      \cup StrippedBefore \cup Refused

AnyImage ==
    [image : Images, mode : Modes, copies : {{"m1"}}, spoils : {{}}, faults : {0}]

GIF == [Picture EXCEPT !.format = "gif"]

Disturbed ==
    [image : {Picture}, mode : {"LOSSY"}, copies : {{"m1", "m2"}}, spoils : {{}}, faults : {1}]
      \cup [image : {Picture}, mode : {"none"}, copies : {{"m1", "m2"}},
            spoils : {{"replaced", "missing"}}, faults : {0}]
      \cup [image : {Picture}, mode : {"LOSSY"}, copies : {{"m1"}},
            spoils : {{"replaced", "missing"}}, faults : {1}]
      \cup [image : {GIF}, mode : {"LOSSY"}, copies : {{"m1"}},
            spoils : {{"replaced", "missing"}}, faults : {2}]
      \cup [image : {Picture}, mode : {"LOSSY"}, copies : {{"m1"}}, spoils : {{}}, faults : {2}]

Cases == AnyImage \cup Disturbed
=============================================================================
