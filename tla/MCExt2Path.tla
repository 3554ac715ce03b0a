----------------------------- MODULE MCExt2Path ------------------------------
(***************************************************************************)
(* Two small trees and a few contents of the stack, for TLC.               *)
(***************************************************************************)
EXTENDS Ext2Path, TLC

Entry(n, i) == [name |-> n, ino |-> i]
Dots(d) == << Entry(<<".">>, d), Entry(<<".", ".">>, 2) >>

\* Names of different lengths: the longer ones come later in the deeper directory.
MixedImage == 2 :> Dots(2) \o << Entry(<<"d">>, 3), Entry(<<"a">>, 4) >>
           @@ 3 :> Dots(3) \o << Entry(<<"a", "b">>, 5) >>

MixedPaths == { <<"/">>, <<"/", "a", "b">>, <<"/", "d", "/", "a">>, <<"/", "b", "/", "d", "/">>,
                <<"/", "d", "/", "b", "/", "d", "/", "a">> }

\* A long name in the root, a short one in the same place of the other directory.
CoveredImage == 2 :> Dots(2) \o << Entry(<<"a", "b">>, 4), Entry(<<"d">>, 3) >>
             @@ 3 :> Dots(3) \o << Entry(<<"a">>, 5) >>

CoveredPaths == { <<"/">>, <<"/", "a">>, <<"/", "a", "b">>, <<"/", "d", "/", "a">> }

\* The arrays as they are on a stack that nobody has used, and with a letter in the rows
\* and in the later places of the listing.
Filled(last, c) == [b \in 0 .. last |-> c]
FilledRows(c) == [j \in 0 .. MaxDepth - 1 |-> Filled(NameLen + 1, c)]
FilledEntries(c) == [n \in 1 .. MaxListed |->
                       [name |-> Filled(NameLen, IF n > 3 THEN c ELSE Nul), ino |-> 9]]
ZeroFrames == {[rows |-> FilledRows(Nul), entries |-> FilledEntries(Nul)]}
ManyFrames == ZeroFrames \cup {[rows |-> FilledRows("b"), entries |-> FilledEntries("b")]}

\* A parent's path that is empty, left by a file created in /d, or without an end.
Parent(s) == CopyTo(Filled(MaxPathLen - 1, Nul), s)
LeftBuffers == {[rows |-> FilledRows(Nul), parent |-> Parent(s)] : s \in {<<>>, <<"/", "d">>}}
ManyBuffers == LeftBuffers \cup
               {[rows |-> FilledRows("b"), parent |-> Filled(MaxPathLen - 1, "b")]}
=============================================================================
