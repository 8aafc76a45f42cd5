-------------------------- MODULE MCUpdateWatcher ---------------------------
(* A small instance of UpdateWatcher.                                      *)
EXTENDS UpdateWatcher

List(tags, moved) == [tags |-> tags, moved |-> moved]

\* Up to date; more than is read; and a list that shows its tag in neither page
\* if it takes the place of the one before between them: its tag moved, with a
\* newer release.
MCUpstreams ==
    {List(<<1>>, FALSE), List(<<2, 3, 1>>, FALSE), List(<<1, 4>>, TRUE)}

\* Release 4 is 0.20 to the 0.2 of release 3.
MCBegins == {<<3, 4>>}
=============================================================================
