----------------------------- MODULE MCFeedSync -----------------------------
(* A small instance of FeedSync for TLC.                                     *)
EXTENDS FeedSync

CONSTANTS bad, good, moves, g1, g2, u1, u2, u3, x, y, s1, s2

BadThenGood == <<bad, good>>

MovesThenGood == <<moves, good>>

Entry_(guid, url, text) == [guid |-> guid, url |-> url, text |-> text]

\* bad has a link that is no web URL; good drops an entry, edits another and adds
\* two, one without a link and one past the limit; moves exchanges the links of its
\* two entries.
Served ==
  [f \in Feeds |->
     CASE f = bad -> << <<Entry_(g2, BadLink, x)>> >>
       [] f = good -> << <<Entry_(g1, u1, x), Entry_(NoGuid, u2, x)>>,
                         <<Entry_(NoGuid, u2, y), Entry_(NoGuid, NoLink, x), Entry_(g2, u3, x)>> >>
       [] OTHER -> << <<Entry_(g1, u1, x), Entry_(g2, u2, x)>>,
                      <<Entry_(g1, u2, x), Entry_(g2, u1, x)>> >>]
=============================================================================
