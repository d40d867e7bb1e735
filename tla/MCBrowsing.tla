----------------------------- MODULE MCBrowsing -----------------------------
(* A small instance of Browsing: rows of two cards, two discover lists, three searches. *)
EXTENDS Browsing, TLC

Films == {"f1", "f2", "f3", "f4", "f5", "f6", "f7"}
TvShows == {"long", "gapped", "s3", "s4", "s5"}
Dummy == {"d1", "d2"}

\* The second page of the films repeats a poster and fills a row, the third does not.
MCPages == ("films" :> << <<"f1", "f2", "f3", "f4", "f5">>, <<"f5", "f6">>, <<"f7">> >>)
        @@ ("shows" :> << <<"long", "gapped", "s3", "s4">> >>)
MCKind == ("films" :> "movie") @@ ("shows" :> "tv")

\* "many" fills two rows and half of a third before its shows are answered.
MCFound == ("both"    :> [films |-> <<"f1", "f2", "f3">>, shows |-> <<"s3", "s4">>, pages |-> 2])
        @@ ("many"    :> [films |-> <<"f1", "f2", "f3", "f4", "f5">>, shows |-> <<"s3">>, pages |-> 1])
        @@ ("neither" :> [films |-> << >>, shows |-> << >>, pages |-> 1])
MCDummies == [t \in DOMAIN MCFound |-> <<"d1", "d2">>]
MCId == [t \in Films \cup TvShows \cup Dummy |->
            CASE t \in Dummy -> 0 [] t = "f1" -> 1 [] t = "long" -> 1 [] OTHER -> t]

MCOpened == [lists |-> {"f6", "long", "gapped", "d2"}, settings |-> {"f1"}]

Aired(s, ns) == {[season |-> s, number |-> n, aired |-> "past"] : n \in ns}
Ahead(s, ns) == {[season |-> s, number |-> n, aired |-> "future"] : n \in ns}

MCShowTitles == TvShows \cup {"d2"}

\* Long enough for both rows to scroll; seasons with a gap before one that has not begun.
MCEpisodes == [t \in MCShowTitles |->
    CASE t = "long"   -> Aired(1, 1 .. 2) \cup Aired(2, 1 .. 5) \cup Aired(3, {1})
                            \cup Aired(4, {1}) \cup Ahead(4, {2}) \cup Ahead(5, {1})
      [] t = "gapped" -> Aired(1, {1}) \cup Ahead(3, {1})
      [] OTHER        -> {}]
=============================================================================
