-------------------------- MODULE MCConnections --------------------------
EXTENDS Connections

\* Two changes of content, two that create files for the game, an import of a
\* modpack and a read.
MCUsed == {<<"datapacks", "enable">>, <<"mods", "install">>, <<"install", "execute">>,
           <<"modpack", "install">>, <<"worlds", "list">>}

\* Of the logins, launches and removals of accounts two are under way at a
\* time, two loops of the login only until the second token is given out, and
\* none any more when the last one is and both accounts have a token.  The
\* accounts are interchangeable: the first token is for "a".
Loops == {l \in Logins : login_logins[l].pc # "idle"}
Calling == {x \in Launches : login_launches[x].pc # "idle"}
TwoCalls ==
  part = "login" =>
    /\ Cardinality(Loops) + Cardinality(Calling) + (IF login_removal.pc = "idle" THEN 0 ELSE 1) <= 2
    /\ Loops = Logins => login_issued <= 1
    /\ login_issued = MaxTokens /\ login_keychain["b"] # None => Loops = {}
    /\ \A l \in Logins : login_logins[l].token # [of |-> "b", n |-> 1]

\* The names of saves are interchangeable, and so are the files of a panel: of
\* two initial states that differ in the names only one is needed.
Rank == [none |-> 1, on |-> 2, off |-> 3, loose |-> 4]
OneOfEach ==
  /\ part = "saves" /\ saves_runs = 0 =>
       <<saves_core.worlds["v"], saves_core.worlds["w"]>> \notin
         {<<None, "a">>, <<None, "b">>, <<"b", "a">>}
  /\ part = "content" /\ content_changes = 0 =>
       Rank[content_core["f"]] <= Rank[content_core["g"]]
=============================================================================
