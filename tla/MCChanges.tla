------------------------------ MODULE MCChanges ------------------------------
EXTENDS Changes

\* One pack more than the list the files begin with.
MCLists == {<<"p">>, <<"p", "q">>}
=============================================================================
