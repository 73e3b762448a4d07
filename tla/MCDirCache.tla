---------------------------- MODULE MCDirCache ----------------------------
(* One engine, run again and again with any configuration, over one      *)
(* directory holding one cache file at a time.  Names are strings over    *)
(* two letters: the lists ["a","b"] and ["ab"], or ["a"] with URL "b" and *)
(* ["ab"] with URL "", feed the same letters to the digest and differ     *)
(* only in where the zero bytes go; a domain list can equal a contact     *)
(* list, and a cert and an account file can share a directory.             *)
EXTENDS DirCache

CONSTANTS e1, d1, nocache

MCEngines == {e1}
MCDirs == {d1}

MCStrings == {<<"a">>, <<"b">>, <<"a", "b">>}
MCDomainLists == SeqOf(MCStrings, 2) \ {<<>>}
MCContactLists == SeqOf({<<"a">>, <<"a", "b">>}, 1)
MCDirectoryUrls == {<<>>, <<"b">>}

=============================================================================
