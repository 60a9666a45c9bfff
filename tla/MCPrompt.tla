------------------------------ MODULE MCPrompt ------------------------------
(* Texts over two letters, the space and one character of two bytes, up to *)
(* the lengths where prompts are cut; longer ones over the letters alone,  *)
(* where merges compete; every scoring of four pieces by two scores.       *)
EXTENDS Prompt, TLC

MCLetters == {"a", "b", "_"}
MCUtf8 == "z" :> <<"x1", "x2">>

MCPieces == {<<"_", "a">>, <<"a", "b">>, <<"b", "a">>, <<"a", "b", "a">>}
MCVocabularies == UNION {[P -> {-2, -1}] : P \in SUBSET MCPieces}

MCShort == UNION {[1 .. n -> {"a", "b", "z", " "}] : n \in 0 .. 2}
MCLong == {<<"a", "b", "a", "b", "a", "b">>, <<"a", "a", "b", "a", "a", "b">>,
           <<"b", "a", "b", " ", "a", "b", "a">>, <<"a", "b", "z", "a", "b">>}
MCQueries == MCShort \cup MCLong
MCCatalogues == {<<"b">>, <<"a", "b", "a", "b">>, <<"z", "z">>}

MCOutOfRange == <<"8192">>
MCWord == <<"word">>
MCToolsId == <<"<tools>">>
MCRefused == <<"refused">>
MCId == <<"a">>
MCRawLists == {<<>>, <<MCId>>, <<MCId, MCWord>>, <<MCWord, MCId>>, <<MCId, MCOutOfRange, MCId>>,
               <<MCId, MCId, MCId, MCId, MCId, MCId>>,
               <<MCId, MCId, MCId, MCId, MCId, MCOutOfRange>>}
=============================================================================
