---------------------------- MODULE MCClientInput ----------------------------
(***************************************************************************)
(* ClientInput with every command, followed by up to two symbols or by two *)
(* words with blanks of several kinds; lines that exceed each of the three *)
(* limits by one or more symbols, and end in what looks like a command.    *)
(***************************************************************************)
EXTENDS ClientInput

MCName == {<<>>, <<"a">>, <<"b">>, <<"b", " ">>, <<"b", "-">>, <<"b", "b">>,
           <<"-", "b", "b">>, <<"b", "b", "b">>, <<"b", "b", "/", "exit">>,
           <<"b", "b", "/", "join", " ", "a">>, <<" ">>}

Command == {"join", "leave", "broadcast", "whisper", "sendfile", "exit", "help"}

Short == {<<>>} \union {<<x>> : x \in {" ", "tab", "a"}}
                \union {<<x, y>> : x, y \in {" ", "tab", "a"}}

Space == {<<" ">>, <<" ", " ">>, <<"tab">>}
Long == {s \o <<x>> \o t \o <<"a">> \o e :
           s, t \in Space, x \in {"f", "a"}, e \in {<<>>, <<"tab">>}}

MCLine ==
  {<<"/", c>> \o t : c \in Command, t \in Short}
    \union {<<"/", c>> \o t : c \in {"whisper", "sendfile"}, t \in Long}
    \union {<<"/", " ", c>> : c \in Command}
    \union {<<"/", "join", " ", "a", "b", "a">>, <<"/", "join", " ", "a", "-">>,
            <<"/", "join", " ", "a", " ", "b">>,
            <<"/", "sendfile", " ", "tab", "f", " ", "a">>,
            <<>>, <<"a">>, <<"/">>,
            <<"/", "broadcast", " ", "a", "a", "a", "a">>,
            <<"/", "broadcast", " ", "a", "a", "a", "a", "/", "exit">>}

MCAlnum     == {"a", "b", "join", "leave", "broadcast", "whisper", "sendfile",
                "exit", "help"}
MCExtension == {"f"}
MCLocalFile == {<<"f">>, <<"a">>}
MCPeer      == {<<"a">>}
=============================================================================
