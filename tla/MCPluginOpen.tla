----------------------------- MODULE MCPluginOpen ------------------------------
(***************************************************************************)
(* Crossovers of one filter of one to eleven blocks with a fan-in of one   *)
(* to four, and of three filters of one to three blocks on three channels. *)
(* The tests build filters of two to nine blocks and use a fan-in of one   *)
(* and of four.                                                            *)
(*                                                                         *)
(* Plugins with block sizes of 1, 2 and 8, the default 128, and files of   *)
(* six to eight data lines of up to five numbers.                          *)
(***************************************************************************)
EXTENDS PluginOpen

MCChannels == {0, 1, 2}

Filter == [channel : MCChannels, numBlocks : 1 .. 3]

MCConfigs ==
  [filters : {<<[channel |-> 0, numBlocks |-> n]>> : n \in 1 .. 11}, combine : 1 .. 4]
    \cup [filters : Filter \X Filter \X Filter, combine : {1, 4}]

(* A line of n numbers, with a start and an end. *)
Line(before, n, after) ==
  before \o [k \in 1 .. 2 * n - 1 |-> IF k % 2 = 1 THEN "num" ELSE "sp"] \o after

Plain(n) == Line(<<>>, n, <<>>)

(* The first lines vary, and plain lines follow. *)
Starts ==
  { <<Plain(1), Plain(2), Plain(5)>>,
    << <<>>, <<"#", "word">>, Line(<<"sp">>, 3, <<>>), << "sp" >>, Plain(2), Plain(4)>>,
    <<Line(<<>>, 2, <<"sp">>), Plain(3), Line(<<"sp">>, 4, <<"sp">>)>>,
    <<Plain(2), <<"num", "sp", "cut">>, Line(<<>>, 1, <<"sp">>)>>,
    <<Plain(2), <<"num", "sp", "word">>, Plain(2)>>,
    <<Plain(2), <<"num", "sp", "cut", "sp", "num">>, Plain(2)>>,
    <<Plain(2), Line(<<>>, 2, <<"sp", "#", "word">>), Plain(3)>> }

MCFiles ==
  {Missing, [kind |-> "directory", lines |-> <<>>]}
    \cup {[kind |-> "text", lines |-> s \o [k \in 1 .. n |-> Plain(1 + (k % 3))]]
            : s \in Starts, n \in 3 .. 5}

Slave(pcm)   == [id |-> "slave", pcm |-> pcm]
Path(f)      == [id |-> "path", value |-> f]
BlockSize(n) == [id |-> "blocksize", integer |-> TRUE, value |-> n]
NoInteger    == [id |-> "blocksize", integer |-> FALSE]
Delay(n)     == [id |-> "fir_delay", integer |-> TRUE, value |-> n]
Type         == [id |-> "type"]

MCConfigurations ==
  {<<Type, Slave("name"), Path(f), BlockSize(n)>> : f \in MCFiles, n \in {1, 2}}
    \cup {<<Path(f), NoInteger, Delay(-5), Slave("name")>> : f \in MCFiles}
    \cup {<<BlockSize(8), Delay(7), Slave(p), Path(f), Slave("none")>>
            : f \in MCFiles, p \in {"name", "empty", "none"}}
    \cup {<<Slave("name")>>}
================================================================================
