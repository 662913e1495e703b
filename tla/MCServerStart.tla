---------------------------- MODULE MCServerStart ----------------------------
(***************************************************************************)
(* Instance of ServerStart for TLC: numbers of 3 and 4 bits stand for 32   *)
(* and 64 bits.                                                            *)
(***************************************************************************)
EXTENDS ServerStart

\* Up to three devices in every order, ciph_app.xml's among them, and lines
\* that lack a device.
MCVdevs == UNION {[1 .. n -> {"aesni", "snow3g", "other"}] : n \in {0, 2, 3}}

\* No client, one, and two in any order.
MCClientLists == {<<>>} \cup {<<c>> : c \in 0 .. 2} \cup {<<0, 1>>, <<1, 0>>, <<1, 2>>}

\* Zero, small numbers, the largest uint32_t, 2^32, one that is cut to a
\* small number, and one that strtoul refuses.
Nums == {0, 2, 4, 7, 8, 10, 16}

\* Lists of up to three numbers and ranges of up to four.
Lists == {<<>>} \cup {<<<<n>>>> : n \in Nums} \cup [1 .. 2 -> {<<n>> : n \in Nums}]
Ranges == {<<<<m, n>>>> : m, n \in {2, 8}} \cup {<<g>> : g \in [1 .. 3 -> {2, 4, 8, 10}]}
Others == {<<<<2>>, <<10>>, <<4>>>>, <<<<2>>, <<4>>, <<8>>>>,
           <<<<2, 2, 4, 2>>>>, <<<<2, 2>>, <<4>>>>, <<<<2>>, <<4, 2>>>>}

MCArgs == Lists \cup Ranges \cup Others

SizedDefault == [list |-> <<2>>, min |-> 4, max |-> 4, inc |-> 0]
MCDefaults == [burst |-> SizedDefault, buffer |-> SizedDefault, pool |-> 4, segment |-> 0, desc |-> 2]
=============================================================================
