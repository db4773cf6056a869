---------------------------- MODULE MCConnection ----------------------------
(* Instances of Connection. *)
EXTENDS Connection

\* A TLS record, requests and words cut at several places, a line feed.
MCOpenings == { <<22>>, <<71>>, <<69, 84, 32>>, <<85, 83>>, <<101, 114, 97>>, <<83, 83, 72, 45>>,
                <<10>> }

\* Letters of one, two and three bytes, erasures, ends of lines, and Telnet commands
\* and escape sequences whole and in parts.
Pieces == { <<97>>, <<195, 169>>, <<226, 130, 172>>, <<127>>, <<13>>, <<10>>, <<0>>, <<3>>,
            <<255>>, <<255, 251, 97>>, <<255, 250, 97>>, <<255, 240>>, <<255, 244>>,
            <<27>>, <<27, 91, 50>>, <<91, 97>> }

\* TLS changes nothing of what the services see.
MCFragments == [tcp |-> << Pieces, Pieces \ {<<3>>, <<0>>, <<255, 244>>, <<27, 91, 50>>}, {<<97, 13, 13, 13>>} >>,
                tls |-> << {<<13>>}, {<<97, 10>>}, {<<13>>} >>]

MCTyping == { <<97, 98, 8, 13>> }
=============================================================================
