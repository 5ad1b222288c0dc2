-------------------------- MODULE MCElasticBuffer --------------------------
(* The elastic buffer with three word values beside zero: two places and   *)
(* one word under way, each told apart from the others.                    *)
EXTENDS ElasticBuffer
CONSTANTS zero, w1, w2, w3
MCData == {zero, w1, w2, w3}
=============================================================================
