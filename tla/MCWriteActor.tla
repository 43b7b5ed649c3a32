---------------------------- MODULE MCWriteActor ----------------------------
(* One request is sent up to twice, another reuses its key for something    *)
(* else.                                                                    *)
EXTENDS WriteActor, TLC

CONSTANTS first, other, key, text, otherText

MCMaxTries == [c \in Requests |-> IF c = first THEN 2 ELSE 1]
MCKeyOf == [c \in Requests |-> key]
MCContentOf == [c \in Requests |-> IF c = other THEN otherText ELSE text]
=============================================================================
