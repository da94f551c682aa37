------------------------------ MODULE MCIndex ------------------------------
(* Instances of Index for TLC. *)
EXTENDS Index

\* A body, and the same with its first section edited.
TwoBodies == <<<<1, 2>>, <<3, 2>>>>

\* A body, and the same with its last section removed.
LongAndShort == <<<<1, 2>>, <<1>>>>

\* One section, or another.
OneSection == <<<<1>>, <<2>>>>

\* Edits of the pages.
OnceEach == [p \in Pages |-> 1]
TwiceAndOnce == [p \in Pages |-> IF p = 1 THEN 2 ELSE 1]
=============================================================================
