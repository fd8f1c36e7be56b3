----------------------------- MODULE MCProducer -----------------------------
(* Three handlers, the first of which may start a goroutine: cancelled, the *)
(* three leave enough answers to fill a producer with room for three, and   *)
(* the goroutine then finds no room on Input.                               *)
EXTENDS Producer

OneCopy == [h1 |-> {"c1"}, h2 |-> {}, h3 |-> {}]
=============================================================================
