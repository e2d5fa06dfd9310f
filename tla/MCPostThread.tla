----------------------------- MODULE MCPostThread -----------------------------
(* PostThread with two message IDs and two posts, which may be of the same *)
(* message ID.                                                             *)
EXTENDS PostThread
===============================================================================
