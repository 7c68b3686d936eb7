------------------------------ MODULE MCServer ------------------------------
(***************************************************************************)
(* Instances of Server for TLC.                                            *)
(***************************************************************************)
EXTENDS Server, TLC

CONSTANTS c1, c2

(* A pipeline of two commands against a single command. *)
Traffic == c1 :> 4 @@ c2 :> 2
(* One client writes and administers, the other uses and leaves. *)
Requests ==
  c1 :> {"write", "kill", "blank", "bad", "shutdown"}
  @@ c2 :> {"read", "write", "quit", "bgsave", "panic"}
=============================================================================
