---------------------------- MODULE MCHttpGateway ----------------------------
(***************************************************************************)
(* Model checking of HttpGateway: two threads, two hosts.  The files of    *)
(* one host have moved to the other one, which may fail to answer, or send *)
(* back where they came from until the requests of an open run out.        *)
(***************************************************************************)
EXTENDS HttpGateway

CONSTANTS A, B   \* hosts

Ok == [kind |-> "ok", to |-> NoUrl, cached |-> FALSE]
Err(k) == [kind |-> k, to |-> NoUrl, cached |-> FALSE]
Moved(u, c) == [kind |-> "moved", to |-> u, cached |-> c]

Paths == {"p", "q"}
Hosts == {A, B}
Downloads == {A} \X Paths

Moves ==
  [u \in Hosts \X Paths |->
     CASE u = <<A, "p">> -> {Moved(<<B, "p">>, TRUE)}
       [] u = <<A, "q">> -> {Moved(<<B, "p">>, TRUE)}
       [] u = <<B, "p">> -> {Ok, Err("error"), Moved(<<A, "q">>, FALSE)}
       [] OTHER -> {Err("timeout"), Moved(NoUrl, FALSE)}]
=============================================================================
