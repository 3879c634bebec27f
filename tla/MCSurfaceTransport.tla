-------------------------- MODULE MCSurfaceTransport --------------------------
(***************************************************************************)
(* A small instance of SurfaceTransport: every deployment, one key shared  *)
(* by most requests, and of the others each at fault in one respect.       *)
(***************************************************************************)
EXTENDS SurfaceTransport

Post(route, body) ==
  [ route |-> route, loopback |-> TRUE, token |-> TRUE, typed |-> TRUE, content |-> "ok",
    key |-> CHOOSE k \in Keys : TRUE, body |-> body ]

\* Every kind of request in the second call; the first and the third may meet
\* over a key.
MCRequests ==
  LET post == Post("complete", "b1")
      first == { Post("complete", "b1"), Post("evaluate", "b1") }
      last == { Post("complete", "b2") }
      any == { Post("complete", b) : b \in Bodies }
        \cup { Post("evaluate", "b1"), Post("evaluate", "b2"), Post("influence", "b1"),
               [post EXCEPT !.loopback = FALSE], [post EXCEPT !.token = FALSE],
               [post EXCEPT !.typed = FALSE], [post EXCEPT !.key = None],
               [post EXCEPT !.content = "tooLarge"], [post EXCEPT !.content = "notJson"],
               [post EXCEPT !.content = "invalid"], [post EXCEPT !.content = "notRequest"],
               [post EXCEPT !.route = "health"],
               [post EXCEPT !.route = "unknown"], [post EXCEPT !.route = "summary"] }
  IN  [c \in Calls |-> IF c = 1 THEN first ELSE IF c = 2 THEN any ELSE last]

Deployed(transport, mode, authenticator) ==
  [transport |-> transport, mode |-> mode, authenticator |-> authenticator]

MCDeployments ==
  { Deployed("rest", "local-loopback", FALSE), Deployed("rest", "hosted-authenticated", TRUE),
    Deployed("rest", "hosted-authenticated", FALSE),
    Deployed("worker", "hosted-authenticated", TRUE),
    Deployed("worker", "hosted-authenticated", FALSE),
    Deployed("sdk", "local-loopback", FALSE), Deployed("stdio", "local-loopback", FALSE) }

=============================================================================
