----------------------------- MODULE HttpSession -----------------------------
(***************************************************************************)
(* What a server owes its clients, whatever its event loop looks like: on  *)
(* each open connection requests and answers alternate, an answer does not *)
(* begin before its request has been sent completely, and a client that    *)
(* has sent a whole request gets a whole answer unless the connection is   *)
(* closed.  EventLoop is shown to implement this specification.            *)
(***************************************************************************)
CONSTANT Fds

VARIABLE session   \* the state of each descriptor's connection

States == {"closed", "idle", "asking", "asked", "answering"}

Init == session = [f \in Fds |-> "closed"]

Goes(f, from, to) == session[f] = from /\ session' = [session EXCEPT ![f] = to]

Accept(f) == Goes(f, "closed", "idle")
Ask(f)    == Goes(f, "idle", "asking")
Asked(f)  == Goes(f, "asking", "asked")
\* An answer goes out in one piece or in several.
Answer(f) == \E from \in {"asked", "answering"}, to \in {"answering", "idle"} :
               from # to /\ Goes(f, from, to)
Close(f)  == session[f] # "closed" /\ session' = [session EXCEPT ![f] = "closed"]

\* The server stops: every connection is closed at once.
Stop == session' = [f \in Fds |-> "closed"]

Next == Stop \/ \E f \in Fds : Accept(f) \/ Ask(f) \/ Asked(f) \/ Answer(f) \/ Close(f)

\* Who has asked is answered in full, or disconnected.
Serve(f)  == \E from \in {"asked", "answering"}, to \in {"idle", "closed"} : Goes(f, from, to)
Served(f) == WF_session(Serve(f))
Fairness  == \A f \in Fds : Served(f)

Safety == Init /\ [][Next]_session
Spec   == Safety /\ Fairness
=============================================================================
