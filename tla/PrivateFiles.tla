----------------------------- MODULE PrivateFiles -----------------------------
(***************************************************************************)
(* What a client may rely on for the names that it alone uses, whatever    *)
(* the others do to the directory meanwhile: its requests take effect one  *)
(* after the other and each at once.  An upload that is answered 201 is    *)
(* there from then on, unless the system would not open a file for it,     *)
(* which the client is not told; a refused one has changed nothing, what   *)
(* has been removed is gone, and reading tells which it is.  Uploads is    *)
(* shown to implement this specification.                                  *)
(***************************************************************************)
EXTENDS Integers

CONSTANTS
  Clients,
  Calls,    \* what each client may ask
  First     \* the files that each client has at the start

VARIABLES
  held,    \* the files of each client, from their names to what they hold
  asked,   \* the call under way
  answer   \* the status it has been given, 0 before

vars == <<held, asked, answer>>

Empty    == 0
NoCall   == [op |-> "none"]
Refusals == {301, 400, 404, 405, 413}
Unsaved  == -201   \* 201 to the client, for a file that was not opened

Init ==
  /\ held = First
  /\ asked = [c \in Clients |-> NoCall]
  /\ answer = [c \in Clients |-> 0]

Ask(c) ==
  /\ asked[c] = NoCall
  /\ \E call \in Calls[c] : asked' = [asked EXCEPT ![c] = call]
  /\ UNCHANGED <<held, answer>>

Responds(c, status) ==
  /\ asked[c] # NoCall /\ answer[c] = 0
  /\ answer' = [answer EXCEPT ![c] = status]
  /\ UNCHANGED asked

Named(c) == asked[c].name

With(c)    == [n \in DOMAIN held[c] \cup {Named(c)} |->
                 IF n = Named(c) THEN asked[c].body ELSE held[c][n]]
Without(c) == [n \in DOMAIN held[c] \ {Named(c)} |-> held[c][n]]

Save(c) ==
  /\ asked[c].op = "save" /\ Responds(c, 201)
  /\ held' = [held EXCEPT ![c] = With(c)]

Lose(c) ==
  /\ asked[c].op = "save" /\ Responds(c, Unsaved)
  /\ UNCHANGED held

Refuse(c) ==
  /\ asked[c].op = "save" /\ \E status \in Refusals : Responds(c, status)
  /\ UNCHANGED held

\* 200 is for files that are there, 404 for those that are not, or are empty.
Tells(c, status) ==
  /\ status = 200 => Named(c) \in DOMAIN held[c]
  /\ status = 404 /\ Named(c) \in DOMAIN held[c] => held[c][Named(c)] = Empty

Look(c) ==
  /\ asked[c].op = "look"
  /\ \E status \in {200} \cup Refusals : Tells(c, status) /\ Responds(c, status)
  /\ UNCHANGED held

\* A file is removed whatever the answer is.
Remove(c) ==
  /\ asked[c].op = "remove"
  /\ \E status \in {200} \cup Refusals : Tells(c, status) /\ Responds(c, status)
  /\ held' = [held EXCEPT ![c] = Without(c)]

\* A call about something else, a name that others use too or no name.
Elsewhere(c) ==
  /\ asked[c].op = "elsewhere"
  /\ \E status \in {200, 201} \cup Refusals : Responds(c, status)
  /\ UNCHANGED held

Done(c) ==
  /\ answer[c] # 0
  /\ asked' = [asked EXCEPT ![c] = NoCall]
  /\ answer' = [answer EXCEPT ![c] = 0]
  /\ UNCHANGED held

Next == \E c \in Clients :
          Ask(c) \/ Save(c) \/ Lose(c) \/ Refuse(c) \/ Look(c) \/ Remove(c) \/ Elsewhere(c) \/ Done(c)

Spec == Init /\ [][Next]_vars
=============================================================================
