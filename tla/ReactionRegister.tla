--------------------------- MODULE ReactionRegister ---------------------------
(***************************************************************************)
(* What POST /price/:id/confirm and /report promise: a user has one        *)
(* reaction to a price, and every answer belongs to one indivisible step   *)
(* on it.                                                                  *)
(***************************************************************************)

CONSTANTS Users, Prices, Calls, NoRequest

VARIABLES
  reaction,   \* of each user to each price: "none", "confirm", "report"
  request,    \* what each call asks for
  answer      \* what it was told

vars == <<reaction, request, answer>>

Kinds == {"confirm", "report"}
Request == [kind : Kinds, user : Users, price : Prices]

Init ==
  /\ reaction = [u \in Users |-> [p \in Prices |-> "none"]]
  /\ request = [c \in Calls |-> NoRequest]
  /\ answer = [c \in Calls |-> "none"]

Waiting(c) == request[c] # NoRequest /\ answer[c] = "none"

\* What a request makes of a reaction: a second confirm takes the first back.
Flipped(kind, old) == IF kind = "confirm" /\ old = "confirm" THEN "none" ELSE kind

Ask(c, q) ==
  /\ request[c] = NoRequest
  /\ request' = [request EXCEPT ![c] = q]
  /\ UNCHANGED <<reaction, answer>>

\* The reaction changes, and the call is told so. A report is not repeated.
Accept(c) ==
  LET q == request[c] IN
  /\ Waiting(c)
  /\ q.kind = "report" => reaction[q.user][q.price] # "report"
  /\ reaction' = [reaction EXCEPT ![q.user][q.price] = Flipped(q.kind, @)]
  /\ answer' = [answer EXCEPT ![c] = "ok"]
  /\ UNCHANGED request

\* There is a reaction already: the confirm is ignored, the report refused.
AlreadyThere(c) ==
  LET q == request[c] IN
  /\ Waiting(c)
  /\ reaction[q.user][q.price] # "none"
  /\ answer' = [answer EXCEPT ![c] = IF q.kind = "confirm" THEN "ignored" ELSE "conflict"]
  /\ UNCHANGED <<reaction, request>>

Refuse(c) ==
  /\ Waiting(c)
  /\ answer' = [answer EXCEPT ![c] = "refused"]
  /\ UNCHANGED <<reaction, request>>

\* A user or a price goes, and the reactions with it.
Forget(users, prices) ==
  /\ reaction' = [u \in Users |-> [p \in Prices |->
                    IF u \in users \/ p \in prices THEN "none" ELSE reaction[u][p]]]
  /\ UNCHANGED <<request, answer>>

Next ==
  \/ \E c \in Calls : \/ \E q \in Request : Ask(c, q)
                      \/ Accept(c) \/ AlreadyThere(c) \/ Refuse(c)
  \/ \E u \in Users : Forget({u}, {})
  \/ \E p \in Prices : Forget({}, {p})

Spec == Init /\ [][Next]_vars
=============================================================================
