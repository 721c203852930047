------------------------------ MODULE MCAccounts ------------------------------
(***************************************************************************)
(* Small instances of Profile and TrustScore for TLC, explored apart: they *)
(* share no variable (what one does to the columns of the other is an      *)
(* action of that other module), so their interleavings would show nothing *)
(* that one of them alone does not.                                        *)
(***************************************************************************)
EXTENDS Profile, TrustScore, TLC

\* What the evaluator finds: a user who has the badge of trust 80, or has not yet.
MCContexts ==
  {[registrations |-> 1, verifications |-> 0, trust |-> t, points |-> 0, days |-> 0] :
     t \in {79, 80}}

VARIABLE component

vars == <<component, profileVars, trustVars>>

\* A single initial state of the component at rest.
ProfileAtRest == ProfileInit /\ \A u \in UserIds : profile[u].state = "unused"

TrustAtRest ==
  /\ TrustInit
  /\ owner = [i \in Items |-> CHOOSE m \in Members : TRUE]
  /\ \A m \in Members : member[m] = "live" /\ \A i \in Items : vote[i][m] = "none"

Init ==
  \/ component = "profile" /\ ProfileInit /\ TrustAtRest
  \/ component = "trust" /\ TrustInit /\ ProfileAtRest

Next ==
  \/ component = "profile" /\ ProfileNext /\ UNCHANGED <<component, trustVars>>
  \/ component = "trust" /\ TrustNext /\ UNCHANGED <<component, profileVars>>

Spec == Init /\ [][Next]_vars

\* One type invariant for both.
TypeOK == ProfileTypeOK /\ TrustTypeOK

\* Two requests, two processes, two users and two nicknames are interchangeable. The
\* sets of the two components are permuted together.
Fixes(f) == \A x \in DOMAIN f : f[x] = x

Together(S, T) ==
  {p[1] @@ p[2] : p \in {q \in Permutations(S) \X Permutations(T) : Fixes(q[1]) <=> Fixes(q[2])}}

Symmetry ==
  Together(Requests, Batches) \cup Together(UserIds, Members) \cup Permutations(Nicknames)
=============================================================================
