----------------------------- MODULE BuildPromise -----------------------------
(***************************************************************************)
(* What a build's ledger promises whoever reads it (the Floor, the export   *)
(* routes, the next start): five phases whose passes are gained one at a    *)
(* time and in order, taken back only from some phase on, and a success     *)
(* that is recorded when all five stand and until something re-opens the    *)
(* run.  RoleRunner implements it.                                          *)
(***************************************************************************)
EXTENDS Naturals

CONSTANTS Phases,     \* the phases of a build
          Before(_)   \* the phases a phase comes after, itself not among them

VARIABLES standing,   \* phases whose pass stands
          verdict,    \* what the run's record says: "none", "succeeded", "failed"
          asks        \* how often the build was asked for

promise == <<standing, verdict, asks>>

\* Nothing stands that was passed out of order.
InOrder(S) == \A r \in S : Before(r) \subseteq S

Init == standing = {} /\ verdict = "none" /\ asks = 0

\* A phase passes after every earlier one.
Pass(r) ==
  /\ verdict # "succeeded" /\ r \in Phases \ standing /\ Before(r) \subseteq standing
  /\ standing' = standing \cup {r}
  /\ UNCHANGED <<verdict, asks>>

\* A phase starts again, or a rework, a pilot cycle or new inputs re-open the run.
TakeBack ==
  /\ standing' \in SUBSET standing /\ InOrder(standing')
  /\ verdict' \in {verdict, "none"} \ {"succeeded"}
  /\ asks' \in {asks, asks + 1}

\* A success is recorded on five standing phases; the Store gate's green answer
\* is the last of them and the success in one.
Succeed ==
  /\ standing' = Phases
  /\ standing = Phases \/ \E r \in Phases : standing = Before(r) /\ Before(r) = Phases \ {r}
  /\ verdict' = "succeeded"
  /\ UNCHANGED asks

Fail == verdict' = "failed" /\ UNCHANGED <<standing, asks>>

\* An ask as such changes nothing.
Ask == asks' = asks + 1 /\ UNCHANGED <<standing, verdict>>

\* A new ask may open a workspace of its own, empty or with what a branch proves already done.
Restart == standing' \in SUBSET Phases /\ InOrder(standing') /\ verdict' = "none" /\ asks' = asks + 1

Next == (\E r \in Phases : Pass(r)) \/ TakeBack \/ Succeed \/ Fail \/ Ask \/ Restart

Spec == Init /\ [][Next]_promise

\* A recorded success is a success of every phase.
SucceededMeansAll == verdict = "succeeded" => standing = Phases
=============================================================================
