------------------------------ MODULE ClaimLoop ------------------------------
(***************************************************************************)
(* The loop inside `LineageRegistry::claim_next` (src/src/rotation.rs),    *)
(* pass by pass. It runs under the registry's lock, so nothing else moves  *)
(* meanwhile and Rotation takes it in one step, as the first candidate     *)
(* that is admitted and does not collide. Here the loop is opened up: each *)
(* pass asks `next_model` for a proposal, and a proposal that collides is  *)
(* remembered by model name and asked round.                               *)
(***************************************************************************)
EXTENDS Integers, Sequences, FiniteSets

CONSTANTS
  Model,  \* model names
  Pools   \* the pools considered, each the models of its candidates in declaration order

ASSUME PoolsAssumption == Pools \subseteq Seq(Model)

VARIABLES
  pool,       \* policy.fallback
  admitted,   \* the positions conditions 1 to 4 and 6 of next_model let through
  colliding,  \* the models whose digest is proven to be another live mage's
  collisions, \* digest_collisions, cleared at entry
  degenerate, \* degenerate_pool
  claimed     \* Looping, None, or the position of the candidate taken

vars == <<pool, admitted, colliding, collisions, degenerate, claimed>>

\* Not positions.
Looping == -1
None    == 0

Position == DOMAIN pool

Init ==
  /\ pool \in Pools
  /\ admitted \in SUBSET Position
  /\ colliding \in SUBSET Model
  /\ collisions = {}
  /\ degenerate = FALSE
  /\ claimed = Looping

\* What next_model finds first: admitted, and not turned down before in this call.
Eligible == {i \in admitted : pool[i] \notin collisions}
Proposal == CHOOSE i \in Eligible : \A j \in Eligible : i <= j

\* Mutant: the digests are not compared.
TakeUnchecked ==
  /\ claimed = Looping /\ Eligible # {}
  /\ claimed' = Proposal
  /\ UNCHANGED <<pool, admitted, colliding, collisions, degenerate>>

\* The proposal is taken: it replaces the mage's entry and is returned.
Take ==
  /\ claimed = Looping /\ Eligible # {}
  /\ pool[Proposal] \notin colliding
  /\ claimed' = Proposal
  /\ UNCHANGED <<pool, admitted, colliding, collisions, degenerate>>

\* A proven collision: record the model and propose again.
Reject ==
  /\ claimed = Looping /\ Eligible # {}
  /\ pool[Proposal] \in colliding
  /\ collisions' = collisions \cup {pool[Proposal]}
  /\ UNCHANGED <<pool, admitted, colliding, degenerate, claimed>>

\* Mutant: the pool is called degenerate as soon as something collided.
ExhaustEagerly ==
  /\ claimed = Looping /\ Eligible = {}
  /\ degenerate' = (collisions # {} /\ Len(pool) > 1)
  /\ claimed' = None
  /\ UNCHANGED <<pool, admitted, colliding, collisions>>

\* No proposal is left. The pool is degenerate when as many models collided as it has
\* entries, and it has several.
Exhaust ==
  /\ claimed = Looping /\ Eligible = {}
  /\ degenerate' = (Cardinality(collisions) = Len(pool) /\ Len(pool) > 1)
  /\ claimed' = None
  /\ UNCHANGED <<pool, admitted, colliding, collisions>>

Next == Take \/ Reject \/ Exhaust
Spec == Init /\ [][Next]_vars

-----------------------------------------------------------------------------
(* Properties.                                                              *)

TypeOK ==
  /\ pool \in Pools
  /\ admitted \subseteq Position /\ colliding \subseteq Model
  /\ collisions \subseteq Model
  /\ degenerate \in BOOLEAN
  /\ claimed \in Position \cup {Looping, None}

\* What Rotation takes the whole call to be.
Claimable == {i \in admitted : pool[i] \notin colliding}

\* The loop takes the first claimable candidate, wherever the colliding ones stand, and
\* none only when there is none (Rotation!ClaimsNext, Rotation!FindsNoCandidate).
TakesFirstClaimable ==
  /\ claimed \in Position =>
       claimed \in Claimable /\ \A j \in Claimable : claimed <= j
  /\ claimed = None => Claimable = {}

\* The pool is called degenerate only when every candidate was turned down by a proven
\* collision and by nothing else; it may be missed when two entries name one model.
DegenerateIsTrue ==
  /\ degenerate => Len(pool) > 1 /\ admitted = Position /\ \A i \in Position : pool[i] \in colliding
  /\ claimed = None /\ Len(pool) > 1 /\ (\A i, j \in Position : pool[i] = pool[j] => i = j) =>
       (degenerate <=> admitted = Position /\ \A i \in Position : pool[i] \in colliding)
===============================================================================
