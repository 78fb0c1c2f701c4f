---------------------------- MODULE BoundedSlots ----------------------------
(***************************************************************************)
(* What the ingestion queue's admission control promises: at most MaxDepth *)
(* clients own a slot of the queue at any time.  A client is one ingestion *)
(* job from the enqueue call that admits it to the finalizer that releases *)
(* it.  A rejected admission does not change this state.                   *)
(***************************************************************************)
EXTENDS Naturals, FiniteSets

CONSTANTS
  Clients,    \* the jobs that ask for a slot
  MaxDepth    \* the queue_max_depth runtime setting

VARIABLE owners   \* the clients that own a slot

Init == owners = {}

Acquire(c) ==
  /\ c \notin owners
  /\ Cardinality(owners) < MaxDepth
  /\ owners' = owners \cup {c}

Release(c) ==
  /\ c \in owners
  /\ owners' = owners \ {c}

Next == \E c \in Clients : Acquire(c) \/ Release(c)

Spec == Init /\ [][Next]_owners
=============================================================================
